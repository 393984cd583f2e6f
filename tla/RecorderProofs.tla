--------------------------- MODULE RecorderProofs ---------------------------
(***************************************************************************)
(* Theorems about the recorder.  The load at start sorts the directory, a  *)
(* CHOOSE over all enumerations of it, so the first thing to show is that  *)
(* a finite set has a sorted enumeration; the rest is one step per         *)
(* operation of Recorder.                                                  *)
(***************************************************************************)
EXTENDS Recorder, FiniteSetTheorems, SequenceTheorems, TLAPS

-----------------------------------------------------------------------------
(* Sorting.                                                                *)

\* A finite set, whose elements have numbers for keys, can be enumerated by
\* descending keys.  The position of an element is one more than the number of
\* elements that go before it, ties broken by any enumeration of the set.
LEMMA SortedEnumeration ==
    ASSUME NEW E, IsFiniteSet(E), NEW key \in [E -> Nat]
    PROVE  \E q \in [1..Cardinality(E) -> E] :
             \A i, j \in 1..Cardinality(E) :
               i < j => q[i] # q[j] /\ ~(key[q[j]] > key[q[i]])
<1> DEFINE n == Cardinality(E)
<1>1. n \in Nat /\ ExistsBijection(1..n, E)
  BY FS_CardinalityType
<1>2. PICK b \in Bijection(1..n, E) : TRUE
  BY <1>1 DEF ExistsBijection
<1>3. \A x \in E : \E i \in 1..n : b[i] = x
  BY <1>2 DEF Bijection, Surjection
<1> DEFINE idx == [x \in E |-> CHOOSE i \in 1..n : b[i] = x]
           Before(x, y) == \/ key[x] > key[y]
                           \/ (key[x] = key[y] /\ idx[x] < idx[y])
           Prior(x) == {y \in E : Before(y, x)}
           pos == [x \in E |-> Cardinality(Prior(x)) + 1]
<1>4. \A x \in E : idx[x] \in 1..n /\ b[idx[x]] = x
  BY <1>3
<1>5. \A x \in E : key[x] \in Nat /\ idx[x] \in Nat
  BY <1>4, <1>1
<1>6. \A x, y \in E : x # y => Before(x, y) \/ Before(y, x)
  <2> SUFFICES ASSUME NEW x \in E, NEW y \in E, x # y
               PROVE  Before(x, y) \/ Before(y, x)
    OBVIOUS
  <2>1. idx[x] # idx[y]
    BY <1>4
  <2> HIDE DEF idx
  <2> QED BY <2>1, <1>5
<1>7. \A x, y, z \in E : (Before(x, y) /\ Before(y, z)) => Before(x, z)
  <2> HIDE DEF idx
  <2> QED BY <1>5
<1>8. \A x \in E : ~Before(x, x)
  <2> HIDE DEF idx
  <2> QED BY <1>5
<1> HIDE DEF idx, Before
<1>9. \A x \in E : /\ IsFiniteSet(Prior(x))
                   /\ Cardinality(Prior(x)) \in 0..n - 1
  <2> SUFFICES ASSUME NEW x \in E
               PROVE  /\ IsFiniteSet(Prior(x))
                      /\ Cardinality(Prior(x)) \in 0..n - 1
    OBVIOUS
  <2>1. Prior(x) \in SUBSET E /\ x \notin Prior(x)
    BY <1>8
  <2> HIDE DEF Prior
  <2>2. /\ IsFiniteSet(Prior(x))
        /\ Cardinality(Prior(x)) <= n
        /\ Cardinality(Prior(x)) # n
    BY <2>1, FS_Subset
  <2>3. Cardinality(Prior(x)) \in Nat
    BY <2>2, FS_CardinalityType
  <2> QED BY <2>2, <2>3, <1>1
<1>10. \A x, y \in E : Before(x, y) => pos[x] < pos[y]
  <2> SUFFICES ASSUME NEW x \in E, NEW y \in E, Before(x, y)
               PROVE  pos[x] < pos[y]
    OBVIOUS
  <2>1. Prior(x) \in SUBSET Prior(y)
    BY <1>7
  <2>2. x \in Prior(y) /\ x \notin Prior(x)
    BY <1>8
  <2>3. /\ IsFiniteSet(Prior(x)) /\ Cardinality(Prior(x)) \in Nat
        /\ IsFiniteSet(Prior(y)) /\ Cardinality(Prior(y)) \in Nat
    BY <1>9, FS_CardinalityType
  <2>4. pos[x] = Cardinality(Prior(x)) + 1 /\ pos[y] = Cardinality(Prior(y)) + 1
    OBVIOUS
  <2> HIDE DEF Prior, pos
  <2>5. /\ Cardinality(Prior(x)) <= Cardinality(Prior(y))
        /\ Cardinality(Prior(x)) # Cardinality(Prior(y))
    BY <2>1, <2>2, <2>3, FS_Subset
  <2> QED BY <2>3, <2>4, <2>5
<1>11. pos \in [E -> 1..n]
  <2>1. \A x \in E : Cardinality(Prior(x)) + 1 \in 1..n
    <3> HIDE DEF Prior
    <3> QED BY <1>9, <1>1
  <2> HIDE DEF Prior
  <2> QED BY <2>1
<1> HIDE DEF pos, Prior
<1>12. \A x, y \in E : x # y => pos[x] # pos[y]
  <2> SUFFICES ASSUME NEW x \in E, NEW y \in E, x # y
               PROVE  pos[x] # pos[y]
    OBVIOUS
  <2>1. pos[x] \in Int /\ pos[y] \in Int
    BY <1>11, <1>1
  <2>2. pos[x] < pos[y] \/ pos[y] < pos[x]
    BY <1>6, <1>10
  <2> QED BY <2>1, <2>2
<1>13. pos \in Surjection(E, 1..n)
  <2>1. pos \in Injection(E, 1..n)
    BY <1>11, <1>12 DEF Injection, IsInjective
  <2>2. IsFiniteSet(1..n) /\ Cardinality(1..n) = n
    BY <1>1, FS_Interval
  <2> QED BY <2>1, <2>2, FS_Injection
<1> DEFINE q == [i \in 1..n |-> CHOOSE x \in E : pos[x] = i]
<1>14. \A i \in 1..n : q[i] \in E /\ pos[q[i]] = i
  <2>1. \A i \in 1..n : \E x \in E : pos[x] = i
    BY <1>13 DEF Surjection
  <2> QED BY <2>1
<1>15. q \in [1..n -> E]
  BY <1>14
<1>16. ASSUME NEW i \in 1..n, NEW j \in 1..n, i < j
       PROVE  q[i] # q[j] /\ ~(key[q[j]] > key[q[i]])
  <2> HIDE DEF q
  <2>1. q[i] # q[j]
    BY <1>14, <1>16
  <2>2. ~Before(q[j], q[i])
    BY <1>14, <1>16, <1>10
  <2> QED BY <2>1, <2>2 DEF Before
<1> HIDE DEF q
<1> QED BY <1>15, <1>16

-----------------------------------------------------------------------------
(* Tables and the catalogue.                                               *)

\* A table is a function from some of the ids to block counts.
LEMMA TableIsFunction ==
    ASSUME NEW t
    PROVE  t \in Tables <=> (DOMAIN t \subseteq Ids /\ t \in [DOMAIN t -> 0..MaxSamples])
BY DEF Tables

\* Writing an entry, and deleting some, gives a table again.
LEMMA WithFacts ==
    ASSUME NEW t \in Tables, NEW id \in Ids, NEW k \in 0..MaxSamples
    PROVE  /\ With(t, id, k) \in Tables
           /\ DOMAIN With(t, id, k) = DOMAIN t \cup {id}
           /\ With(t, id, k)[id] = k
           /\ \A x \in DOMAIN t : x # id => With(t, id, k)[x] = t[x]
<1>1. DOMAIN t \subseteq Ids /\ t \in [DOMAIN t -> 0..MaxSamples]
  BY TableIsFunction
<1>2. DOMAIN With(t, id, k) = DOMAIN t \cup {id}
  BY DEF With
<1>3. With(t, id, k) \in [DOMAIN With(t, id, k) -> 0..MaxSamples]
  BY <1>1 DEF With
<1> QED BY <1>1, <1>2, <1>3, TableIsFunction DEF With

\* What is left of a sequence without one element has only elements of it.
LEMMA WithoutFacts ==
    ASSUME NEW t \in Tables, NEW S
    PROVE  /\ Without(t, S) \in Tables
           /\ DOMAIN Without(t, S) = DOMAIN t \ S
           /\ \A x \in DOMAIN t \ S : Without(t, S)[x] = t[x]
<1>1. DOMAIN t \subseteq Ids /\ t \in [DOMAIN t -> 0..MaxSamples]
  BY TableIsFunction
<1>2. DOMAIN Without(t, S) = DOMAIN t \ S
  BY DEF Without
<1>3. Without(t, S) \in [DOMAIN Without(t, S) -> 0..MaxSamples]
  BY <1>1 DEF Without
<1> QED BY <1>1, <1>2, <1>3, TableIsFunction DEF Without

\* A catalogue q names each recording once and says of each what its file in f holds.
Faithful(q, f) ==
    /\ \A i, j \in 1..Len(q) : i # j => q[i].id # q[j].id
    /\ \A i \in 1..Len(q) : q[i].id \in DOMAIN f /\ f[q[i].id] = q[i].samples

\* What the load at start makes of a finite directory is such a catalogue, and
\* no file is left out.
LEMMA ListingFacts ==
    ASSUME NEW f \in Tables, IsFiniteSet(DOMAIN f)
    PROVE  /\ Listing(f) \in Seq(Entry)
           /\ Faithful(Listing(f), f)
           /\ \A x \in DOMAIN f : \E i \in 1..Len(Listing(f)) :
                Listing(f)[i] = [id |-> x, samples |-> f[x]]
<1> DEFINE E == {[id |-> x, samples |-> f[x]] : x \in DOMAIN f}
           N == Cardinality(E)
           g == [x \in DOMAIN f |-> [id |-> x, samples |-> f[x]]]
           key == [e \in E |-> e.id.ms]
           Sorted(q) == \A i, j \in 1..N : i < j => q[i] # q[j] /\ ~Newer(q[j], q[i])
<1>1. DOMAIN f \subseteq Ids /\ f \in [DOMAIN f -> 0..MaxSamples]
  BY TableIsFunction
<1>2. E \subseteq Entry
  BY <1>1 DEF Entry
<1>3. IsFiniteSet(E) /\ N \in Nat
  <2>1. g \in Surjection(DOMAIN f, E)
    BY DEF Surjection
  <2> QED BY <2>1, FS_Surjection, FS_CardinalityType
<1>4. key \in [E -> Nat]
  <2>1. \A e \in E : e.id.ms \in Nat
    BY <1>2, RecorderAssumption DEF Entry, Ids
  <2> QED BY <2>1
<1>5. \E q \in [1..N -> E] : Sorted(q)
  <2>1. PICK q \in [1..N -> E] :
              \A i, j \in 1..N : i < j => q[i] # q[j] /\ ~(key[q[j]] > key[q[i]])
    BY <1>3, <1>4, SortedEnumeration
  <2>2. \A i \in 1..N : q[i] \in E /\ key[q[i]] = q[i].id.ms
    BY <2>1
  <2> HIDE DEF E, key, N
  <2>3. Sorted(q)
    BY <2>1, <2>2 DEF Newer
  <2> QED BY <2>3
<1> DEFINE q == Listing(f)
<1>6. q = CHOOSE p \in [1..N -> E] : Sorted(p)
  BY DEF Listing
<1>7. q \in [1..N -> E] /\ Sorted(q)
  <2> HIDE DEF E, N, Sorted, q
  <2> QED BY <1>5, <1>6
<1>8. q \in Seq(E) /\ Len(q) = N
  <2> HIDE DEF E, N, q
  <2>1. q \in Seq(E)
    BY <1>3, <1>7, SeqDef
  <2> QED BY <2>1, <1>3, <1>7, LenProperties
<1>9. q \in Seq(Entry)
  <2> HIDE DEF E, q
  <2> QED BY <1>2, <1>8, SeqMonotonic
<1>10. \A i, j \in 1..N : i # j => q[i] # q[j]
  <2> HIDE DEF E, N, q
  <2> QED BY <1>3, <1>7
<1>11. \A i \in 1..N : q[i] \in E
  <2> HIDE DEF N, q
  <2> QED BY <1>7
<1>12. \A e \in E : e.id \in DOMAIN f /\ e = [id |-> e.id, samples |-> f[e.id]]
  OBVIOUS
<1>13. Faithful(q, f)
  <2> HIDE DEF E, N, q
  <2>1. ASSUME NEW i \in 1..N, NEW j \in 1..N, i # j
        PROVE  q[i].id # q[j].id
    BY <2>1, <1>10, <1>11, <1>12
  <2>2. ASSUME NEW i \in 1..N
        PROVE  q[i].id \in DOMAIN f /\ f[q[i].id] = q[i].samples
    BY <2>2, <1>11, <1>12
  <2> QED BY <2>1, <2>2, <1>8 DEF Faithful
<1>14. \A e \in E : \E i \in 1..N : q[i] = e
  <2> HIDE DEF E, N, q
  <2>1. q \in Injection(1..N, E)
    BY <1>7, <1>10 DEF Injection, IsInjective
  <2>2. Cardinality(1..N) = N
    BY <1>3, FS_Interval
  <2>3. q \in Surjection(1..N, E)
    BY <2>1, <2>2, <1>3, FS_Injection DEF N
  <2> QED BY <2>3 DEF Surjection
<1>15. \A x \in DOMAIN f : \E i \in 1..Len(q) : q[i] = [id |-> x, samples |-> f[x]]
  <2> SUFFICES ASSUME NEW x \in DOMAIN f
               PROVE  \E i \in 1..Len(q) : q[i] = [id |-> x, samples |-> f[x]]
    OBVIOUS
  <2>1. [id |-> x, samples |-> f[x]] \in E
    OBVIOUS
  <2> HIDE DEF E, N, q
  <2> QED BY <2>1, <1>8, <1>14
<1> QED BY <1>9, <1>13, <1>15

\* Retention keeps a prefix: it is the whole catalogue, or as long as the limit.
LEMMA KeptFacts ==
    ASSUME NEW q \in Seq(Entry), NEW max \in Nat \ {0}
    PROVE  /\ Kept(q, max) \in Seq(Entry)
           /\ Len(Kept(q, max)) <= Len(q)
           /\ \A i \in 1..Len(Kept(q, max)) : Kept(q, max)[i] = q[i]
           /\ \/ Len(Kept(q, max)) = Len(q)
              \/ Len(Kept(q, max)) = max
           /\ Len(Kept(q, max)) <= max
           /\ \A i \in 1..Len(Kept(q, max)) : i <= max
<1>1. Len(q) \in Nat /\ \A i \in 1..Len(q) : q[i] \in Entry
  BY LenProperties, ElementOfSeq
<1>2. CASE Len(q) > max
  <2>1. \A i \in 1..max : q[i] \in Entry
    BY <1>1, <1>2
  <2>2. /\ SubSeq(q, 1, max) \in Seq(Entry)
        /\ Len(SubSeq(q, 1, max)) = max
        /\ \A i \in 1..max : SubSeq(q, 1, max)[i] = q[i]
    <3>1. /\ SubSeq(q, 1, max) \in Seq(Entry)
          /\ Len(SubSeq(q, 1, max)) = IF 1 <= max THEN max - 1 + 1 ELSE 0
          /\ \A i \in 1..max - 1 + 1 : SubSeq(q, 1, max)[i] = q[1 + i - 1]
      BY <2>1, SubSeqProperties
    <3> QED BY <3>1
  <2>3. Kept(q, max) = SubSeq(q, 1, max)
    BY <1>2 DEF Kept
  <2> QED BY <1>1, <1>2, <2>2, <2>3
<1>3. CASE ~(Len(q) > max)
  <2>1. Kept(q, max) = q
    BY <1>3 DEF Kept
  <2> QED BY <1>1, <1>3, <2>1
<1> QED BY <1>2, <1>3

\* Retention removes files of the entries it drops and no others, so what it
\* keeps is a catalogue of the files it leaves.
LEMMA RetentionFacts ==
    ASSUME NEW q \in Seq(Entry), NEW max \in Nat \ {0},
           NEW f \in Tables, Faithful(q, f), NEW gone \in SUBSET Purged(q, max)
    PROVE  Faithful(Kept(q, max), Without(f, gone))
<1> DEFINE r == Kept(q, max)
           g == Without(f, gone)
<1>1. /\ Len(q) \in Nat /\ Len(r) \in Nat /\ Len(r) <= Len(q)
      /\ \A i \in 1..Len(r) : i \in 1..Len(q) /\ i <= max /\ r[i] = q[i]
  <2>1. Len(q) \in Nat /\ Len(r) \in Nat
    BY KeptFacts, LenProperties
  <2> QED BY <2>1, KeptFacts
<1>2. \A i \in 1..Len(r) : r[i].id \notin Purged(q, max)
  <2> SUFFICES ASSUME NEW i \in 1..Len(r), NEW j \in max + 1..Len(q),
                      q[j].id = r[i].id
               PROVE  FALSE
    BY DEF Purged
  <2>1. j \in 1..Len(q) /\ i # j
    BY <1>1
  <2> QED BY <1>1, <2>1 DEF Faithful
<1>3. DOMAIN g = DOMAIN f \ gone
      /\ \A x \in DOMAIN f \ gone : g[x] = f[x]
  BY WithoutFacts
<1>4. Faithful(r, g)
  <2> HIDE DEF r, g
  <2>1. ASSUME NEW i \in 1..Len(r), NEW j \in 1..Len(r), i # j
        PROVE  r[i].id # r[j].id
    BY <1>1, <2>1 DEF Faithful
  <2>2. ASSUME NEW i \in 1..Len(r)
        PROVE  r[i].id \in DOMAIN g /\ g[r[i].id] = r[i].samples
    <3>1. r[i].id \in DOMAIN f \ gone /\ f[r[i].id] = r[i].samples
      BY <1>1, <1>2 DEF Faithful
    <3> QED BY <3>1, <1>3
  <2> QED BY <2>1, <2>2 DEF Faithful
<1> QED BY <1>4

\* The catalogue and the directory after retention are typed, the catalogue is
\* within the limit, and no file has appeared or changed.
LEMMA RetainFacts ==
    ASSUME NEW q \in Seq(Entry), NEW max \in Nat \ {0}, NEW f \in Tables,
           IsFiniteSet(DOMAIN f), Retain(f, q, max)
    PROVE  /\ recordings' \in Seq(Entry) /\ Len(recordings') <= max
           /\ files' \in Tables /\ IsFiniteSet(DOMAIN files')
           /\ DOMAIN files' \subseteq DOMAIN f
           /\ \A x \in DOMAIN f \ Purged(q, max) : x \in DOMAIN files' /\ files'[x] = f[x]
           /\ Faithful(q, f) => Faithful(recordings', files')
<1>1. PICK gone \in SUBSET Purged(q, max) : files' = Without(f, gone)
  BY DEF Retain
<1>2. recordings' = Kept(q, max)
  BY DEF Retain
<1>3. /\ files' \in Tables /\ DOMAIN files' = DOMAIN f \ gone
      /\ \A x \in DOMAIN f \ gone : files'[x] = f[x]
  BY <1>1, WithoutFacts
<1>4. IsFiniteSet(DOMAIN files')
  BY <1>3, FS_Subset
<1>5. recordings' \in Seq(Entry) /\ Len(recordings') <= max
  BY <1>2, KeptFacts
<1>6. Faithful(q, f) => Faithful(recordings', files')
  BY <1>1, <1>2, RetentionFacts
<1> QED BY <1>3, <1>4, <1>5, <1>6

\* The listing of the files a start could read is faithful to the directory, and
\* leaves out only what it could not read.
LEMMA ReadableFacts ==
    ASSUME NEW f \in Tables, IsFiniteSet(DOMAIN f), NEW u \in SUBSET DOMAIN f
    PROVE  /\ Listing(Without(f, u)) \in Seq(Entry)
           /\ Faithful(Listing(Without(f, u)), f)
           /\ \A i \in 1..Len(Listing(Without(f, u))) : Listing(Without(f, u))[i].id \notin u
           /\ \A x \in DOMAIN f \ u : \E i \in 1..Len(Listing(Without(f, u))) :
                Listing(Without(f, u))[i] = [id |-> x, samples |-> f[x]]
<1> DEFINE g == Without(f, u)
<1>1. /\ g \in Tables /\ DOMAIN g = DOMAIN f \ u
      /\ \A x \in DOMAIN f \ u : g[x] = f[x]
  BY WithoutFacts
<1>2. IsFiniteSet(DOMAIN g)
  BY <1>1, FS_Subset
<1> HIDE DEF g
<1> DEFINE q == Listing(g)
<1>3. /\ q \in Seq(Entry) /\ Faithful(q, g)
      /\ \A x \in DOMAIN g : \E i \in 1..Len(q) : q[i] = [id |-> x, samples |-> g[x]]
  BY <1>1, <1>2, ListingFacts
<1> HIDE DEF q
<1>4. Faithful(q, f) /\ \A i \in 1..Len(q) : q[i].id \notin u
  BY <1>1, <1>3 DEF Faithful
<1>5. \A x \in DOMAIN f \ u : \E i \in 1..Len(q) : q[i] = [id |-> x, samples |-> f[x]]
  BY <1>1, <1>3
<1> QED BY <1>3, <1>4, <1>5 DEF q, g

-----------------------------------------------------------------------------
(* Types, whatever the clock's resolution.                                 *)

\* The directory holds finitely many files: the load enumerates it.
FiniteDir == IsFiniteSet(DOMAIN files)

TypeInv == TypeOK /\ FiniteDir

\* The limit in force is within its bounds, whatever the configuration says.
LEMMA LimitInBounds ==
    ASSUME NEW l \in Limits
    PROVE  Limit(l) \in 1..HardLimitMaxRecordings
<1>1. l \in Int /\ HardLimitMaxRecordings \in Nat
      /\ DefaultMaxRecordings \in 1..HardLimitMaxRecordings
  BY RecorderAssumption
<1> QED BY <1>1 DEF Limit

\* A recorder that was just started has no recording open.
LEMMA EmptyTable ==
    /\ << >> \in Tables /\ << >> \in Seq(Entry)
    /\ DOMAIN << >> = {} /\ Len(<< >>) = 0
<1>1. << >> \in Seq(Entry) /\ Len(<< >>) = 0
  BY EmptySeq
<1>2. DOMAIN << >> = {}
  BY <1>1, LenProperties
<1>3. << >> \in [{} -> 0..MaxSamples]
  BY <1>1, <1>2, LenProperties
<1> QED BY <1>1, <1>2, <1>3, TableIsFunction

\* A load from a finite directory gives a typed state with a finite directory.
LEMMA LoadTyped ==
    ASSUME NEW f \in Tables, IsFiniteSet(DOMAIN f), NEW l \in Limits,
           NewRecorder(f, Limit(l)), TypeInv, UNCHANGED clock
    PROVE  TypeInv'
<1>1. Limit(l) \in 1..HardLimitMaxRecordings /\ Limit(l) \in Nat \ {0}
  BY LimitInBounds, RecorderAssumption
<1>2. unread' \in SUBSET DOMAIN f /\ DOMAIN f \subseteq Ids
  BY TableIsFunction DEF NewRecorder
<1>3. /\ Listing(Without(f, unread')) \in Seq(Entry)
      /\ Retain(f, Listing(Without(f, unread')), Limit(l))
  BY <1>2, ReadableFacts DEF NewRecorder
<1>4. /\ recordings' \in Seq(Entry) /\ Len(recordings') <= Limit(l)
      /\ files' \in Tables /\ IsFiniteSet(DOMAIN files')
  BY <1>1, <1>3, RetainFacts
<1> QED BY <1>1, <1>2, <1>4, EmptyTable DEF NewRecorder, TypeInv, TypeOK, FiniteDir

\* The files of a typed state are finitely many; one more leaves them so.
LEMMA WriteTyped ==
    ASSUME TypeInv, NEW id \in Ids, NEW k \in 0..MaxSamples
    PROVE  With(files, id, k) \in Tables /\ IsFiniteSet(DOMAIN With(files, id, k))
<1>1. files \in Tables /\ IsFiniteSet(DOMAIN files)
  BY DEF TypeInv, TypeOK, FiniteDir
<1>2. IsFiniteSet(DOMAIN files \cup {id})
  BY <1>1, FS_AddElement
<1> QED BY <1>1, <1>2, WithFacts

\* An open recording has a well-formed id and holds no more than the cap.
LEMMA OpenFacts ==
    ASSUME TypeOK, NEW id \in DOMAIN activeRecord
    PROVE  /\ id \in Ids /\ activeRecord[id] \in 0..MaxSamples
           /\ MaxSamples \in Nat
BY TableIsFunction, RecorderAssumption DEF TypeOK

\* The type invariant and the finite directory hold at the first start.
LEMMA TypeInit == Init => TypeInv
<1> SUFFICES ASSUME Init PROVE TypeInv
  OBVIOUS
<1>1. maxRecordings \in 1..HardLimitMaxRecordings
  BY LimitInBounds DEF Init
<1>2. clock \in 0..MaxClock
  BY RecorderAssumption DEF Init
<1>3. 0 <= maxRecordings
  BY <1>1
<1> QED BY <1>1, <1>2, <1>3, EmptyTable, FS_EmptySet DEF Init, TypeInv, TypeOK, FiniteDir

\* Every operation, and a restart, keeps the types and the directory finite.
LEMMA TypeStep == TypeInv /\ [Next]_vars => TypeInv'
<1> SUFFICES ASSUME TypeInv, [Next]_vars PROVE TypeInv'
  OBVIOUS
<1> USE DEF TypeInv
<1>1. CASE Tick
  <2>1. clock' \in 0..MaxClock
    BY <1>1, RecorderAssumption DEF Tick, TypeOK
  <2> QED BY <1>1, <2>1 DEF Tick, TypeOK, FiniteDir
<1>2. ASSUME NEW c \in Callers, StartRecording(c)
      PROVE  TypeInv'
  <2>1. [caller |-> c, ms |-> clock] \in Ids /\ 0 \in 0..MaxSamples
    BY RecorderAssumption DEF TypeOK, Ids
  <2>2. activeRecord' \in Tables
    BY <1>2, <2>1, WithFacts DEF StartRecording, TypeOK
  <2> QED BY <1>2, <2>2 DEF StartRecording, TypeOK, FiniteDir
<1>3. ASSUME NEW id \in Ids, StopRecording(id)
      PROVE  TypeInv'
  <2>1. /\ id \in DOMAIN activeRecord
        /\ activeRecord' \in Tables
    BY <1>3, WithoutFacts DEF StopRecording, TypeOK
  <2>2. activeRecord[id] \in 0..MaxSamples /\ MaxSamples \in Nat
    BY <2>1, OpenFacts
  <2>3. CASE StopEmpty(id)
    BY <1>3, <2>1, <2>3 DEF StopRecording, StopEmpty, TypeOK, FiniteDir
  <2>4. CASE StopWriteFails(id)
    <3>1. \A n \in 0..activeRecord[id] - 1 : n \in 0..MaxSamples
      BY <2>2
    <3>2. files' \in Tables /\ IsFiniteSet(DOMAIN files')
      BY <2>4, <3>1, WriteTyped DEF StopWriteFails, TypeOK, FiniteDir
    <3> QED BY <1>3, <2>1, <2>4, <3>2 DEF StopRecording, StopWriteFails, TypeOK, FiniteDir
  <2>5. CASE StopWritten(id)
    <3> DEFINE e == [id |-> id, samples |-> activeRecord[id]]
    <3>1. <<e>> \in Seq(Entry)
      <4>1. e \in Entry
        BY <2>2 DEF Entry
      <4> HIDE DEF e
      <4> QED BY <4>1
    <3>2. <<e>> \o recordings \in Seq(Entry)
      <4> HIDE DEF e
      <4> QED BY <3>1, ConcatProperties DEF TypeOK
    <3>3. maxRecordings \in Nat \ {0}
      BY RecorderAssumption DEF TypeOK
    <3>4. /\ With(files, id, activeRecord[id]) \in Tables
          /\ IsFiniteSet(DOMAIN With(files, id, activeRecord[id]))
      BY <2>2, WriteTyped
    <3>5. /\ recordings' \in Seq(Entry) /\ Len(recordings') <= maxRecordings
          /\ files' \in Tables /\ IsFiniteSet(DOMAIN files')
      BY <2>5, <3>2, <3>3, <3>4, RetainFacts DEF StopWritten
    <3> QED BY <1>3, <2>1, <3>5 DEF StopRecording, TypeOK, FiniteDir
  <2> QED BY <1>3, <2>3, <2>4, <2>5 DEF StopRecording
<1>4. ASSUME NEW id \in Ids, NEW n \in 1..MaxSamples, AppendSamples(id, n)
      PROVE  TypeInv'
  <2>1. id \in DOMAIN activeRecord
    BY <1>4 DEF AppendSamples
  <2>2. activeRecord[id] \in 0..MaxSamples /\ MaxSamples \in Nat
    BY <2>1, OpenFacts
  <2>3. Capped(activeRecord[id], n) \in 0..MaxSamples
    BY <2>2 DEF Capped
  <2>4. activeRecord' = [activeRecord EXCEPT ![id] = Capped(activeRecord[id], n)]
    BY <1>4 DEF AppendSamples
  <2>5. activeRecord' \in Tables
    BY <2>3, <2>4, TableIsFunction DEF TypeOK
  <2> QED BY <1>4, <2>5 DEF AppendSamples, TypeOK, FiniteDir
<1>5. CASE Restart
  <2>1. ASSUME NEW l \in Limits, NewRecorder(files, Limit(l))
        PROVE  TypeInv'
    BY <1>5, <2>1, LoadTyped DEF Restart, TypeOK, FiniteDir
  <2>2. ASSUME NEW l \in Limits, NEW id \in DOMAIN activeRecord,
               NEW k \in 0..activeRecord[id], NewRecorder(With(files, id, k), Limit(l))
        PROVE  TypeInv'
    <3>1. id \in Ids /\ k \in 0..MaxSamples
      BY OpenFacts
    <3> QED BY <1>5, <2>2, <3>1, WriteTyped, LoadTyped DEF Restart
  <2> QED BY <1>5, <2>1, <2>2 DEF Restart
<1>6. CASE UNCHANGED vars
  BY <1>6 DEF vars, TypeOK, FiniteDir
<1> QED BY <1>1, <1>2, <1>3, <1>4, <1>5, <1>6 DEF Next

\* The clock, the limit, the open recordings, the catalogue and the files stay
\* within their types: in particular the limit is within its bounds for every
\* configured value, the catalogue within the limit, and no recording grows past its
\* cap (NewRecorderWithConfig,
\* AppendSamples of media/recorder.go).
THEOREM TypeCorrect == Spec => []TypeOK
<1>1. TypeInv => TypeOK
  BY DEF TypeInv
<1> QED BY <1>1, TypeInit, TypeStep, PTL DEF Spec

-----------------------------------------------------------------------------
(* The catalogue, when no caller opens two recordings within a millisecond. *)

\* No open recording has a file yet: a stop can overwrite nobody's.
OpenApart == DOMAIN activeRecord \cap DOMAIN files = {}

Inv == TypeInv /\ OpenApart /\ Faithful(recordings, files)

\* A load gives a faithful catalogue, whatever of the directory it can read.
LEMMA LoadFaithful ==
    ASSUME TypeInv, NEW f \in Tables, IsFiniteSet(DOMAIN f), NEW l \in Limits,
           NewRecorder(f, Limit(l)), UNCHANGED clock
    PROVE  Inv'
<1>1. TypeInv'
  BY LoadTyped
<1>2. OpenApart'
  BY EmptyTable DEF NewRecorder, OpenApart
<1>3. Limit(l) \in Nat \ {0}
  BY LimitInBounds, RecorderAssumption
<1>4. unread' \in SUBSET DOMAIN f /\ Retain(f, Listing(Without(f, unread')), Limit(l))
  BY DEF NewRecorder
<1>5. /\ Listing(Without(f, unread')) \in Seq(Entry)
      /\ Faithful(Listing(Without(f, unread')), f)
  BY <1>4, ReadableFacts
<1>6. Faithful(recordings', files')
  BY <1>3, <1>4, <1>5, RetainFacts
<1> QED BY <1>1, <1>2, <1>6 DEF Inv, Faithful

\* A file written for an open recording is a new one: the catalogue's entries
\* still say what their files hold.
LEMMA WriteFaithful ==
    ASSUME Inv, NEW id \in DOMAIN activeRecord, NEW k \in 0..MaxSamples
    PROVE  /\ id \in Ids /\ id \notin DOMAIN files
           /\ With(files, id, k) \in Tables /\ IsFiniteSet(DOMAIN With(files, id, k))
           /\ Faithful(recordings, With(files, id, k))
<1>1. id \in Ids /\ id \notin DOMAIN files
  BY OpenFacts DEF Inv, TypeInv, OpenApart
<1>2. With(files, id, k) \in Tables /\ IsFiniteSet(DOMAIN With(files, id, k))
  BY <1>1, WriteTyped DEF Inv
<1>3. /\ DOMAIN With(files, id, k) = DOMAIN files \cup {id}
      /\ \A x \in DOMAIN files : With(files, id, k)[x] = files[x]
  BY <1>1 DEF With
<1>4. Faithful(recordings, With(files, id, k))
  BY <1>3 DEF Faithful, Inv
<1> QED BY <1>1, <1>2, <1>4

\* The inductive invariant holds at the first start.
LEMMA InvInit == Init => Inv
<1> SUFFICES ASSUME Init PROVE Inv
  OBVIOUS
<1>1. OpenApart
  BY EmptyTable DEF Init, OpenApart
<1>2. Faithful(recordings, files)
  BY EmptyTable DEF Init, Faithful
<1> QED BY <1>1, <1>2, TypeInit DEF Inv

\* Every operation, and a restart, keeps the catalogue faithful to the files.
LEMMA InvStep ==
    ASSUME ~SameMs, Inv, [Next]_vars
    PROVE  Inv'
<1>1. TypeInv'
  BY TypeStep DEF Inv
<1>2. CASE Tick
  BY <1>1, <1>2 DEF Tick, Inv, OpenApart
<1>3. ASSUME NEW c \in Callers, StartRecording(c)
      PROVE  Inv'
  <2> DEFINE id == [caller |-> c, ms |-> clock]
  <2>1. /\ id \notin DOMAIN files
        /\ activeRecord' = With(activeRecord, id, 0)
        /\ files' = files /\ recordings' = recordings
    BY <1>3 DEF StartRecording
  <2>2. DOMAIN activeRecord' = DOMAIN activeRecord \cup {id}
    <3> HIDE DEF id
    <3> QED BY <2>1 DEF With
  <2>3. OpenApart'
    <3> HIDE DEF id
    <3> QED BY <2>1, <2>2 DEF Inv, OpenApart
  <2> QED BY <1>1, <2>1, <2>3 DEF Inv
<1>4. ASSUME NEW id \in Ids, StopRecording(id)
      PROVE  Inv'
  <2>1. /\ id \in DOMAIN activeRecord
        /\ DOMAIN activeRecord' = DOMAIN activeRecord \ {id}
    BY <1>4, WithoutFacts DEF StopRecording, Inv, TypeInv, TypeOK
  <2>2. activeRecord[id] \in 0..MaxSamples /\ MaxSamples \in Nat
    BY <2>1, OpenFacts DEF Inv, TypeInv
  <2>3. CASE StopEmpty(id)
    BY <1>1, <2>1, <2>3 DEF StopEmpty, Inv, OpenApart
  <2>4. CASE StopWriteFails(id)
    <3>1. CASE UNCHANGED files
      BY <1>1, <2>1, <2>4, <3>1 DEF StopWriteFails, Inv, OpenApart
    <3>2. ASSUME NEW n \in 0..activeRecord[id] - 1, files' = With(files, id, n)
          PROVE  Inv'
      <4>1. n \in 0..MaxSamples
        BY <2>2
      <4>2. Faithful(recordings, files')
        BY <2>1, <3>2, <4>1, WriteFaithful
      <4>3. OpenApart'
        BY <2>1, <3>2 DEF With, Inv, OpenApart
      <4> QED BY <1>1, <2>4, <4>2, <4>3 DEF StopWriteFails, Inv
    <3> QED BY <2>4, <3>1, <3>2 DEF StopWriteFails
  <2>5. CASE StopWritten(id)
    <3> DEFINE e == [id |-> id, samples |-> activeRecord[id]]
               written == With(files, id, activeRecord[id])
               catalogue == <<e>> \o recordings
    <3>1. Retain(written, catalogue, maxRecordings)
      BY <2>5 DEF StopWritten
    <3>2. /\ id \notin DOMAIN files /\ written \in Tables /\ IsFiniteSet(DOMAIN written)
          /\ Faithful(recordings, written)
      BY <2>1, <2>2, WriteFaithful
    <3>3. id \in DOMAIN written /\ written[id] = activeRecord[id]
      BY DEF With
    <3>4. e \in Entry /\ e.id = id /\ e.samples = activeRecord[id]
      BY <2>2 DEF Entry
    <3>5. recordings \in Seq(Entry) /\ Len(recordings) \in Nat
      BY LenProperties DEF Inv, TypeInv, TypeOK
    <3> HIDE DEF e, written
    <3>6. /\ catalogue \in Seq(Entry) /\ Len(catalogue) = Len(recordings) + 1
          /\ catalogue[1] = e
          /\ \A i \in 2..Len(recordings) + 1 : catalogue[i] = recordings[i - 1]
      BY <3>4, <3>5
    <3>7. \A i \in 1..Len(recordings) : recordings[i].id # id
      BY <3>2 DEF Inv, Faithful
    <3> HIDE DEF catalogue
    <3>8. Faithful(catalogue, written)
      <4>1. ASSUME NEW i \in 1..Len(catalogue)
            PROVE  \/ i = 1 /\ catalogue[i] = e
                   \/ /\ i - 1 \in 1..Len(recordings)
                      /\ catalogue[i] = recordings[i - 1]
        BY <3>5, <3>6
      <4>2. ASSUME NEW i \in 1..Len(catalogue), NEW j \in 1..Len(catalogue), i # j
            PROVE  catalogue[i].id # catalogue[j].id
        <5>1. ASSUME NEW k \in 1..Len(catalogue), k # 1 PROVE catalogue[k].id # id
          BY <3>7, <4>1, <5>1
        <5>2. CASE i = 1
          <6>1. j # 1 /\ catalogue[i] = e
            BY <3>6, <4>2, <5>2
          <6> QED BY <3>4, <5>1, <6>1
        <5>3. CASE j = 1
          <6>1. i # 1 /\ catalogue[j] = e
            BY <3>6, <4>2, <5>3
          <6> QED BY <3>4, <5>1, <6>1
        <5>4. CASE i # 1 /\ j # 1
          <6>1. /\ i - 1 \in 1..Len(recordings) /\ catalogue[i] = recordings[i - 1]
                /\ j - 1 \in 1..Len(recordings) /\ catalogue[j] = recordings[j - 1]
                /\ i - 1 # j - 1
            BY <3>5, <4>1, <4>2, <5>4
          <6> QED BY <3>2, <6>1 DEF Faithful
        <5> QED BY <5>2, <5>3, <5>4
      <4>3. ASSUME NEW i \in 1..Len(catalogue)
            PROVE  /\ catalogue[i].id \in DOMAIN written
                   /\ written[catalogue[i].id] = catalogue[i].samples
        BY <3>2, <3>3, <3>4, <4>1 DEF Faithful
      <4> QED BY <4>2, <4>3 DEF Faithful
    <3>9. Faithful(recordings', files') /\ DOMAIN files' \subseteq DOMAIN written
      <4>1. maxRecordings \in Nat \ {0}
        BY RecorderAssumption DEF Inv, TypeInv, TypeOK
      <4> QED BY <3>1, <3>2, <3>6, <3>8, <4>1, RetainFacts
    <3>10. DOMAIN files' \subseteq DOMAIN files \cup {id}
      BY <3>9 DEF written, With
    <3>11. OpenApart'
      BY <2>1, <3>10 DEF Inv, OpenApart
    <3> QED BY <1>1, <3>9, <3>11 DEF Inv
  <2> QED BY <1>4, <2>3, <2>4, <2>5 DEF StopRecording
<1>5. ASSUME NEW id \in Ids, NEW n \in 1..MaxSamples, AppendSamples(id, n)
      PROVE  Inv'
  <2>1. DOMAIN activeRecord' = DOMAIN activeRecord
    BY <1>5 DEF AppendSamples
  <2> QED BY <1>1, <1>5, <2>1 DEF AppendSamples, Inv, OpenApart
<1>6. CASE Restart
  <2>1. ASSUME NEW l \in Limits, NewRecorder(files, Limit(l))
        PROVE  Inv'
    BY <1>6, <2>1, LoadFaithful DEF Restart, Inv, TypeInv, TypeOK, FiniteDir
  <2>2. ASSUME NEW l \in Limits, NEW id \in DOMAIN activeRecord,
               NEW k \in 0..activeRecord[id], NewRecorder(With(files, id, k), Limit(l))
        PROVE  Inv'
    <3>1. id \in Ids /\ k \in 0..MaxSamples
      BY OpenFacts DEF Inv, TypeInv
    <3> QED BY <1>6, <2>2, <3>1, WriteTyped, LoadFaithful DEF Restart, Inv
  <2> QED BY <1>6, <2>1, <2>2 DEF Restart
<1>7. CASE UNCHANGED vars
  BY <1>1, <1>7 DEF vars, Inv, OpenApart
<1> QED BY <1>2, <1>3, <1>4, <1>5, <1>6, <1>7 DEF Next

\* The inductive invariant holds in every reachable state.
LEMMA Invariance ==
    ASSUME ~SameMs
    PROVE  Spec => []Inv
BY InvInit, InvStep, PTL DEF Spec

\* If no caller opens two recordings within a millisecond, every recording the
\* console lists has its file, and the file holds what the list says, whatever
\* retention, failed writes, crashes during one and restarts with other limits did
\* (StopRecording, loadExistingRecordings and WAVData of media/recorder.go).
THEOREM CatalogueHasFiles ==
    ASSUME ~SameMs
    PROVE  Spec => []CatalogueBacked
<1>1. Inv => CatalogueBacked
  <2> SUFFICES ASSUME Inv, NEW e \in Entries(recordings)
               PROVE  WAVData(e.id) = e.samples
    BY DEF CatalogueBacked
  <2>1. PICK i \in 1..Len(recordings) : e = recordings[i]
    BY LenProperties DEF Entries, Inv, TypeInv, TypeOK
  <2>2. e.id \in DOMAIN files /\ files[e.id] = e.samples
    BY <2>1 DEF Inv, Faithful
  <2> QED BY <2>2 DEF WAVData
<1> QED BY <1>1, Invariance, PTL

\* A completed recording leaves the catalogue only when the catalogue is full or
\* when a start could not read its file, which is still there.
LostOnly ==
    \A e \in Entries(recordings) :
      \/ e \in Entries(recordings')
      \/ Len(recordings') = maxRecordings'
      \/ /\ e.id \in unread' /\ e.id \in DOMAIN files'
         /\ files'[e.id] = e.samples

\* What a catalogue q has and the retained prefix of q has not, retention took.
LEMMA KeptOrFull ==
    ASSUME NEW q \in Seq(Entry), NEW max \in Nat \ {0}, NEW i \in 1..Len(q)
    PROVE  \/ q[i] \in Entries(Kept(q, max))
           \/ Len(Kept(q, max)) = max
<1> DEFINE r == Kept(q, max)
<1>1. r \in Seq(Entry) /\ DOMAIN r = 1..Len(r)
  BY KeptFacts, LenProperties
<1>2. /\ \A j \in 1..Len(r) : r[j] = q[j]
      /\ Len(r) = Len(q) \/ Len(r) = max
  BY KeptFacts
<1>3. CASE Len(r) = Len(q)
  <2>1. i \in 1..Len(r) /\ r[i] = q[i]
    BY <1>2, <1>3
  <2> HIDE DEF r
  <2>2. q[i] \in Entries(r)
    BY <1>1, <2>1 DEF Entries
  <2> QED BY <2>2 DEF r
<1> QED BY <1>2, <1>3

\* A load from files that hold what the catalogue lists loses an entry only to
\* retention, and does not list what it cannot read.
LEMMA LoadKeeps ==
    ASSUME Inv, NEW f \in Tables, IsFiniteSet(DOMAIN f), Faithful(recordings, f),
           NEW l \in Limits, NewRecorder(f, Limit(l))
    PROVE  LostOnly
<1> SUFFICES ASSUME NEW e \in Entries(recordings)
             PROVE  \/ e \in Entries(recordings')
                    \/ Len(recordings') = maxRecordings'
                    \/ /\ e.id \in unread' /\ e.id \in DOMAIN files'
                       /\ files'[e.id] = e.samples
  BY DEF LostOnly
<1>1. recordings \in Seq(Entry) /\ DOMAIN recordings = 1..Len(recordings)
  BY LenProperties DEF Inv, TypeInv, TypeOK
<1>2. PICK j \in 1..Len(recordings) : e = recordings[j]
  BY <1>1 DEF Entries
<1>3. e.id \in DOMAIN f /\ f[e.id] = e.samples
  BY <1>2 DEF Faithful
<1>4. e = [id |-> e.id, samples |-> e.samples]
  <2>1. e \in Entry
    BY <1>1, <1>2, ElementOfSeq
  <2> QED BY <2>1 DEF Entry
<1> DEFINE q == Listing(Without(f, unread'))
<1>5. /\ unread' \in SUBSET DOMAIN f /\ Limit(l) \in Nat \ {0}
      /\ Retain(f, q, Limit(l)) /\ maxRecordings' = Limit(l)
  BY LimitInBounds, RecorderAssumption DEF NewRecorder
<1>6. /\ q \in Seq(Entry) /\ Len(q) \in Nat
      /\ \A i \in 1..Len(q) : q[i].id \notin unread'
      /\ \A x \in DOMAIN f \ unread' : \E i \in 1..Len(q) : q[i] = [id |-> x, samples |-> f[x]]
  BY <1>5, ReadableFacts, LenProperties
<1> HIDE DEF q
<1>7. CASE e.id \in unread'
  <2>1. e.id \notin Purged(q, Limit(l))
    BY <1>5, <1>6, <1>7 DEF Purged
  <2>2. e.id \in DOMAIN files' /\ files'[e.id] = f[e.id]
    BY <1>3, <1>5, <1>6, <2>1, RetainFacts
  <2> QED BY <1>3, <1>7, <2>2
<1>8. CASE e.id \notin unread'
  <2>1. PICK i \in 1..Len(q) : q[i] = e
    BY <1>3, <1>4, <1>6, <1>8
  <2> QED BY <1>5, <1>6, <2>1, KeptOrFull DEF Retain
<1> QED BY <1>7, <1>8

\* No operation loses a completed recording except to retention, and no restart
\* except to retention or, for this run of the program, to what it could not read.
LEMMA LostStep ==
    ASSUME ~SameMs, Inv, [Next]_vars
    PROVE  LostOnly
<1>1. ASSUME UNCHANGED recordings
      PROVE  LostOnly
  BY <1>1 DEF LostOnly
<1>2. ASSUME NEW id \in Ids, StopRecording(id)
      PROVE  LostOnly
  <2>1. CASE StopEmpty(id) \/ StopWriteFails(id)
    BY <1>1, <2>1 DEF StopEmpty, StopWriteFails
  <2>2. CASE StopWritten(id)
    <3> DEFINE e == [id |-> id, samples |-> activeRecord[id]]
               catalogue == <<e>> \o recordings
    <3>1. /\ recordings' = Kept(catalogue, maxRecordings)
          /\ maxRecordings' = maxRecordings
      BY <1>2, <2>2 DEF StopWritten, StopRecording, Retain
    <3>2. e \in Entry
      BY <1>2, OpenFacts DEF StopRecording, Entry, Inv, TypeInv
    <3>3. /\ recordings \in Seq(Entry) /\ Len(recordings) \in Nat
          /\ DOMAIN recordings = 1..Len(recordings)
      BY LenProperties DEF Inv, TypeInv, TypeOK
    <3> HIDE DEF e
    <3>4. /\ catalogue \in Seq(Entry) /\ Len(catalogue) = Len(recordings) + 1
          /\ \A i \in 1..Len(recordings) : catalogue[i + 1] = recordings[i]
      BY <3>2, <3>3
    <3>5. maxRecordings \in Nat \ {0}
      BY RecorderAssumption DEF Inv, TypeInv, TypeOK
    <3> HIDE DEF catalogue
    <3>6. ASSUME NEW x \in Entries(recordings)
          PROVE  \/ x \in Entries(recordings')
                 \/ Len(recordings') = maxRecordings'
      <4>1. PICK i \in 1..Len(recordings) : x = recordings[i]
        BY <3>3 DEF Entries
      <4>2. i + 1 \in 1..Len(catalogue) /\ catalogue[i + 1] = x
        BY <3>3, <3>4, <4>1
      <4> QED BY <3>1, <3>4, <3>5, <4>2, KeptOrFull
    <3> QED BY <3>6 DEF LostOnly
  <2> QED BY <1>2, <2>1, <2>2 DEF StopRecording
<1>3. CASE Restart
  <2>1. ASSUME NEW l \in Limits, NewRecorder(files, Limit(l))
        PROVE  LostOnly
    BY <2>1, LoadKeeps DEF Inv, TypeInv, TypeOK, FiniteDir
  <2>2. ASSUME NEW l \in Limits, NEW id \in DOMAIN activeRecord,
               NEW k \in 0..activeRecord[id], NewRecorder(With(files, id, k), Limit(l))
        PROVE  LostOnly
    <3>1. k \in 0..MaxSamples
      BY OpenFacts DEF Inv, TypeInv
    <3> QED BY <2>2, <3>1, WriteFaithful, LoadKeeps
  <2> QED BY <1>3, <2>1, <2>2 DEF Restart
<1>4. CASE \/ Tick \/ UNCHANGED vars
           \/ \E c \in Callers : StartRecording(c)
           \/ \E id \in Ids : \E n \in 1..MaxSamples : AppendSamples(id, n)
  BY <1>1, <1>4 DEF Tick, StartRecording, AppendSamples, vars
<1> QED BY <1>2, <1>3, <1>4 DEF Next

\* If no caller opens two recordings within a millisecond, no completed recording
\* disappears from the list, at a stop, a failed write, a crash or a restart, except
\* to retention, the list being then as long as the limit in force allows, or because
\* a start could not read its file: then the file is still in the directory, as it
\* was (StopRecording and loadExistingRecordings of media/recorder.go).
THEOREM LossIsRetention ==
    ASSUME ~SameMs
    PROVE  Spec => LostOnlyToRetention
<1>1. Inv /\ [Next]_vars => LostOnly
  BY LostStep
<1> QED BY <1>1, Invariance, PTL DEF Spec, LostOnlyToRetention, LostOnly
=============================================================================
