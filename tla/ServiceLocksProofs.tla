------------------------- MODULE ServiceLocksProofs -------------------------
(***************************************************************************)
(* Theorems about who waits for whom in the VCS: for any number of         *)
(* channels and any of the activities on them, nobody waits in a circle.   *)
(* The argument is a rank.  Whoever has locked a mutex waits for nobody    *)
(* before it unlocks it (rank 0 for those who wait for it); the readers of *)
(* s.mu wait for such mutexes only, so the writers of s.mu have rank 1,    *)
(* those who want to read it rank 2, and a close or the shutdown, which    *)
(* wait for goroutines that never wait for one themselves, rank 3.         *)
(*                                                                         *)
(* That the code is so is a matter of its operations' steps, and is        *)
(* carried through the run as a property of what each activity still has   *)
(* to do.                                                                  *)
(***************************************************************************)
EXTENDS ServiceLocks, Integers, FiniteSetTheorems, SequenceTheorems, TLAPS

\* Steps that wait for no mutex and for no goroutine.
Calm == {"network", "log", "send", "write"}

\* After position i the next thing q does to a mutex is to unlock m.
Unlocked(q, i, m) ==
    \E j \in i + 1..Len(q) : /\ q[j].do = "unlock" /\ q[j].on = m
                             /\ \A k \in i + 1..j - 1 : q[k].do \in Calm

\* After position i, q ends its reading under s.mu having visited some mutexes.
ReadUnlocked(q, i) ==
    \E j \in i + 1..Len(q) : /\ q[j].do = "runlock"
                             /\ \A k \in i + 1..j - 1 : q[k].do = "visit"

\* Whatever q locks it unlocks before it waits again, and so on.
Sound(q) ==
    \A i \in 1..Len(q) :
        /\ q[i].do = "lock" => Unlocked(q, i, q[i].on)
        /\ q[i].do = "rlock" => ReadUnlocked(q, i)
        /\ q[i].do = "close" => q[i].on \in Channels \cup {"phone"}

\* q waits for no goroutine.
Free(q) == \A i \in 1..Len(q) : q[i].do \notin {"join", "workers"}

\* The goroutines that somebody waits for.
Awaited == {a \in Activities : a[1] \in {"receive", "transmit", "supervise", "watchdog"}}

\* What every activity still has to do is sound; whom others wait for waits for nobody.
RestSound == \A a \in Activities : Sound(rest[a]) /\ (a \in Awaited => Free(rest[a]))

\* Who has a mutex unlocks it before it waits for another or for a goroutine.
OwnersUnlock ==
    \A m \in Mutexes, a \in Activities : owner[m] = a => Unlocked(rest[a], 0, m)

\* Who reads under s.mu visits some mutexes at most before it stops reading.
ReadersUnlock == \A a \in readers : ReadUnlocked(rest[a], 0)

\* Who keeps new readers of s.mu out is at its Lock.
WritersWait == \A a \in waiting : At(a, "lock") /\ On(a) = "s"

Inv == TypeOK /\ RestSound /\ OwnersUnlock /\ ReadersUnlock /\ WritersWait

-----------------------------------------------------------------------------
(* Sequences.                                                              *)

\* A set of numbers that is not empty has a least element.
LEMMA Least ==
    ASSUME NEW T \in SUBSET Nat, T # {}
    PROVE  \E x \in T : \A y \in T : x <= y
<1> DEFINE R == OpToRel(<, Nat)
<1>1. IsWellFoundedOn(R, Nat)
  BY NatLessThanWellFounded
<1>2. \A x, y \in Nat : y < x => <<y, x>> \in R
  BY DEF OpToRel
<1> HIDE DEF R
<1>3. PICK x \in T : \A y \in T : ~(<<y, x>> \in R)
  BY <1>1, WFMin
<1>4. \A y \in T : ~(y < x) /\ y \in Nat /\ x \in Nat
  BY <1>2, <1>3
<1> QED BY <1>4

\* A set with 0 that goes on up to n holds the numbers up to n.
LEMMA Induction ==
    ASSUME NEW n \in Nat, NEW T, 0 \in T,
           \A k \in 0..n - 1 : k \in T => k + 1 \in T
    PROVE  \A k \in 0..n : k \in T
<1> DEFINE U == {k \in 0..n : k \notin T}
<1> SUFFICES ASSUME U # {} PROVE FALSE
  OBVIOUS
<1>1. U \in SUBSET Nat
  OBVIOUS
<1> HIDE DEF U
<1>2. PICK x \in U : \A y \in U : x <= y
  BY <1>1, Least
<1>3. x \in 0..n /\ x \notin T /\ x # 0
  BY <1>2 DEF U
<1>4. x - 1 \in 0..n - 1 /\ x - 1 \notin U
  BY <1>2, <1>3
<1>5. x - 1 \in T
  BY <1>4 DEF U
<1> QED BY <1>3, <1>4, <1>5

\* What is closed under concatenation holds the concatenation of a sequence.
LEMMA FlattenClosed ==
    ASSUME NEW B, << >> \in B, \A x, y \in B : x \o y \in B, NEW q \in Seq(B)
    PROVE  FlattenSeq(q) \in B
<1> DEFINE n == Len(q)
           Joined(g, i) == IF i = 1 THEN q[i] ELSE g[i - 1] \o q[i]
           flatten == CHOOSE g : g = [i \in 1..n |-> Joined(g, i)]
<1>1. n \in Nat /\ \A i \in 1..n : q[i] \in B
  BY LenProperties, ElementOfSeq
<1>2. CASE n = 0
  <2>1. q = << >>
    BY <1>2, EmptySeq
  <2> QED BY <1>2, <2>1 DEF FlattenSeq
<1>3. CASE n # 0
  <2> DEFINE Good(k) == {g \in [1..k -> B] : \A i \in 1..k : g[i] = Joined(g, i)}
             T == {k \in 0..n : Good(k) # {}}
  <2>1. 0 \in T
    <3>1. [i \in 1..0 |-> q[i]] \in Good(0)
      OBVIOUS
    <3>2. 0 \in 0..n
      BY <1>1
    <3> HIDE DEF Good
    <3> QED BY <3>1, <3>2
  <2>2. ASSUME NEW k \in 0..n - 1, k \in T
        PROVE  k + 1 \in T
    <3>1. PICK g \in [1..k -> B] : \A i \in 1..k : g[i] = Joined(g, i)
      BY <2>2
    <3> DEFINE h == [i \in 1..k + 1 |-> IF i = k + 1 THEN Joined(g, i) ELSE g[i]]
    <3>2. Joined(g, k + 1) \in B
      BY <1>1, <3>1
    <3>3. h \in [1..k + 1 -> B]
      BY <3>1, <3>2
    <3>4. ASSUME NEW i \in 1..k + 1
          PROVE  h[i] = Joined(h, i)
      <4>1. CASE i = k + 1
        <5>1. k \in Nat /\ i \in 1..k + 1 /\ (i # 1 => i - 1 = k /\ k \in 1..k + 1 /\ k # k + 1)
          BY <4>1, <1>1
        <5> QED BY <4>1, <5>1
      <4>2. CASE i # k + 1
        <5>1. i \in 1..k /\ (i # 1 => i - 1 \in 1..k /\ i - 1 \in 1..k + 1 /\ i - 1 # k + 1)
          BY <4>2, <1>1
        <5> QED BY <4>2, <5>1, <3>1
      <4> QED BY <4>1, <4>2
    <3> HIDE DEF h
    <3>5. Good(k + 1) # {}
      BY <3>3, <3>4
    <3> QED BY <1>1, <3>5
  <2> HIDE DEF T, n
  <2>3. n \in T
    <3>1. \A k \in 0..n : k \in T
      BY <1>1, <2>1, <2>2, Induction
    <3> QED BY <1>1, <3>1
  <2>4. PICK g \in [1..n -> B] : \A i \in 1..n : g[i] = Joined(g, i)
    BY <2>3 DEF T
  <2>5. g = [i \in 1..n |-> Joined(g, i)]
    BY <2>4
  <2>6. flatten = [i \in 1..n |-> Joined(flatten, i)]
    BY <2>5
  <2> HIDE DEF flatten
  <2>7. \A i \in 1..n : flatten[i] = Joined(flatten, i)
    BY <2>6
  <2> DEFINE F == {k \in 0..n : k = 0 \/ flatten[k] \in B}
  <2>8. ASSUME NEW k \in 0..n - 1, k \in F
        PROVE  k + 1 \in F
    BY <1>1, <2>7, <2>8
  <2>9. 0 \in F
    BY <1>1
  <2> HIDE DEF F
  <2>10. n \in F
    <3>1. \A k \in 0..n : k \in F
      BY <1>1, <2>8, <2>9, Induction
    <3> QED BY <1>1, <3>1
  <2>11. FlattenSeq(q) = flatten[n]
    BY <1>3 DEF FlattenSeq, flatten, n
  <2> QED BY <1>3, <2>10, <2>11 DEF F
<1> QED BY <1>2, <1>3

-----------------------------------------------------------------------------
(* Sound operations.                                                       *)

\* What holds of one part of an operation holds of it within the whole.
LEMMA Within ==
    ASSUME NEW p \in Seq(Step), NEW q \in Seq(Step), NEW m
    PROVE  /\ \A i \in 0..Len(p) : Unlocked(p, i, m) => Unlocked(p \o q, i, m)
           /\ \A i \in 0..Len(p) : ReadUnlocked(p, i) => ReadUnlocked(p \o q, i)
           /\ \A i \in 0..Len(q) : Unlocked(q, i, m) => Unlocked(p \o q, Len(p) + i, m)
           /\ \A i \in 0..Len(q) : ReadUnlocked(q, i) => ReadUnlocked(p \o q, Len(p) + i)
<1> DEFINE r == p \o q
<1>1. /\ Len(p) \in Nat /\ Len(q) \in Nat
      /\ r \in Seq(Step) /\ Len(r) = Len(p) + Len(q)
      /\ \A i \in 1..Len(p) : i \in 1..Len(r) /\ r[i] = p[i]
  BY LenProperties, ConcatProperties
<1>2. \A i \in 1..Len(q) : Len(p) + i \in 1..Len(r) /\ r[Len(p) + i] = q[i]
  <2>1. ASSUME NEW i \in 1..Len(q)
        PROVE  Len(p) + i \in 1..Len(r) /\ r[Len(p) + i] = q[i]
    <3>1. Len(p) + i \in 1..Len(p) + Len(q) /\ ~(Len(p) + i <= Len(p)) /\ Len(p) + i - Len(p) = i
      BY <1>1
    <3> QED BY <1>1, <3>1, ConcatProperties
  <2> QED BY <2>1
<1> HIDE DEF r
<1>3. ASSUME NEW i \in 0..Len(p), Unlocked(p, i, m)
      PROVE  Unlocked(r, i, m)
  <2>1. PICK j \in i + 1..Len(p) : /\ p[j].do = "unlock" /\ p[j].on = m
                                   /\ \A k \in i + 1..j - 1 : p[k].do \in Calm
    BY <1>3 DEF Unlocked
  <2>2. j \in i + 1..Len(r) /\ r[j] = p[j]
    BY <1>1
  <2>3. \A k \in i + 1..j - 1 : r[k] = p[k]
    BY <1>1
  <2> QED BY <2>1, <2>2, <2>3 DEF Unlocked
<1>4. ASSUME NEW i \in 0..Len(p), ReadUnlocked(p, i)
      PROVE  ReadUnlocked(r, i)
  <2>1. PICK j \in i + 1..Len(p) : /\ p[j].do = "runlock"
                                   /\ \A k \in i + 1..j - 1 : p[k].do = "visit"
    BY <1>4 DEF ReadUnlocked
  <2>2. j \in i + 1..Len(r) /\ r[j] = p[j]
    BY <1>1
  <2>3. \A k \in i + 1..j - 1 : r[k] = p[k]
    BY <1>1
  <2> QED BY <2>1, <2>2, <2>3 DEF ReadUnlocked
<1>5. ASSUME NEW i \in 0..Len(q), NEW j \in i + 1..Len(q)
      PROVE  /\ Len(p) + j \in Len(p) + i + 1..Len(r) /\ r[Len(p) + j] = q[j]
             /\ \A k \in Len(p) + i + 1..Len(p) + j - 1 :
                  k - Len(p) \in i + 1..j - 1 /\ r[k] = q[k - Len(p)]
  <2>1. Len(p) + j \in Len(p) + i + 1..Len(r) /\ r[Len(p) + j] = q[j]
    BY <1>1, <1>2
  <2>2. ASSUME NEW k \in Len(p) + i + 1..Len(p) + j - 1
        PROVE  k - Len(p) \in i + 1..j - 1 /\ r[k] = q[k - Len(p)]
    <3>1. /\ k - Len(p) \in i + 1..j - 1 /\ k - Len(p) \in 1..Len(q)
          /\ k = Len(p) + (k - Len(p))
      BY <1>1
    <3> QED BY <1>2, <3>1
  <2> QED BY <2>1, <2>2
<1>6. ASSUME NEW i \in 0..Len(q), Unlocked(q, i, m)
      PROVE  Unlocked(r, Len(p) + i, m)
  <2>1. PICK j \in i + 1..Len(q) : /\ q[j].do = "unlock" /\ q[j].on = m
                                   /\ \A k \in i + 1..j - 1 : q[k].do \in Calm
    BY <1>6 DEF Unlocked
  <2>2. /\ Len(p) + j \in Len(p) + i + 1..Len(r)
        /\ r[Len(p) + j] = q[j]
        /\ \A k \in Len(p) + i + 1..Len(p) + j - 1 :
             k - Len(p) \in i + 1..j - 1 /\ r[k] = q[k - Len(p)]
    BY <1>5
  <2>3. ASSUME NEW k \in Len(p) + i + 1..Len(p) + j - 1
        PROVE  r[k].do \in Calm
    <3>1. k - Len(p) \in i + 1..j - 1 /\ r[k] = q[k - Len(p)]
      BY <2>2
    <3> QED BY <2>1, <3>1
  <2> QED BY <2>1, <2>2, <2>3 DEF Unlocked
<1>7. ASSUME NEW i \in 0..Len(q), ReadUnlocked(q, i)
      PROVE  ReadUnlocked(r, Len(p) + i)
  <2>1. PICK j \in i + 1..Len(q) : /\ q[j].do = "runlock"
                                   /\ \A k \in i + 1..j - 1 : q[k].do = "visit"
    BY <1>7 DEF ReadUnlocked
  <2>2. /\ Len(p) + j \in Len(p) + i + 1..Len(r) /\ r[Len(p) + j] = q[j]
        /\ \A k \in Len(p) + i + 1..Len(p) + j - 1 :
             k - Len(p) \in i + 1..j - 1 /\ r[k] = q[k - Len(p)]
    BY <1>5
  <2>3. ASSUME NEW k \in Len(p) + i + 1..Len(p) + j - 1
        PROVE  r[k].do = "visit"
    <3>1. k - Len(p) \in i + 1..j - 1 /\ r[k] = q[k - Len(p)]
      BY <2>2
    <3> QED BY <2>1, <3>1
  <2> QED BY <2>1, <2>2, <2>3 DEF ReadUnlocked
<1> QED BY <1>3, <1>4, <1>6, <1>7 DEF r

\* One sound operation after another is one.
LEMMA SoundConcat ==
    ASSUME NEW p \in Seq(Step), NEW q \in Seq(Step), Sound(p), Sound(q)
    PROVE  p \o q \in Seq(Step) /\ Sound(p \o q)
<1> DEFINE r == p \o q
<1>1. /\ Len(p) \in Nat /\ Len(q) \in Nat
      /\ r \in Seq(Step) /\ Len(r) = Len(p) + Len(q)
      /\ \A i \in 1..Len(p) + Len(q) : r[i] = IF i <= Len(p) THEN p[i] ELSE q[i - Len(p)]
  BY LenProperties, ConcatProperties
<1>2. ASSUME NEW i \in 1..Len(r)
      PROVE  /\ r[i].do = "lock" => Unlocked(r, i, r[i].on)
             /\ r[i].do = "rlock" => ReadUnlocked(r, i)
             /\ r[i].do = "close" => r[i].on \in Channels \cup {"phone"}
  <2> HIDE DEF r
  <2>1. CASE i <= Len(p)
    <3>1. i \in 1..Len(p) /\ i \in 0..Len(p) /\ r[i] = p[i]
      BY <1>1, <2>1
    <3>2. /\ p[i].do = "lock" => Unlocked(p, i, p[i].on)
          /\ p[i].do = "rlock" => ReadUnlocked(p, i)
          /\ p[i].do = "close" => p[i].on \in Channels \cup {"phone"}
      BY <3>1 DEF Sound
    <3> QED BY <3>1, <3>2, Within DEF r
  <2>2. CASE ~(i <= Len(p))
    <3> DEFINE h == i - Len(p)
    <3>1. h \in 1..Len(q) /\ h \in 0..Len(q) /\ i = Len(p) + h /\ r[i] = q[h]
      BY <1>1, <2>2
    <3> HIDE DEF h
    <3>2. /\ q[h].do = "lock" => Unlocked(q, h, q[h].on)
          /\ q[h].do = "rlock" => ReadUnlocked(q, h)
          /\ q[h].do = "close" => q[h].on \in Channels \cup {"phone"}
      BY <3>1 DEF Sound
    <3> QED BY <3>1, <3>2, Within DEF r
  <2> QED BY <2>1, <2>2
<1> HIDE DEF r
<1>3. Sound(r)
  BY <1>2 DEF Sound
<1> QED BY <1>1, <1>3 DEF r

\* Operations that wait for no goroutine, put in sequence, wait for none.
LEMMA FreeConcat ==
    ASSUME NEW p \in Seq(Step), NEW q \in Seq(Step), Free(p), Free(q)
    PROVE  Free(p \o q)
<1>1. /\ Len(p) \in Nat /\ Len(q) \in Nat /\ Len(p \o q) = Len(p) + Len(q)
      /\ \A i \in 1..Len(p) + Len(q) :
           (p \o q)[i] = IF i <= Len(p) THEN p[i] ELSE q[i - Len(p)]
  BY LenProperties, ConcatProperties
<1>2. \A i \in 1..Len(p) + Len(q) : ~(i <= Len(p)) => i - Len(p) \in 1..Len(q)
  BY <1>1
<1>3. \A i \in 1..Len(p) + Len(q) : i <= Len(p) => i \in 1..Len(p)
  BY <1>1
<1> QED BY <1>1, <1>2, <1>3 DEF Free

\* A single step; what may be inside a critical section; the section itself.
LEMMA DoFacts ==
    ASSUME NEW what, NEW on \in Mutexes, [do |-> what, on |-> on] \in Step
    PROVE  /\ Do(what, on) \in Seq(Step) /\ Len(Do(what, on)) = 1
           /\ Do(what, on)[1].do = what /\ Do(what, on)[1].on = on
<1> DEFINE d == [do |-> what, on |-> on]
<1>1. d.do = what /\ d.on = on /\ Do(what, on) = <<d>> /\ d \in Step
  BY DEF Do
<1> HIDE DEF d
<1> QED BY <1>1

\* The sound operations, and those of them that wait for no goroutine.
SoundOps == {q \in Seq(Step) : Sound(q)}
FreeOps == {q \in SoundOps : Free(q)}

\* What SoundConcat and FreeConcat say, as closure of sets of operations.
LEMMA OpsConcat ==
    /\ \A p, q \in SoundOps : p \o q \in SoundOps
    /\ \A p, q \in FreeOps : p \o q \in FreeOps
    /\ FreeOps \subseteq SoundOps /\ SoundOps \subseteq Seq(Step)
BY SoundConcat, FreeConcat DEF SoundOps, FreeOps

\* A step that locks nothing is a sound operation.
LEMMA OneStep ==
    ASSUME NEW what, NEW on \in Mutexes, [do |-> what, on |-> on] \in Step,
           what \notin {"lock", "rlock"}, what = "close" => on \in Channels \cup {"phone"}
    PROVE  /\ Do(what, on) \in SoundOps
           /\ what \notin {"join", "workers"} => Do(what, on) \in FreeOps
<1> DEFINE d == Do(what, on)
<1>1. d \in Seq(Step) /\ Len(d) = 1 /\ d[1].do = what /\ d[1].on = on
  BY DoFacts
<1> HIDE DEF d
<1>2. \A i \in 1..Len(d) : i = 1
  BY <1>1
<1>3. Sound(d)
  BY <1>1, <1>2 DEF Sound
<1>4. what \notin {"join", "workers"} => Free(d)
  BY <1>1, <1>2 DEF Free
<1> QED BY <1>1, <1>3, <1>4 DEF d, SoundOps, FreeOps

\* A lock, or a read lock, before what undoes it.
LEMMA LockFirst ==
    ASSUME NEW q \in SoundOps, NEW m \in Mutexes, NEW what \in {"lock", "rlock"},
           what = "lock" => Unlocked(q, 0, m), what = "rlock" => ReadUnlocked(q, 0)
    PROVE  /\ Do(what, m) \o q \in SoundOps
           /\ Free(q) => Do(what, m) \o q \in FreeOps
<1> DEFINE d == Do(what, m)
           r == d \o q
<1>1. d \in Seq(Step) /\ Len(d) = 1 /\ d[1].do = what /\ d[1].on = m
  <2>1. [do |-> what, on |-> m] \in Step
    BY DEF Step
  <2> QED BY <2>1, DoFacts
<1>2. q \in Seq(Step) /\ Sound(q) /\ Len(q) \in Nat
  BY LenProperties DEF SoundOps
<1> HIDE DEF d
<1>3. /\ r \in Seq(Step) /\ Len(r) = 1 + Len(q)
      /\ \A i \in 1..1 + Len(q) : r[i] = IF i <= 1 THEN d[i] ELSE q[i - 1]
  BY <1>1, <1>2, ConcatProperties
<1> HIDE DEF r
<1>4. /\ Unlocked(q, 0, m) => Unlocked(r, 1, m)
      /\ ReadUnlocked(q, 0) => ReadUnlocked(r, 1)
  <2>1. 0 \in 0..Len(q) /\ Len(d) + 0 = 1
    BY <1>1, <1>2
  <2> QED BY <1>1, <1>2, <2>1, Within DEF r
<1>5. ASSUME NEW i \in 1..Len(r)
      PROVE  /\ r[i].do = "lock" => Unlocked(r, i, r[i].on)
             /\ r[i].do = "rlock" => ReadUnlocked(r, i)
             /\ r[i].do = "close" => r[i].on \in Channels \cup {"phone"}
  <2>1. CASE i = 1
    <3>1. r[i].do = what /\ r[i].on = m
      BY <1>1, <1>2, <1>3, <2>1
    <3> QED BY <1>4, <2>1, <3>1
  <2>2. CASE i # 1
    <3> DEFINE h == i - 1
    <3>1. h \in 1..Len(q) /\ h \in 0..Len(q) /\ Len(d) + h = i /\ r[i] = q[h]
      BY <1>1, <1>2, <1>3, <2>2
    <3> HIDE DEF h
    <3>2. /\ q[h].do = "lock" => Unlocked(q, h, q[h].on)
          /\ q[h].do = "rlock" => ReadUnlocked(q, h)
          /\ q[h].do = "close" => q[h].on \in Channels \cup {"phone"}
      BY <1>2, <3>1 DEF Sound
    <3> QED BY <1>1, <1>2, <3>1, <3>2, Within DEF r
  <2> QED BY <2>1, <2>2
<1>6. Sound(r)
  BY <1>5 DEF Sound
<1>7. Free(d)
  <2>1. \A i \in 1..Len(d) : i = 1
    BY <1>1
  <2> QED BY <1>1, <2>1 DEF Free
<1>8. Free(q) => Free(r)
  BY <1>1, <1>2, <1>7, FreeConcat DEF r
<1> QED BY <1>3, <1>6, <1>8 DEF r, d, SoundOps, FreeOps

\* A critical section: a mutex, steps that wait for none, the mutex again.
LEMMA CriticalSection ==
    ASSUME NEW q \in FreeOps, NEW m \in Mutexes, \A i \in 1..Len(q) : q[i].do \in Calm
    PROVE  (Do("lock", m) \o q) \o Do("unlock", m) \in FreeOps
<1> DEFINE u == Do("unlock", m)
           l == Do("lock", m)
<1>1. u \in FreeOps /\ u \in Seq(Step) /\ Len(u) = 1 /\ u[1].do = "unlock" /\ u[1].on = m
  <2>1. [do |-> "unlock", on |-> m] \in Step
    BY DEF Step
  <2> QED BY <2>1, OneStep, DoFacts
<1>2. l \in Seq(Step)
  <2>1. [do |-> "lock", on |-> m] \in Step
    BY DEF Step
  <2> QED BY <2>1, DoFacts
<1>3. q \in Seq(Step) /\ Len(q) \in Nat
  BY LenProperties DEF SoundOps, FreeOps
<1> HIDE DEF u, l
<1>4. /\ q \o u \in FreeOps /\ Len(q \o u) = Len(q) + 1
      /\ \A i \in 1..Len(q) + 1 : (q \o u)[i] = IF i <= Len(q) THEN q[i] ELSE u[i - Len(q)]
  <2>1. q \o u \in FreeOps
    BY <1>1, OpsConcat
  <2>2. /\ Len(q \o u) = Len(q) + Len(u)
        /\ \A i \in 1..Len(q) + Len(u) :
             (q \o u)[i] = IF i <= Len(q) THEN q[i] ELSE u[i - Len(q)]
    BY <1>1, <1>3, ConcatProperties
  <2> QED BY <1>1, <2>1, <2>2
<1>5. Unlocked(q \o u, 0, m)
  <2> DEFINE j == Len(q) + 1
  <2>1. j \in 0 + 1..Len(q \o u) /\ (q \o u)[j] = u[1]
    BY <1>3, <1>4
  <2>2. \A k \in 0 + 1..j - 1 : k \in 1..Len(q) /\ (q \o u)[k] = q[k]
    BY <1>3, <1>4
  <2> HIDE DEF j
  <2> QED BY <1>1, <2>1, <2>2 DEF Unlocked
<1>6. l \o (q \o u) \in FreeOps
  BY <1>4, <1>5, LockFirst DEF FreeOps, l
<1>7. (l \o q) \o u = l \o (q \o u)
  BY <1>1, <1>2, <1>3
<1> QED BY <1>6, <1>7 DEF l, u

\* A reading under s.mu: mutexes are visited in it.
LEMMA ReadSection ==
    ASSUME NEW q \in FreeOps, \A i \in 1..Len(q) : q[i].do = "visit"
    PROVE  (Do("rlock", "s") \o q) \o Do("runlock", "s") \in FreeOps
<1> DEFINE u == Do("runlock", "s")
           l == Do("rlock", "s")
<1>1. u \in FreeOps /\ u \in Seq(Step) /\ Len(u) = 1 /\ u[1].do = "runlock"
  <2>1. [do |-> "runlock", on |-> "s"] \in Step /\ "s" \in Mutexes
    BY DEF Step, Mutexes
  <2> QED BY <2>1, OneStep, DoFacts
<1>2. l \in Seq(Step) /\ "s" \in Mutexes
  <2>1. [do |-> "rlock", on |-> "s"] \in Step /\ "s" \in Mutexes
    BY DEF Step, Mutexes
  <2> QED BY <2>1, DoFacts
<1>3. q \in Seq(Step) /\ Len(q) \in Nat
  BY LenProperties DEF SoundOps, FreeOps
<1> HIDE DEF u, l
<1>4. /\ q \o u \in FreeOps /\ Len(q \o u) = Len(q) + 1
      /\ \A i \in 1..Len(q) + 1 : (q \o u)[i] = IF i <= Len(q) THEN q[i] ELSE u[i - Len(q)]
  <2>1. q \o u \in FreeOps
    BY <1>1, OpsConcat
  <2>2. /\ Len(q \o u) = Len(q) + Len(u)
        /\ \A i \in 1..Len(q) + Len(u) :
             (q \o u)[i] = IF i <= Len(q) THEN q[i] ELSE u[i - Len(q)]
    BY <1>1, <1>3, ConcatProperties
  <2> QED BY <1>1, <2>1, <2>2
<1>5. ReadUnlocked(q \o u, 0)
  <2> DEFINE j == Len(q) + 1
  <2>1. j \in 0 + 1..Len(q \o u) /\ (q \o u)[j] = u[1]
    BY <1>3, <1>4
  <2>2. \A k \in 0 + 1..j - 1 : k \in 1..Len(q) /\ (q \o u)[k] = q[k]
    BY <1>3, <1>4
  <2> HIDE DEF j
  <2> QED BY <1>1, <2>1, <2>2 DEF ReadUnlocked
<1>6. l \o (q \o u) \in FreeOps
  BY <1>2, <1>4, <1>5, LockFirst DEF FreeOps, l
<1>7. (l \o q) \o u = l \o (q \o u)
  BY <1>1, <1>2, <1>3
<1> QED BY <1>6, <1>7 DEF l, u

\* Steps that are calm or visit a mutex are a sound operation, however many.
LEMMA Harmless ==
    ASSUME NEW q \in Seq(Step), \A i \in 1..Len(q) : q[i].do \in Calm \cup {"visit"}
    PROVE  q \in FreeOps
<1>1. \A i \in 1..Len(q) :
        q[i].do \notin {"lock", "rlock", "close", "join", "workers"}
  <2>1. \A d \in Calm \cup {"visit"} : d \notin {"lock", "rlock", "close", "join", "workers"}
    BY DEF Calm
  <2> QED BY <2>1
<1>2. Sound(q) /\ Free(q)
  BY <1>1 DEF Sound, Free
<1> QED BY <1>2 DEF SoundOps, FreeOps

\* The empty operation is sound: it has no step.
LEMMA NoStep == << >> \in FreeOps /\ \A i \in 1..Len(<< >>) : FALSE
<1>1. << >> \in Seq(Step) /\ Len(<< >>) = 0
  BY EmptySeq
<1>2. \A i \in 1..Len(<< >>) : FALSE
  BY <1>1
<1> QED BY <1>1, <1>2, Harmless

-----------------------------------------------------------------------------
(* The operations of the code are sound.                                   *)

\* Their parts.
LEMMA Parts ==
    /\ Look \in FreeOps
    /\ \A m \in Mutexes : Visit(m) \in FreeOps /\ Len(Visit(m)) = 1 /\ Visit(m)[1].do = "visit"
    /\ Network \in FreeOps /\ \A i \in 1..Len(Network) : Network[i].do \in Calm
    /\ Log \in FreeOps /\ \A i \in 1..Len(Log) : Log[i].do \in Calm
    /\ Broadcast \in FreeOps
    /\ \A m \in Channels \cup {"phone"} : CloseSession(m) \in SoundOps
    /\ \A m \in Mutexes : Do("lock", m) \in Seq(Step) /\ Do("unlock", m) \in Seq(Step)
    /\ Do("rlock", "s") \in Seq(Step) /\ Do("runlock", "s") \in Seq(Step)
    /\ \A what \in {"remove", "closefeed", "cancel", "workers"} : Do(what, "s") \in SoundOps
<1>1. {"s", "phone", "ws"} \subseteq Mutexes /\ Channels \subseteq Mutexes
  BY DEF Mutexes
<1>2. \A what \in {"look", "visit", "network", "log", "send", "rlock", "runlock", "lock",
                   "unlock", "write", "close", "join", "remove", "closefeed", "cancel",
                   "workers"}, m \in Mutexes : [do |-> what, on |-> m] \in Step
  BY DEF Step
<1>3. Look \in FreeOps
  BY <1>1, <1>2, OneStep DEF Look
<1>4. \A m \in Mutexes : Visit(m) \in FreeOps /\ Len(Visit(m)) = 1 /\ Visit(m)[1].do = "visit"
  BY <1>2, OneStep, DoFacts DEF Visit
<1>5. \A what \in Calm, m \in Mutexes :
        /\ Do(what, m) \in FreeOps /\ Do(what, m) \in Seq(Step)
        /\ Len(Do(what, m)) = 1 /\ Do(what, m)[1].do \in Calm
  BY <1>2, OneStep, DoFacts DEF Calm
<1>6. \A what \in Calm, m \in Mutexes : \A i \in 1..Len(Do(what, m)) : Do(what, m)[i].do \in Calm
  BY <1>5
<1>7. Network \in FreeOps /\ \A i \in 1..Len(Network) : Network[i].do \in Calm
  BY <1>1, <1>5, <1>6 DEF Network, Calm
<1>8. Log \in FreeOps /\ \A i \in 1..Len(Log) : Log[i].do \in Calm
  <2> DEFINE p == Do("log", "s")
             q == Do("send", "s")
  <2>1. /\ p \in FreeOps /\ p \in Seq(Step) /\ Len(p) = 1 /\ p[1].do \in Calm
        /\ q \in FreeOps /\ q \in Seq(Step) /\ Len(q) = 1 /\ q[1].do \in Calm
    BY <1>1, <1>5 DEF Calm
  <2> HIDE DEF p, q
  <2>2. p \o q \in FreeOps
    BY <2>1, OpsConcat
  <2>3. /\ Len(p \o q) = 2
        /\ \A i \in 1..2 : (p \o q)[i] = IF i <= 1 THEN p[i] ELSE q[i - 1]
    BY <2>1, ConcatProperties
  <2>4. \A i \in 1..Len(p \o q) : (p \o q)[i].do \in Calm
    BY <2>1, <2>3
  <2> QED BY <2>2, <2>4, NoStep DEF Log, p, q
<1>9. Broadcast \in FreeOps
  BY <1>1, <1>5, <1>6, CriticalSection DEF Broadcast, Calm
<1>10. \A m \in Channels \cup {"phone"} : CloseSession(m) \in SoundOps
  <2>1. ASSUME NEW m \in Channels \cup {"phone"}
        PROVE  Do("close", m) \in SoundOps /\ Do("join", m) \in SoundOps
    BY <1>1, <1>2, OneStep
  <2> QED BY <2>1, OpsConcat DEF CloseSession
<1>11. \A what \in {"lock", "unlock", "rlock", "runlock"}, m \in Mutexes : Do(what, m) \in Seq(Step)
  BY <1>2, DoFacts
<1>12. \A what \in {"remove", "closefeed", "cancel", "workers"} : Do(what, "s") \in SoundOps
  BY <1>1, <1>2, OneStep
<1> QED BY <1>1, <1>3, <1>4, <1>7, <1>8, <1>9, <1>10, <1>11, <1>12

\* A critical section that other steps precede.
LEMMA SectionAfter ==
    ASSUME NEW p \in FreeOps, NEW q \in FreeOps, NEW m \in Mutexes,
           \A i \in 1..Len(q) : q[i].do \in Calm
    PROVE  ((p \o Do("lock", m)) \o q) \o Do("unlock", m) \in FreeOps
<1> DEFINE l == Do("lock", m)
           u == Do("unlock", m)
<1>1. p \in Seq(Step) /\ q \in Seq(Step) /\ l \in Seq(Step) /\ u \in Seq(Step)
  BY Parts DEF FreeOps, SoundOps
<1>2. (l \o q) \o u \in FreeOps
  BY CriticalSection
<1> DEFINE x == l \o q
<1> HIDE DEF l, u
<1>3. (p \o l) \o q = p \o x
  BY <1>1
<1>4. x \in Seq(Step)
  <2>1. l \o q \in Seq(Step)
    BY <1>1, ConcatProperties
  <2> QED BY <2>1 DEF x
<1>5. x \o u \in FreeOps
  BY <1>2
<1> HIDE DEF x
<1>6. (p \o x) \o u = p \o (x \o u)
  <2>1. p \in Seq(Step) /\ x \in Seq(Step) /\ u \in Seq(Step)
    BY <1>1, <1>4
  <2> QED BY <2>1
<1>7. p \o (x \o u) \in FreeOps
  BY <1>5, OpsConcat
<1> QED BY <1>3, <1>6, <1>7 DEF l, u

\* A visit to every channel, in any order.
LEMMA VisitsFacts ==
    ASSUME NEW f \in Orders
    PROVE  /\ Visits(f) \in FreeOps
           /\ \A i \in 1..Len(Visits(f)) : Visits(f)[i].do = "visit"
<1> DEFINE n == Cardinality(Channels)
           v == Visits(f)
<1>1. n \in Nat /\ f \in [1..n -> Channels]
  BY ServiceLocksAssumption, FS_CardinalityType DEF Orders
<1>2. \A i \in 1..n : [do |-> "visit", on |-> f[i]] \in Step
  BY <1>1 DEF Step, Mutexes
<1>3. v = [i \in 1..n |-> [do |-> "visit", on |-> f[i]]]
  BY <1>1 DEF Visits
<1> HIDE DEF n
<1>4. v \in [1..n -> Step] /\ \A i \in 1..n : v[i].do = "visit"
  BY <1>2, <1>3
<1> HIDE DEF v
<1>5. v \in Seq(Step) /\ Len(v) = n
  <2>1. v \in Seq(Step)
    BY <1>1, <1>4, SeqDef
  <2> QED BY <2>1, <1>1, <1>4, LenProperties
<1>6. \A i \in 1..Len(v) : v[i].do = "visit"
  BY <1>4, <1>5
<1> QED BY <1>5, <1>6, Harmless DEF v

\* DisconnectChannel unlocks what it locks before it waits again.
LEMMA DisconnectSound == \A c \in Channels : DisconnectChannel(c) \in SoundOps
<1> SUFFICES ASSUME NEW c \in Channels PROVE DisconnectChannel(c) \in SoundOps
  OBVIOUS
<1>1. c \in Mutexes /\ c \in Channels \cup {"phone"}
  BY DEF Mutexes
<1>2. ((Look \o Do("lock", c)) \o Log) \o Do("unlock", c) \in FreeOps
  BY <1>1, Parts, SectionAfter
<1> QED BY <1>1, <1>2, Parts, OpsConcat DEF DisconnectChannel

\* HangupPhone unlocks what it locks before it waits again.
LEMMA HangupSound == HangupPhone \in SoundOps
<1>1. "phone" \in Mutexes /\ "phone" \in Channels \cup {"phone"}
  BY DEF Mutexes
<1>2. (Do("lock", "phone") \o Log) \o Do("unlock", "phone") \in FreeOps
  BY <1>1, Parts, CriticalSection
<1> QED BY <1>1, <1>2, Parts, OpsConcat DEF HangupPhone

\* The end of the program, for any number of channels.
LEMMA CloseSound == \A f \in Orders : Close(f) \in SoundOps
<1> SUFFICES ASSUME NEW f \in Orders PROVE Close(f) \in SoundOps
  OBVIOUS
<1> DEFINE n == Cardinality(Channels)
           q == [i \in DOMAIN f |-> DisconnectChannel(f[i])]
<1>1. n \in Nat /\ f \in [1..n -> Channels]
  BY ServiceLocksAssumption, FS_CardinalityType DEF Orders
<1>2. q \in Seq(SoundOps)
  <2>1. q \in [1..n -> SoundOps]
    BY <1>1, DisconnectSound
  <2> HIDE DEF q, n
  <2> QED BY <1>1, <2>1, SeqDef
<1> HIDE DEF q
<1>3. FlattenSeq(q) \in SoundOps
  BY <1>2, FlattenClosed, OpsConcat, NoStep
<1>4. "ws" \in Mutexes
  BY DEF Mutexes
<1> QED BY <1>3, <1>4, Parts, HangupSound, OpsConcat DEF Close, q

\* Every operation of an activity is sound, and one that is waited for waits for
\* no goroutine itself.
LEMMA OperationsSound ==
    ASSUME NEW a \in Activities, NEW op \in Operations(a)
    PROVE  /\ op \in SoundOps
           /\ a \in Awaited => op \in FreeOps
<1> DEFINE kind == a[1]
           on == a[2]
<1>1. /\ kind \in {"connect", "disconnect", "ptt", "receive", "transmit", "dial", "hangup",
                   "console", "mic", "supervise", "watchdog", "main", "forward"}
      /\ kind \in {"connect", "disconnect", "ptt"} => on \in Channels
      /\ kind \in {"receive", "transmit"} => on \in Channels \cup {"phone"}
  BY ServiceLocksAssumption
<1>2. {"s", "phone", "ws"} \subseteq Mutexes /\ Channels \subseteq Mutexes
  BY DEF Mutexes
<1>3. a \in Awaited <=> kind \in {"receive", "transmit", "supervise", "watchdog"}
  BY DEF Awaited
<1> HIDE DEF kind, on
<1>4. CASE kind = "connect"
  <2>1. op = ConnectChannel(on) \/ op = Look \o Visit(on)
    BY <1>4 DEF Operations, kind, on
  <2>2. ConnectChannel(on) \in FreeOps
    BY <1>1, <1>2, <1>4, Parts, SectionAfter DEF ConnectChannel
  <2> QED BY <1>1, <1>2, <1>4, <2>1, <2>2, Parts, OpsConcat
<1>5. CASE kind = "disconnect"
  <2>1. op = DisconnectChannel(on)
    BY <1>5 DEF Operations, kind, on
  <2> QED BY <1>1, <1>3, <1>5, <2>1, DisconnectSound
<1>6. CASE kind = "ptt"
  <2>1. op = Look \o Visit(on)
    BY <1>6 DEF Operations, StartPTT, kind, on
  <2> QED BY <1>1, <1>2, <1>6, <2>1, Parts, OpsConcat
<1>7. CASE kind = "receive"
  <2>1. op = (Visit("phone") \o Look) \o Broadcast \/ op = (Look \o Visit(on)) \o Broadcast
    BY <1>7 DEF Operations, PhoneHandler, handleRadioRx, kind, on
  <2>2. Visit("phone") \in FreeOps /\ Visit(on) \in FreeOps
    BY <1>1, <1>2, <1>7, Parts
  <2>3. /\ Visit("phone") \o Look \in FreeOps /\ Look \o Visit(on) \in FreeOps
        /\ Broadcast \in FreeOps
    BY <2>2, Parts, OpsConcat
  <2>4. op \in FreeOps
    BY <2>1, <2>3, OpsConcat
  <2> QED BY <2>4, OpsConcat
<1>8. CASE kind = "transmit"
  <2>1. op = Visit(on)
    BY <1>8 DEF Operations, audioSrc, kind, on
  <2> QED BY <1>1, <1>2, <1>8, <2>1, Parts, OpsConcat
<1>9. CASE kind = "dial"
  <2>1. op = DialURI \/ op = Visit("phone")
    BY <1>9 DEF Operations, kind, on
  <2>2. DialURI \in FreeOps
    BY <1>2, Parts, CriticalSection DEF DialURI
  <2> QED BY <1>2, <2>1, <2>2, Parts, OpsConcat
<1>10. CASE kind = "hangup"
  <2>1. op = HangupPhone \/ op = Visit("phone")
    BY <1>10 DEF Operations, kind, on
  <2> QED BY <1>2, <1>3, <1>10, <2>1, HangupSound, Parts, OpsConcat
<1>11. CASE kind = "console"
  <2>1. PICK f \in Orders : op = (Do("rlock", "s") \o Visits(f)) \o Do("runlock", "s")
    BY <1>11 DEF Operations, ChannelSnapshots, kind, on
  <2>2. op \in FreeOps
    BY <2>1, VisitsFacts, ReadSection
  <2> QED BY <2>2, OpsConcat
<1>12. CASE kind = "mic"
  <2>1. PICK f \in Orders :
          op = ((Do("rlock", "s") \o Visits(f)) \o Visit("phone")) \o Do("runlock", "s")
    BY <1>12 DEF Operations, FeedMicAudio, kind, on
  <2> DEFINE v == Visits(f)
             p == Visit("phone")
             x == v \o p
  <2>2. /\ v \in FreeOps /\ \A i \in 1..Len(v) : v[i].do = "visit"
        /\ p \in FreeOps /\ Len(p) = 1 /\ p[1].do = "visit"
        /\ Do("rlock", "s") \in Seq(Step)
    BY <1>2, VisitsFacts, Parts
  <2> HIDE DEF v, p
  <2>3. v \in Seq(Step) /\ p \in Seq(Step) /\ Len(v) \in Nat
    BY <2>2, LenProperties DEF FreeOps, SoundOps
  <2>4. /\ Len(x) = Len(v) + 1
        /\ \A i \in 1..Len(v) + 1 : x[i] = IF i <= Len(v) THEN v[i] ELSE p[i - Len(v)]
    <3>1. /\ Len(x) = Len(v) + Len(p)
          /\ \A i \in 1..Len(v) + Len(p) : x[i] = IF i <= Len(v) THEN v[i] ELSE p[i - Len(v)]
      BY <2>3, ConcatProperties
    <3> QED BY <2>2, <3>1
  <2>5. x \in FreeOps
    BY <2>2, OpsConcat
  <2>6. (Do("rlock", "s") \o v) \o p = Do("rlock", "s") \o x
    <3> DEFINE l == Do("rlock", "s")
    <3>1. l \in Seq(Step)
      BY <2>2
    <3> HIDE DEF l
    <3>2. (l \o v) \o p = l \o (v \o p)
      <4>1. l \in Seq(Step) /\ v \in Seq(Step) /\ p \in Seq(Step)
        BY <2>3, <3>1
      <4> QED BY <4>1
    <3> QED BY <3>2 DEF l, x
  <2> HIDE DEF x
  <2>7. \A i \in 1..Len(x) : x[i].do = "visit"
    <3>1. ASSUME NEW i \in 1..Len(x)
          PROVE  x[i].do = "visit"
      <4>1. CASE i <= Len(v)
        BY <2>2, <2>3, <2>4, <4>1
      <4>2. CASE i = Len(v) + 1
        BY <2>2, <2>3, <2>4, <4>2
      <4> QED BY <2>3, <2>4, <4>1, <4>2
    <3> QED BY <3>1
  <2>8. (Do("rlock", "s") \o x) \o Do("runlock", "s") \in FreeOps
    BY <2>5, <2>7, ReadSection
  <2>9. op \in FreeOps
    BY <2>1, <2>6, <2>8 DEF v, p
  <2> QED BY <2>9, OpsConcat
<1>13. CASE kind = "supervise"
  <2>1. op = (((Look \o Network) \o Do("lock", "s")) \o Log) \o Do("unlock", "s")
    BY <1>13 DEF Operations, runSupervisionChecks, kind, on
  <2>2. Look \o Network \in FreeOps
    BY Parts, OpsConcat
  <2>3. op \in FreeOps
    BY <1>2, <2>1, <2>2, Parts, SectionAfter
  <2> QED BY <2>3, OpsConcat
<1>14. CASE kind = "watchdog"
  <2>1. PICK f \in Orders : op = Look \o Visits(f)
    BY <1>14 DEF Operations, checkSquelchTimeouts, kind, on
  <2>2. op \in FreeOps
    BY <2>1, VisitsFacts, Parts, OpsConcat
  <2> QED BY <2>2, OpsConcat
<1>15. CASE kind = "main"
  <2>1. PICK f \in Orders : op = Close(f)
    BY <1>15 DEF Operations, kind, on
  <2> QED BY <1>3, <1>15, <2>1, CloseSound
<1>16. CASE kind = "forward"
  <2>1. op = Broadcast
    BY <1>16 DEF Operations, kind, on
  <2> QED BY <2>1, Parts, OpsConcat
<1> QED BY <1>1, <1>4, <1>5, <1>6, <1>7, <1>8, <1>9, <1>10, <1>11, <1>12, <1>13, <1>14,
           <1>15, <1>16

-----------------------------------------------------------------------------
(* The invariant.                                                          *)

\* What a step leaves of a sound operation.
LEMMA TailFacts ==
    ASSUME NEW q \in Seq(Step), q # << >>
    PROVE  /\ Head(q) = q[1] /\ Head(q) \in Step /\ Tail(q) \in Seq(Step)
           /\ Sound(q) => Sound(Tail(q))
           /\ Free(q) => Free(Tail(q))
           /\ \A m : Unlocked(q, 1, m) => Unlocked(Tail(q), 0, m)
           /\ ReadUnlocked(q, 1) => ReadUnlocked(Tail(q), 0)
<1> DEFINE t == Tail(q)
<1>1. /\ Head(q) = q[1] /\ Head(q) \in Step
      /\ t \in Seq(Step) /\ Len(q) \in Nat \ {0} /\ Len(t) = Len(q) - 1
      /\ \A i \in 1..Len(t) : t[i] = q[i + 1]
  BY HeadTailProperties, EmptySeq
<1> HIDE DEF t
<1>2. ASSUME NEW m, NEW i \in 0..Len(t), Unlocked(q, i + 1, m)
      PROVE  Unlocked(t, i, m)
  <2>1. PICK j \in i + 2..Len(q) : /\ q[j].do = "unlock" /\ q[j].on = m
                                   /\ \A k \in i + 2..j - 1 : q[k].do \in Calm
    BY <1>1, <1>2 DEF Unlocked
  <2>2. j - 1 \in i + 1..Len(t) /\ t[j - 1] = q[j]
    BY <1>1
  <2>3. \A k \in i + 1..j - 1 - 1 : k + 1 \in i + 2..j - 1 /\ t[k] = q[k + 1]
    BY <1>1
  <2>4. \A k \in i + 1..j - 1 - 1 : t[k].do \in Calm
    BY <2>1, <2>3
  <2> QED BY <2>1, <2>2, <2>4 DEF Unlocked
<1>3. ASSUME NEW i \in 0..Len(t), ReadUnlocked(q, i + 1)
      PROVE  ReadUnlocked(t, i)
  <2>1. PICK j \in i + 2..Len(q) : /\ q[j].do = "runlock"
                                   /\ \A k \in i + 2..j - 1 : q[k].do = "visit"
    BY <1>1, <1>3 DEF ReadUnlocked
  <2>2. j - 1 \in i + 1..Len(t) /\ t[j - 1] = q[j]
    BY <1>1
  <2>3. \A k \in i + 1..j - 1 - 1 : k + 1 \in i + 2..j - 1 /\ t[k] = q[k + 1]
    BY <1>1
  <2>4. \A k \in i + 1..j - 1 - 1 : t[k].do = "visit"
    BY <2>1, <2>3
  <2> QED BY <2>1, <2>2, <2>4 DEF ReadUnlocked
<1>4. \A i \in 1..Len(t) : i + 1 \in 1..Len(q) /\ i \in 0..Len(t)
  BY <1>1
<1>5. ASSUME Sound(q) PROVE Sound(t)
  <2> SUFFICES ASSUME NEW i \in 1..Len(t)
               PROVE  /\ t[i].do = "lock" => Unlocked(t, i, t[i].on)
                      /\ t[i].do = "rlock" => ReadUnlocked(t, i)
                      /\ t[i].do = "close" => t[i].on \in Channels \cup {"phone"}
    BY DEF Sound
  <2>1. /\ q[i + 1].do = "lock" => Unlocked(q, i + 1, q[i + 1].on)
        /\ q[i + 1].do = "rlock" => ReadUnlocked(q, i + 1)
        /\ q[i + 1].do = "close" => q[i + 1].on \in Channels \cup {"phone"}
    BY <1>4, <1>5 DEF Sound
  <2> QED BY <1>1, <1>2, <1>3, <1>4, <2>1
<1>6. ASSUME Free(q) PROVE Free(t)
  BY <1>1, <1>4, <1>6 DEF Free
<1>7. 0 \in 0..Len(t) /\ 0 + 1 = 1
  BY <1>1
<1>8. \A m : Unlocked(q, 1, m) => Unlocked(t, 0, m)
  BY <1>2, <1>7
<1>9. ReadUnlocked(q, 1) => ReadUnlocked(t, 0)
  BY <1>3, <1>7
<1> QED BY <1>1, <1>5, <1>6, <1>8, <1>9 DEF t

\* Who holds a mutex, or reads under s.mu, is about to undo it or at a step that
\* precedes that.
LEMMA HolderAt ==
    ASSUME NEW q \in Seq(Step)
    PROVE  /\ \A m : Unlocked(q, 0, m) =>
                /\ q # << >>
                /\ \/ Head(q).do = "unlock" /\ Head(q).on = m
                   \/ Head(q).do \in Calm /\ Unlocked(q, 1, m)
           /\ ReadUnlocked(q, 0) =>
                /\ q # << >>
                /\ \/ Head(q).do = "runlock"
                   \/ Head(q).do = "visit" /\ ReadUnlocked(q, 1)
<1>1. Len(q) \in Nat /\ (q = << >> => Len(q) = 0) /\ (q # << >> => Head(q) = q[1])
  BY LenProperties, TailFacts, EmptySeq
<1>2. ASSUME NEW m, Unlocked(q, 0, m)
      PROVE  /\ q # << >>
             /\ \/ Head(q).do = "unlock" /\ Head(q).on = m
                \/ Head(q).do \in Calm /\ Unlocked(q, 1, m)
  <2>1. PICK j \in 1..Len(q) : /\ q[j].do = "unlock" /\ q[j].on = m
                               /\ \A k \in 1..j - 1 : q[k].do \in Calm
    BY <1>2 DEF Unlocked
  <2>2. q # << >>
    BY <1>1
  <2>3. CASE j = 1
    BY <1>1, <2>1, <2>2, <2>3
  <2>4. CASE j # 1
    <3>1. j \in 1 + 1..Len(q) /\ 1 \in 1..j - 1 /\ \A k \in 1 + 1..j - 1 : k \in 1..j - 1
      BY <1>1, <2>4
    <3> QED BY <1>1, <2>1, <2>2, <3>1 DEF Unlocked
  <2> QED BY <2>3, <2>4
<1>3. ASSUME ReadUnlocked(q, 0)
      PROVE  /\ q # << >>
             /\ \/ Head(q).do = "runlock"
                \/ Head(q).do = "visit" /\ ReadUnlocked(q, 1)
  <2>1. PICK j \in 1..Len(q) : /\ q[j].do = "runlock"
                               /\ \A k \in 1..j - 1 : q[k].do = "visit"
    BY <1>3 DEF ReadUnlocked
  <2>2. q # << >>
    BY <1>1
  <2>3. CASE j = 1
    BY <1>1, <2>1, <2>2, <2>3
  <2>4. CASE j # 1
    <3>1. j \in 1 + 1..Len(q) /\ 1 \in 1..j - 1 /\ \A k \in 1 + 1..j - 1 : k \in 1..j - 1
      BY <1>1, <2>4
    <3> QED BY <1>1, <2>1, <2>2, <3>1 DEF ReadUnlocked
  <2> QED BY <2>3, <2>4
<1> QED BY <1>2, <1>3

\* The variables whose types a step does not bring into question.
OthersTyped ==
    /\ closing \subseteq Channels \cup {"phone"} /\ stalled \in BOOLEAN
    /\ feed \in {"open", "removed", "closed"} /\ copied \subseteq Activities
    /\ cancelled \in BOOLEAN
LocksTyped ==
    /\ owner \in [Mutexes -> Activities \cup {Nobody, Panicked}]
    /\ readers \subseteq Activities /\ waiting \subseteq Activities
    /\ readers # {} => owner["s"] = Nobody

\* The type invariant in the parts the steps below disturb.
LEMMA TypeParts ==
    TypeOK <=> rest \in [Activities -> Seq(Step)] /\ LocksTyped /\ OthersTyped
BY DEF TypeOK, LocksTyped, OthersTyped

\* At the start every goroutine is idle and every mutex free.
LEMMA InvInit == Init => Inv
<1> SUFFICES ASSUME Init PROVE Inv
  OBVIOUS
<1>1. rest \in [Activities -> Seq(Step)] /\ RestSound
  BY NoStep DEF Init, RestSound, FreeOps, SoundOps
<1>2. LocksTyped /\ OthersTyped
  <2>1. "s" \in Mutexes
    BY DEF Mutexes
  <2> QED BY <2>1 DEF Init, LocksTyped, OthersTyped
<1>3. OwnersUnlock
  BY ServiceLocksAssumption DEF Init, OwnersUnlock
<1>4. ReadersUnlock /\ WritersWait
  BY DEF Init, ReadersUnlock, WritersWait
<1> QED BY <1>1, <1>2, <1>3, <1>4, TypeParts DEF Inv

\* An activity takes its step: what is left of its operation is sound.
LEMMA GoesOnFacts ==
    ASSUME Inv, NEW a \in Activities, ~Resting(a), GoesOn(a)
    PROVE  /\ rest' \in [Activities -> Seq(Step)] /\ RestSound'
           /\ rest[a] \in Seq(Step) /\ rest[a] # << >>
           /\ rest'[a] = Tail(rest[a])
           /\ \A b \in Activities : b # a => rest'[b] = rest[b]
<1>1. /\ rest \in [Activities -> Seq(Step)]
      /\ rest' = [rest EXCEPT ![a] = Tail(rest[a])] /\ rest[a] # << >>
  BY DEF Inv, TypeOK, GoesOn, Resting
<1>2. rest[a] \in Seq(Step) /\ Tail(rest[a]) \in Seq(Step)
  BY <1>1, TailFacts
<1>3. /\ rest' \in [Activities -> Seq(Step)] /\ rest'[a] = Tail(rest[a])
      /\ \A b \in Activities : b # a => rest'[b] = rest[b]
  BY <1>1, <1>2
<1>4. Sound(rest'[a]) /\ (a \in Awaited => Free(rest'[a]))
  BY <1>1, <1>2, <1>3, TailFacts DEF Inv, RestSound
<1>5. RestSound'
  BY <1>3, <1>4 DEF Inv, RestSound
<1> QED BY <1>1, <1>2, <1>3, <1>5

\* A step that is no lock and no unlock leaves the holders where they should be.
LEMMA PlainStep ==
    ASSUME Inv, NEW a \in Activities,
           ~Resting(a), GoesOn(a), UNCHANGED locks, OthersTyped',
           Head(rest[a]).do \notin {"lock", "unlock", "rlock", "runlock"}
    PROVE  Inv'
<1>1. /\ rest' \in [Activities -> Seq(Step)] /\ RestSound'
      /\ rest[a] \in Seq(Step) /\ rest[a] # << >> /\ rest'[a] = Tail(rest[a])
      /\ \A b \in Activities : b # a => rest'[b] = rest[b]
  BY GoesOnFacts
<1>2. owner' = owner /\ readers' = readers /\ waiting' = waiting
  BY DEF locks
<1>3. LocksTyped'
  BY <1>2, TypeParts DEF Inv, LocksTyped
<1>4. OwnersUnlock'
  <2> SUFFICES ASSUME NEW m \in Mutexes, NEW b \in Activities, owner[m] = b
               PROVE  Unlocked(rest'[b], 0, m)
    BY <1>2 DEF OwnersUnlock
  <2>1. Unlocked(rest[b], 0, m)
    BY DEF Inv, OwnersUnlock
  <2>2. CASE b = a
    <3>1. Unlocked(rest[a], 1, m)
      BY <1>1, <2>1, <2>2, HolderAt
    <3> QED BY <1>1, <2>2, <3>1, TailFacts
  <2> QED BY <1>1, <2>1, <2>2
<1>5. ReadersUnlock'
  <2> SUFFICES ASSUME NEW b \in readers
               PROVE  ReadUnlocked(rest'[b], 0)
    BY <1>2 DEF ReadersUnlock
  <2>1. ReadUnlocked(rest[b], 0) /\ b \in Activities
    BY TypeParts DEF Inv, ReadersUnlock, LocksTyped
  <2>2. CASE b = a
    <3>1. ReadUnlocked(rest[a], 1)
      BY <1>1, <2>1, <2>2, HolderAt
    <3> QED BY <1>1, <2>2, <3>1, TailFacts
  <2> QED BY <1>1, <2>1, <2>2
<1>6. WritersWait'
  <2>1. a \notin waiting /\ waiting \subseteq Activities
    BY TypeParts DEF Inv, WritersWait, At, LocksTyped
  <2> SUFFICES ASSUME NEW b \in waiting
               PROVE  /\ rest'[b] # << >> /\ Head(rest'[b]).do = "lock"
                      /\ Head(rest'[b]).on = "s"
    BY <1>2 DEF WritersWait, At, On, Resting
  <2>2. /\ b \in Activities /\ b # a /\ rest[b] # << >>
        /\ Head(rest[b]).do = "lock" /\ Head(rest[b]).on = "s"
    BY <2>1 DEF Inv, WritersWait, At, On, Resting
  <2>3. rest'[b] = rest[b]
    BY <1>1, <2>2
  <2> QED BY <2>2, <2>3
<1>7. TypeOK'
  BY <1>1, <1>3 DEF TypeOK, LocksTyped, OthersTyped
<1> QED BY <1>1, <1>4, <1>5, <1>6, <1>7 DEF Inv

\* An operation begins: its goroutine holds nothing yet.
LEMMA BeginStep ==
    ASSUME Inv, NEW a \in Activities, Begin(a)
    PROVE  Inv'
<1>1. PICK op \in Operations(a) : rest' = [rest EXCEPT ![a] = op]
  BY DEF Begin
<1>2. rest[a] = << >> /\ UNCHANGED <<locks, closing, stalled, log, cancelled>>
  BY DEF Begin, Resting
<1>3. op \in Seq(Step) /\ Sound(op) /\ (a \in Awaited => Free(op))
  BY OperationsSound DEF SoundOps, FreeOps
<1>4. /\ rest' \in [Activities -> Seq(Step)] /\ rest'[a] = op
      /\ \A b \in Activities : b # a => rest'[b] = rest[b]
  BY <1>1, <1>3 DEF Inv, TypeOK
<1>5. RestSound'
  BY <1>3, <1>4 DEF Inv, RestSound
<1>6. /\ owner' = owner /\ readers' = readers /\ waiting' = waiting
      /\ closing' = closing /\ stalled' = stalled /\ feed' = feed /\ copied' = copied
      /\ cancelled' = cancelled
  BY <1>2 DEF locks, log
<1>7. rest[a] \in Seq(Step) /\ readers \subseteq Activities /\ waiting \subseteq Activities
  BY TypeParts DEF Inv, LocksTyped
<1>8. LocksTyped' /\ OthersTyped'
  BY <1>6, TypeParts DEF Inv, LocksTyped, OthersTyped
<1>9. OwnersUnlock'
  <2> SUFFICES ASSUME NEW m \in Mutexes, NEW b \in Activities, owner[m] = b
               PROVE  Unlocked(rest'[b], 0, m)
    BY <1>6 DEF OwnersUnlock
  <2>1. Unlocked(rest[b], 0, m)
    BY DEF Inv, OwnersUnlock
  <2>2. b # a
    BY <1>2, <1>7, <2>1, HolderAt
  <2> QED BY <1>4, <2>1, <2>2
<1>10. ReadersUnlock'
  <2> SUFFICES ASSUME NEW b \in readers
               PROVE  ReadUnlocked(rest'[b], 0)
    BY <1>6 DEF ReadersUnlock
  <2>1. ReadUnlocked(rest[b], 0) /\ b \in Activities
    BY <1>7 DEF Inv, ReadersUnlock
  <2>2. b # a
    BY <1>2, <1>7, <2>1, HolderAt
  <2> QED BY <1>4, <2>1, <2>2
<1>11. WritersWait'
  <2> SUFFICES ASSUME NEW b \in waiting
               PROVE  /\ rest'[b] # << >> /\ Head(rest'[b]).do = "lock"
                      /\ Head(rest'[b]).on = "s"
    BY <1>6 DEF WritersWait, At, On, Resting
  <2>1. /\ b \in Activities /\ rest[b] # << >>
        /\ Head(rest[b]).do = "lock" /\ Head(rest[b]).on = "s"
    BY <1>7 DEF Inv, WritersWait, At, On, Resting
  <2>2. rest'[b] = rest[b]
    BY <1>2, <1>4, <2>1
  <2> QED BY <2>1, <2>2
<1>12. TypeOK'
  BY <1>4, <1>8 DEF TypeOK, LocksTyped, OthersTyped
<1> QED BY <1>5, <1>9, <1>10, <1>11, <1>12 DEF Inv

\* A mutex is locked: its owner will unlock it next.
LEMMA LocksStep ==
    ASSUME Inv, NEW a \in Activities, Locks(a)
    PROVE  Inv'
<1> DEFINE m == On(a)
<1>1. /\ ~Resting(a) /\ Head(rest[a]).do = "lock" /\ Head(rest[a]).on = m
      /\ owner[m] = Nobody /\ (m = "s" => readers = {})
      /\ GoesOn(a) /\ owner' = [owner EXCEPT ![m] = a]
      /\ waiting' = waiting \ {a} /\ readers' = readers
      /\ closing' = closing /\ stalled' = stalled /\ feed' = feed /\ copied' = copied
      /\ cancelled' = cancelled
  BY DEF Locks, At, On, log
<1>2. /\ rest' \in [Activities -> Seq(Step)] /\ RestSound'
      /\ rest[a] \in Seq(Step) /\ rest[a] # << >> /\ rest'[a] = Tail(rest[a])
      /\ \A b \in Activities : b # a => rest'[b] = rest[b]
  BY <1>1, GoesOnFacts
<1>3. m \in Mutexes
  BY <1>1, <1>2, TailFacts DEF Step
<1> HIDE DEF m
<1>4. /\ LocksTyped
      /\ readers \subseteq Activities /\ waiting \subseteq Activities
  BY TypeParts DEF Inv, LocksTyped
<1>5. LocksTyped'
  BY <1>1, <1>3, <1>4 DEF LocksTyped
<1>6. OthersTyped'
  BY <1>1, TypeParts DEF Inv, OthersTyped
<1>7. Unlocked(rest'[a], 0, m)
  <2>1. Sound(rest[a]) /\ 1 \in 1..Len(rest[a]) /\ Head(rest[a]) = rest[a][1]
    BY <1>2, TailFacts, EmptySeq DEF Inv, RestSound
  <2>2. Unlocked(rest[a], 1, m)
    BY <1>1, <2>1 DEF Sound
  <2> QED BY <1>2, <2>2, TailFacts
<1>8. \A n \in Mutexes : owner[n] # a
  BY <1>1, <1>2, HolderAt DEF Inv, OwnersUnlock, Calm
<1>9. OwnersUnlock'
  <2> SUFFICES ASSUME NEW n \in Mutexes, NEW b \in Activities, owner'[n] = b
               PROVE  Unlocked(rest'[b], 0, n)
    BY DEF OwnersUnlock
  <2>1. CASE n = m
    BY <1>1, <1>3, <1>4, <1>7, <2>1 DEF LocksTyped
  <2>2. CASE n # m
    <3>1. owner[n] = b
      BY <1>1, <1>4, <2>2 DEF LocksTyped
    <3>2. b # a /\ Unlocked(rest[b], 0, n)
      BY <1>8, <3>1 DEF Inv, OwnersUnlock
    <3> QED BY <1>2, <3>2
  <2> QED BY <2>1, <2>2
<1>10. ReadersUnlock'
  <2> SUFFICES ASSUME NEW b \in readers
               PROVE  ReadUnlocked(rest'[b], 0)
    BY <1>1 DEF ReadersUnlock
  <2>1. ReadUnlocked(rest[b], 0) /\ b \in Activities
    BY <1>4 DEF Inv, ReadersUnlock
  <2>2. b # a
    BY <1>1, <1>2, <2>1, HolderAt
  <2> QED BY <1>2, <2>1, <2>2
<1>11. WritersWait'
  <2> SUFFICES ASSUME NEW b \in waiting, b # a
               PROVE  /\ rest'[b] # << >> /\ Head(rest'[b]).do = "lock"
                      /\ Head(rest'[b]).on = "s"
    BY <1>1 DEF WritersWait, At, On, Resting
  <2>1. /\ b \in Activities /\ rest[b] # << >>
        /\ Head(rest[b]).do = "lock" /\ Head(rest[b]).on = "s"
    BY <1>4 DEF Inv, WritersWait, At, On, Resting
  <2>2. rest'[b] = rest[b]
    BY <1>2, <2>1
  <2> QED BY <2>1, <2>2
<1>12. TypeOK'
  BY <1>2, <1>5, <1>6 DEF TypeOK, LocksTyped, OthersTyped
<1> QED BY <1>2, <1>9, <1>10, <1>11, <1>12 DEF Inv

\* A mutex is unlocked.
LEMMA UnlocksStep ==
    ASSUME Inv, NEW a \in Activities, Unlocks(a)
    PROVE  Inv'
<1> DEFINE m == On(a)
<1>1. /\ ~Resting(a) /\ Head(rest[a]).do = "unlock" /\ Head(rest[a]).on = m
      /\ GoesOn(a) /\ owner' = [owner EXCEPT ![m] = Nobody]
      /\ waiting' = waiting /\ readers' = readers
      /\ closing' = closing /\ stalled' = stalled /\ feed' = feed /\ copied' = copied
      /\ cancelled' = cancelled
  BY DEF Unlocks, At, On, log
<1>2. /\ rest' \in [Activities -> Seq(Step)] /\ RestSound'
      /\ rest[a] \in Seq(Step) /\ rest[a] # << >> /\ rest'[a] = Tail(rest[a])
      /\ \A b \in Activities : b # a => rest'[b] = rest[b]
  BY <1>1, GoesOnFacts
<1> HIDE DEF m
<1>3. /\ LocksTyped /\ OthersTyped
      /\ readers \subseteq Activities /\ waiting \subseteq Activities
  BY TypeParts DEF Inv, LocksTyped
<1>4. LocksTyped'
  <2>1. owner' \in [Mutexes -> Activities \cup {Nobody, Panicked}]
    BY <1>1, <1>3 DEF LocksTyped
  <2>2. "s" \in Mutexes
    BY DEF Mutexes
  <2>3. owner["s"] = Nobody => owner'["s"] = Nobody
    BY <1>1, <1>3, <2>2 DEF LocksTyped
  <2> QED BY <1>1, <1>3, <2>1, <2>3 DEF LocksTyped
<1>5. TypeOK'
  BY <1>1, <1>2, <1>3, <1>4 DEF TypeOK, LocksTyped, OthersTyped
<1>6. OwnersUnlock'
  <2> SUFFICES ASSUME NEW n \in Mutexes, NEW b \in Activities, owner'[n] = b
               PROVE  Unlocked(rest'[b], 0, n)
    BY DEF OwnersUnlock
  <2>1. owner[n] = b /\ n # m
    BY <1>1, <1>3, ServiceLocksAssumption DEF LocksTyped
  <2>2. Unlocked(rest[b], 0, n)
    BY <2>1 DEF Inv, OwnersUnlock
  <2>3. b # a
    BY <1>1, <1>2, <2>1, <2>2, HolderAt DEF Calm
  <2> QED BY <1>2, <2>2, <2>3
<1>7. ReadersUnlock'
  <2> SUFFICES ASSUME NEW b \in readers
               PROVE  ReadUnlocked(rest'[b], 0)
    BY <1>1 DEF ReadersUnlock
  <2>1. ReadUnlocked(rest[b], 0) /\ b \in Activities
    BY <1>3 DEF Inv, ReadersUnlock
  <2>2. b # a
    BY <1>1, <1>2, <2>1, HolderAt
  <2> QED BY <1>2, <2>1, <2>2
<1>8. WritersWait'
  <2> SUFFICES ASSUME NEW b \in waiting
               PROVE  /\ rest'[b] # << >> /\ Head(rest'[b]).do = "lock"
                      /\ Head(rest'[b]).on = "s"
    BY <1>1 DEF WritersWait, At, On, Resting
  <2>1. /\ b \in Activities /\ rest[b] # << >>
        /\ Head(rest[b]).do = "lock" /\ Head(rest[b]).on = "s"
    BY <1>3 DEF Inv, WritersWait, At, On, Resting
  <2>2. b # a
    BY <1>1, <2>1
  <2>3. rest'[b] = rest[b]
    BY <1>2, <2>1, <2>2
  <2> QED BY <2>1, <2>3
<1> QED BY <1>2, <1>5, <1>6, <1>7, <1>8 DEF Inv

\* Reading under s.mu begins, and ends.
LEMMA ReadStep ==
    ASSUME Inv, NEW a \in Activities, RLocks(a) \/ RUnlocks(a)
    PROVE  Inv'
<1>1. /\ ~Resting(a) /\ GoesOn(a)
      /\ \/ /\ Head(rest[a]).do = "rlock" /\ owner["s"] = Nobody
            /\ readers' = readers \cup {a}
         \/ Head(rest[a]).do = "runlock" /\ readers' = readers \ {a}
      /\ owner' = owner /\ waiting' = waiting
      /\ closing' = closing /\ stalled' = stalled /\ feed' = feed /\ copied' = copied
      /\ cancelled' = cancelled
  BY DEF RLocks, RUnlocks, At, Readable, log
<1>2. /\ rest' \in [Activities -> Seq(Step)] /\ RestSound'
      /\ rest[a] \in Seq(Step) /\ rest[a] # << >> /\ rest'[a] = Tail(rest[a])
      /\ \A b \in Activities : b # a => rest'[b] = rest[b]
  BY <1>1, GoesOnFacts
<1>3. /\ LocksTyped /\ OthersTyped
      /\ readers \subseteq Activities /\ waiting \subseteq Activities
  BY TypeParts DEF Inv, LocksTyped
<1>4. LocksTyped'
  BY <1>1, <1>3 DEF LocksTyped
<1>5. TypeOK'
  BY <1>1, <1>2, <1>3, <1>4 DEF TypeOK, LocksTyped, OthersTyped
<1>6. OwnersUnlock'
  <2> SUFFICES ASSUME NEW n \in Mutexes, NEW b \in Activities, owner[n] = b
               PROVE  Unlocked(rest'[b], 0, n)
    BY <1>1 DEF OwnersUnlock
  <2>1. Unlocked(rest[b], 0, n)
    BY DEF Inv, OwnersUnlock
  <2>2. b # a
    BY <1>1, <1>2, <2>1, HolderAt DEF Calm
  <2> QED BY <1>2, <2>1, <2>2
<1>7. ReadersUnlock'
  <2> SUFFICES ASSUME NEW b \in readers'
               PROVE  ReadUnlocked(rest'[b], 0)
    BY DEF ReadersUnlock
  <2>1. CASE b = a
    <3>1. Head(rest[a]).do = "rlock"
      BY <1>1, <2>1
    <3>2. Sound(rest[a]) /\ 1 \in 1..Len(rest[a]) /\ Head(rest[a]) = rest[a][1]
      BY <1>2, TailFacts, EmptySeq DEF Inv, RestSound
    <3>3. ReadUnlocked(rest[a], 1)
      BY <3>1, <3>2 DEF Sound
    <3> QED BY <1>2, <2>1, <3>3, TailFacts
  <2>2. CASE b # a
    <3>1. b \in readers
      BY <1>1, <2>2
    <3>2. ReadUnlocked(rest[b], 0) /\ b \in Activities
      BY <1>3, <3>1 DEF Inv, ReadersUnlock
    <3> QED BY <1>2, <2>2, <3>2
  <2> QED BY <2>1, <2>2
<1>8. WritersWait'
  <2> SUFFICES ASSUME NEW b \in waiting
               PROVE  /\ rest'[b] # << >> /\ Head(rest'[b]).do = "lock"
                      /\ Head(rest'[b]).on = "s"
    BY <1>1 DEF WritersWait, At, On, Resting
  <2>1. /\ b \in Activities /\ rest[b] # << >>
        /\ Head(rest[b]).do = "lock" /\ Head(rest[b]).on = "s"
    BY <1>3 DEF Inv, WritersWait, At, On, Resting
  <2>2. b # a
    BY <1>1, <2>1
  <2>3. rest'[b] = rest[b]
    BY <1>2, <2>1, <2>2
  <2> QED BY <2>1, <2>3
<1> QED BY <1>2, <1>5, <1>6, <1>7, <1>8 DEF Inv

\* A panic under s.mu: nobody has the mutex any more, and nobody gets it.
LEMMA PanicsStep ==
    ASSUME Inv, NEW a \in Activities, Panics(a)
    PROVE  Inv'
<1>1. /\ rest[a] # << >> /\ Head(rest[a]).do = "send"
      /\ rest' = [rest EXCEPT ![a] = << >>]
      /\ owner' = [m \in Mutexes |-> IF owner[m] = a THEN Panicked ELSE owner[m]]
      /\ copied' = copied \ {a} /\ readers' = readers /\ waiting' = waiting
      /\ closing' = closing /\ stalled' = stalled /\ feed' = feed /\ cancelled' = cancelled
  BY DEF Panics, At, Resting
<1>2. /\ rest \in [Activities -> Seq(Step)] /\ LocksTyped /\ OthersTyped
      /\ readers \subseteq Activities /\ waiting \subseteq Activities
  BY TypeParts DEF Inv, LocksTyped
<1>3. << >> \in Seq(Step) /\ Sound(<< >>) /\ Free(<< >>)
  BY NoStep DEF FreeOps, SoundOps
<1>4. /\ rest' \in [Activities -> Seq(Step)] /\ rest'[a] = << >> /\ rest[a] \in Seq(Step)
      /\ \A b \in Activities : b # a => rest'[b] = rest[b]
  BY <1>1, <1>2, <1>3
<1>5. RestSound'
  BY <1>3, <1>4 DEF Inv, RestSound
<1>6. \A m \in Mutexes : owner[m] = a => m # "s" \/ readers = {}
  BY <1>2, ServiceLocksAssumption DEF LocksTyped
<1>7. LocksTyped'
  <2>1. owner' \in [Mutexes -> Activities \cup {Nobody, Panicked}]
    BY <1>1, <1>2 DEF LocksTyped
  <2>2. readers # {} => owner'["s"] = Nobody
    <3>1. "s" \in Mutexes
      BY DEF Mutexes
    <3> QED BY <1>1, <1>2, <1>6, <3>1 DEF LocksTyped
  <2> QED BY <1>1, <1>2, <2>1, <2>2 DEF LocksTyped
<1>8. TypeOK'
  BY <1>1, <1>2, <1>4, <1>7 DEF TypeOK, LocksTyped, OthersTyped
<1>9. OwnersUnlock'
  <2> SUFFICES ASSUME NEW n \in Mutexes, NEW b \in Activities, owner'[n] = b
               PROVE  Unlocked(rest'[b], 0, n)
    BY DEF OwnersUnlock
  <2>1. owner[n] = b /\ b # a
    BY <1>1, <1>2, ServiceLocksAssumption DEF LocksTyped
  <2> QED BY <1>4, <2>1 DEF Inv, OwnersUnlock
<1>10. ReadersUnlock'
  <2> SUFFICES ASSUME NEW b \in readers
               PROVE  ReadUnlocked(rest'[b], 0)
    BY <1>1 DEF ReadersUnlock
  <2>1. ReadUnlocked(rest[b], 0) /\ b \in Activities
    BY <1>2 DEF Inv, ReadersUnlock
  <2>2. b # a
    BY <1>1, <1>4, <2>1, HolderAt
  <2> QED BY <1>4, <2>1, <2>2
<1>11. WritersWait'
  <2> SUFFICES ASSUME NEW b \in waiting
               PROVE  /\ rest'[b] # << >> /\ Head(rest'[b]).do = "lock"
                      /\ Head(rest'[b]).on = "s"
    BY <1>1 DEF WritersWait, At, On, Resting
  <2>1. /\ b \in Activities /\ rest[b] # << >>
        /\ Head(rest[b]).do = "lock" /\ Head(rest[b]).on = "s"
    BY <1>2 DEF Inv, WritersWait, At, On, Resting
  <2>2. b # a
    BY <1>1, <2>1
  <2>3. rest'[b] = rest[b]
    BY <1>4, <2>1, <2>2
  <2> QED BY <2>1, <2>3
<1> QED BY <1>5, <1>8, <1>9, <1>10, <1>11 DEF Inv

\* A writer announces itself; a browser stops reading; nothing happens.
LEMMA QuietStep ==
    ASSUME Inv, UNCHANGED rest, UNCHANGED owner, UNCHANGED readers, OthersTyped',
           waiting' \subseteq Activities,
           \A b \in waiting' \ waiting : At(b, "lock") /\ On(b) = "s"
    PROVE  Inv'
<1>1. rest \in [Activities -> Seq(Step)] /\ LocksTyped
  BY TypeParts DEF Inv
<1>2. TypeOK'
  BY <1>1 DEF TypeOK, LocksTyped, OthersTyped
<1>3. RestSound' /\ OwnersUnlock' /\ ReadersUnlock'
  BY DEF Inv, RestSound, OwnersUnlock, ReadersUnlock
<1>4. WritersWait'
  BY DEF Inv, WritersWait, At, On, Resting
<1> QED BY <1>2, <1>3, <1>4 DEF Inv

\* Each action keeps the inductive invariant: the lemmas above, put together.
LEMMA InvStep == Inv /\ [Next]_vars => Inv'
<1> SUFFICES ASSUME Inv, [Next]_vars PROVE Inv'
  OBVIOUS
<1>1. OthersTyped /\ waiting \subseteq Activities
  BY TypeParts DEF Inv, LocksTyped
<1>2. CASE Stall
  <2>1. OthersTyped'
    BY <1>1, <1>2 DEF Stall, log, OthersTyped
  <2> QED BY <1>1, <1>2, <2>1, QuietStep DEF Stall, locks
<1>3. ASSUME NEW a \in Activities, Announces(a)
      PROVE  Inv'
  <2>1. OthersTyped'
    BY <1>1, <1>3 DEF Announces, log, OthersTyped
  <2>2. waiting' \subseteq Activities /\ \A b \in waiting' \ waiting : At(b, "lock") /\ On(b) = "s"
    BY <1>1, <1>3 DEF Announces
  <2> QED BY <1>3, <2>1, <2>2, QuietStep DEF Announces
<1>4. ASSUME NEW a \in Activities,
             \/ Looks(a) \/ VisitsIt(a) \/ Answered(a) \/ Writes(a) \/ Joins(a)
      PROVE  Inv'
  <2>1. OthersTyped'
    BY <1>1, <1>4 DEF Looks, VisitsIt, Answered, Writes, Joins, log, OthersTyped
  <2>2. /\ ~Resting(a) /\ GoesOn(a) /\ UNCHANGED locks
        /\ Head(rest[a]).do \in {"look", "visit", "network", "write", "join"}
    BY <1>4 DEF Looks, VisitsIt, Answered, Writes, Joins, At
  <2> QED BY <2>1, <2>2, PlainStep
<1>5. ASSUME NEW a \in Activities, Closes(a)
      PROVE  Inv'
  <2>1. /\ ~Resting(a) /\ GoesOn(a) /\ UNCHANGED locks /\ Head(rest[a]).do = "close"
        /\ closing' = closing \cup {Head(rest[a]).on}
        /\ UNCHANGED <<stalled, log, cancelled>>
    BY <1>5 DEF Closes, At, On
  <2>2. rest[a] \in Seq(Step) /\ rest[a] # << >> /\ Sound(rest[a])
    BY <2>1, GoesOnFacts DEF Inv, RestSound
  <2>3. Head(rest[a]) = rest[a][1] /\ 1 \in 1..Len(rest[a])
    BY <2>2, TailFacts, EmptySeq
  <2>4. Head(rest[a]).on \in Channels \cup {"phone"}
    BY <2>1, <2>2, <2>3 DEF Sound
  <2>5. OthersTyped'
    BY <1>1, <2>1, <2>4 DEF log, OthersTyped
  <2> QED BY <2>1, <2>5, PlainStep
<1>6. ASSUME NEW a \in Activities, Ends(a), ~Panics(a)
      PROVE  Inv'
  <2>1. OthersTyped'
    BY <1>1, <1>6
    DEF Ends, Logs, Sends, Removes, ClosesFeed, Cancels, WorkersDone, log, OthersTyped
  <2>2. /\ ~Resting(a) /\ GoesOn(a) /\ UNCHANGED locks
        /\ Head(rest[a]).do \in {"log", "send", "remove", "closefeed", "cancel", "workers"}
    BY <1>6 DEF Ends, Logs, Sends, Removes, ClosesFeed, Cancels, WorkersDone, At
  <2> QED BY <2>1, <2>2, PlainStep
<1>7. CASE UNCHANGED vars
  <2>1. OthersTyped'
    BY <1>1, <1>7 DEF vars, log, OthersTyped
  <2> QED BY <1>1, <1>7, <2>1, QuietStep DEF vars, locks
<1> QED
  BY <1>2, <1>3, <1>4, <1>5, <1>6, <1>7, BeginStep, LocksStep, UnlocksStep, ReadStep, PanicsStep
  DEF Next, Goes, Ends

\* The inductive invariant holds in every reachable state.
LEMMA Invariance == Spec => []Inv
BY InvInit, InvStep, PTL DEF Spec

-----------------------------------------------------------------------------
(* The theorems.                                                           *)

\* Every variable stays within its type, and s.mu is never locked while somebody
\* reads under it.
THEOREM TypeCorrect == Spec => []TypeOK
<1>1. Inv => TypeOK
  BY DEF Inv
<1> QED BY <1>1, Invariance, PTL

\* For whom an activity waits, by the step it is at.
LEMMA Waits ==
    ASSUME NEW a \in Activities
    PROVE  /\ WaitsFor(a) # {} =>
                /\ ~Resting(a)
                /\ Head(rest[a]).do \in {"look", "rlock", "lock", "visit", "join", "workers"}
           /\ At(a, "look") \/ At(a, "rlock") =>
                WaitsFor(a) = ({owner["s"]} \cup waiting) \ {Nobody}
           /\ At(a, "lock") /\ On(a) = "s" =>
                WaitsFor(a) = ({owner["s"]} \cup readers) \ {Nobody}
           /\ At(a, "lock") /\ On(a) # "s" => WaitsFor(a) = {owner[On(a)]} \ {Nobody}
           /\ At(a, "visit") => WaitsFor(a) = {owner[On(a)]} \ {Nobody}
           /\ At(a, "join") => WaitsFor(a) = {l \in Loops(On(a)) : ~Resting(l)}
           /\ At(a, "workers") => WaitsFor(a) = {w \in Workers : ~Resting(w)}
BY DEF WaitsFor, At

\* No set of waiting activities is closed under waiting: those who wait for a mutex
\* other than s.mu wait for none of it, then no writer of s.mu does, no reader, and
\* at last no close and no shutdown.
LEMMA NobodyInACircle == Inv => NoCircularWait
<1> SUFFICES ASSUME Inv, NEW S \in SUBSET {a \in Activities : WaitsFor(a) # {}},
                    \A a \in S : WaitsFor(a) \cap S # {}
             PROVE  S = {}
  BY DEF NoCircularWait
<1>1. \A a \in S : /\ a \in Activities /\ WaitsFor(a) # {} /\ ~Resting(a)
                   /\ Head(rest[a]).do \in {"look", "rlock", "lock", "visit", "join", "workers"}
                   /\ rest[a] \in Seq(Step) /\ Head(rest[a]) \in Step
  <2> SUFFICES ASSUME NEW a \in S
               PROVE  /\ a \in Activities /\ WaitsFor(a) # {} /\ ~Resting(a)
                      /\ Head(rest[a]).do
                           \in {"look", "rlock", "lock", "visit", "join", "workers"}
                      /\ rest[a] \in Seq(Step) /\ Head(rest[a]) \in Step
    OBVIOUS
  <2>1. a \in Activities /\ WaitsFor(a) # {}
    OBVIOUS
  <2>2. ~Resting(a) /\ Head(rest[a]).do \in {"look", "rlock", "lock", "visit", "join", "workers"}
    BY <2>1, Waits
  <2>3. rest[a] \in Seq(Step) /\ rest[a] # << >>
    BY <2>1, <2>2 DEF Inv, TypeOK, Resting
  <2> QED BY <2>1, <2>2, <2>3, TailFacts
<1>2. \A m \in Mutexes : owner[m] \notin S
  <2> SUFFICES ASSUME NEW m \in Mutexes, owner[m] \in S
               PROVE  FALSE
    OBVIOUS
  <2>1. Unlocked(rest[owner[m]], 0, m)
    BY <1>1 DEF Inv, OwnersUnlock
  <2> QED BY <1>1, <2>1, HolderAt DEF Calm
<1>3. \A a \in S : On(a) \in Mutexes
  BY <1>1 DEF Step, On
<1>4. \A a \in S : Head(rest[a]).do # "visit" /\ (Head(rest[a]).do = "lock" => On(a) = "s")
  <2> SUFFICES ASSUME NEW a \in S, Head(rest[a]).do = "visit"
                                   \/ (Head(rest[a]).do = "lock" /\ On(a) # "s")
               PROVE  FALSE
    OBVIOUS
  <2>1. WaitsFor(a) = {owner[On(a)]} \ {Nobody}
    BY <1>1, Waits DEF At
  <2> QED BY <1>2, <1>3, <2>1
<1>5. "s" \in Mutexes
  BY DEF Mutexes
<1>6. \A a \in S : Head(rest[a]).do # "lock"
  <2> SUFFICES ASSUME NEW a \in S, Head(rest[a]).do = "lock"
               PROVE  FALSE
    OBVIOUS
  <2>1. WaitsFor(a) = ({owner["s"]} \cup readers) \ {Nobody}
    BY <1>1, <1>4, Waits DEF At
  <2>2. PICK b \in readers : b \in S
    BY <1>2, <1>5, <2>1
  <2>3. ReadUnlocked(rest[b], 0)
    BY DEF Inv, ReadersUnlock
  <2> QED BY <1>1, <1>4, <2>2, <2>3, HolderAt
<1>7. \A a \in S : Head(rest[a]).do \notin {"look", "rlock"}
  <2> SUFFICES ASSUME NEW a \in S, Head(rest[a]).do \in {"look", "rlock"}
               PROVE  FALSE
    OBVIOUS
  <2>1. WaitsFor(a) = ({owner["s"]} \cup waiting) \ {Nobody}
    BY <1>1, Waits DEF At
  <2>2. PICK b \in waiting : b \in S
    BY <1>2, <1>5, <2>1
  <2>3. Head(rest[b]).do = "lock"
    BY DEF Inv, WritersWait, At
  <2> QED BY <1>6, <2>2, <2>3
<1>8. \A a \in S : a \notin Awaited
  <2> SUFFICES ASSUME NEW a \in S, a \in Awaited
               PROVE  FALSE
    OBVIOUS
  <2>1. Free(rest[a]) /\ rest[a] # << >> /\ rest[a] \in Seq(Step)
    BY <1>1 DEF Inv, RestSound, Resting
  <2>2. Head(rest[a]) = rest[a][1] /\ 1 \in 1..Len(rest[a])
    BY <2>1, TailFacts, EmptySeq
  <2>3. Head(rest[a]).do \notin {"join", "workers"}
    BY <2>1, <2>2 DEF Free
  <2> QED BY <1>1, <1>4, <1>6, <1>7, <2>3
<1>9. ASSUME NEW a \in S
      PROVE  FALSE
  <2>1. At(a, "join") \/ At(a, "workers")
    BY <1>1, <1>4, <1>6, <1>7 DEF At
  <2>2. WaitsFor(a) \subseteq Awaited
    <3>1. Loops(On(a)) \subseteq Awaited /\ Workers \subseteq Awaited
      BY DEF Loops, Workers, Awaited
    <3> QED BY <1>1, <2>1, <3>1, Waits
  <2> QED BY <1>8, <2>2
<1> QED BY <1>9

\* No deadlock, for any number of channels and of goroutines: at no time do some of
\* them wait in a circle, for the mutexes of service.go and web.go, for the loops of
\* an RTP session that is closed, or for the background workers, although a poll
\* keeps s.mu while it waits for a channel and the callbacks of the loops take the
\* mutexes that a close was called under.
THEOREM NoDeadlock == Spec => []NoCircularWait
BY Invariance, NobodyInACircle, PTL
=============================================================================
