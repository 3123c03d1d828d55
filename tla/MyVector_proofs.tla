-------------------------- MODULE MyVector_proofs --------------------------
(* What holds of MyVector for any number of vectors, any values and any        *)
(* capacities: who owns a buffer, where objects live, what can be undefined    *)
(* and why, and that a defined call does what std::vector's would.             *)
EXTENDS MyVector, FiniteSetTheorems, SequenceTheorems, TLAPS

From == {"none", "null", "op", "arr", "gone"}
Kinds == {"none", "dead", "raw", "oob", "freed", "mismatch"}
Buffers == [data : [id : Nat, from : From], slots : Seq(Values \cup {Raw}), size : Nat]

\* A vector whose size is within its capacity, which no vector does not have.
Sound(v) == /\ v \in Buffers /\ v.size <= Cap(v)
            /\ v.data.from = "none" => Cap(v) = 0
Exact(v) == \A k \in 1..Cap(v) : (v.slots[k] # Raw) <=> k <= v.size

\* An array of new T[], or nullptr with a capacity.
Copied(v) == v.data.from = "arr" \/ Lost(v)

\* The inductive invariant.  The last conjunct is what makes deallocate and
\* an append safe: only the copy assignment leaves an array, or nullptr with a
\* capacity.
VectorInv ==
  /\ OneOwner
  /\ vec \in [Vecs -> Buffers]
  /\ LivesExact
  /\ \A i \in Vecs : Copied(vec[i]) => assigned

USE VectorAssumption

-----------------------------------------------------------------------------
(* The parts operations are made of *)

\* What TypeOK says, vector by vector.
LEMMA SoundVectors ==
  TypeOK /\ vec \in [Vecs -> Buffers] <=>
    /\ vec \in [Vecs -> Buffers]
    /\ trivial \in BOOLEAN /\ popped \in BOOLEAN /\ assigned \in BOOLEAN
    /\ fault \in Kinds
    /\ \A i \in Vecs : Sound(vec[i])
<1>1. \A v \in Buffers : v.size \in 0..Cap(v) <=> v.size <= Cap(v)
  BY DEF Buffers, Cap
<1>2. ASSUME vec \in [Vecs -> Buffers] PROVE \A i \in Vecs : vec[i] \in Buffers
  BY <1>2
<1> QED
  BY <1>1, <1>2 DEF TypeOK, Sound, Exists, Kinds, From, Buffers

\* There is always an address no other vector has: operator new's (myvector.cpp:167-170).
LEMMA FreshId ==
  ASSUME vec \in [Vecs -> Buffers], NEW i \in Vecs
  PROVE  /\ NewId(i) \in Nat \ {0}
         /\ \A j \in Vecs \ {i} : vec[j].data.id # NewId(i)
<1> DEFINE N == Cardinality(Vecs)
           id(n) == \A j \in Vecs \ {i} : vec[j].data.id # n
<1>1. N \in Nat \ {0} /\ IsFiniteSet(Vecs \ {i}) /\ Cardinality(Vecs \ {i}) = N - 1
  <2>1. N \in Nat
    BY FS_CardinalityType
  <2>2. N # 0
    BY FS_EmptySet
  <2> QED
    BY <2>1, <2>2, FS_RemoveElement
<1>2. \E n \in 1..N : id(n)
  <2>1. SUFFICES ASSUME \A n \in 1..N : ~id(n) PROVE FALSE
    OBVIOUS
  <2> DEFINE f == [n \in 1..N |-> CHOOSE j \in Vecs \ {i} : vec[j].data.id = n]
  <2>2. \A n \in 1..N : f[n] \in Vecs \ {i} /\ vec[f[n]].data.id = n
    BY <2>1
  <2>3. f \in [1..N -> Vecs \ {i}]
    BY <2>2
  <2>4. IsFiniteSet(1..N) /\ Cardinality(1..N) = N
    <3>1. N \in Nat
      BY <1>1
    <3> HIDE DEF N
    <3>2. IsFiniteSet(1..N) /\ Cardinality(1..N) = IF 1 > N THEN 0 ELSE N - 1 + 1
      BY <3>1, FS_Interval
    <3> QED
      BY <3>1, <3>2
  <2> HIDE DEF f, N
  <2>5. \E x, y \in 1..N : x # y /\ f[x] = f[y]
    BY <1>1, <2>3, <2>4, FS_PigeonHole
  <2> QED
    BY <2>2, <2>5
<1>3. NewId(i) \in 1..N /\ id(NewId(i))
  BY <1>2 DEF NewId
<1> QED
  BY <1>1, <1>3

\* Numbers above size_ can be forgotten.
LEMMA SettledSound ==
  ASSUME NEW v, Sound(v), trivial \in BOOLEAN
  PROVE  /\ Sound(Settled(v))
         /\ Settled(v).data = v.data /\ Settled(v).size = v.size
         /\ Cap(Settled(v)) = Cap(v)
         /\ ~trivial => Settled(v) = v
         /\ \A k \in 1..v.size : Settled(v).slots[k] = v.slots[k]
<1> DEFINE s == [k \in 1..Cap(v) |-> IF k > v.size THEN Raw ELSE v.slots[k]]
<1>1. v.slots \in Seq(Values \cup {Raw}) /\ Cap(v) \in Nat
  BY DEF Sound, Buffers, Cap
<1>2. s \in Seq(Values \cup {Raw}) /\ Len(s) = Cap(v)
  BY <1>1 DEF Cap
<1> HIDE DEF s
<1>3. Settled(v) = IF ~trivial THEN v ELSE [v EXCEPT !.slots = s]
  BY DEF Settled, s
<1>4. v.size \in Nat /\ v.size <= Cap(v) /\ v \in Buffers
  BY DEF Sound, Buffers
<1>5. \A k \in 1..v.size : s[k] = v.slots[k]
  BY <1>1, <1>4 DEF s
<1> QED
  BY <1>1, <1>2, <1>3, <1>4, <1>5 DEF Sound, Buffers, Cap

Emptied(d, v, a, b) ==
  \A k \in 1..Cap(v) : d.slots[k] = IF k \in a..b THEN Raw ELSE v.slots[k]

\* Objects are destroyed in place (:116, :126, :131).
LEMMA DestroyedSound ==
  ASSUME NEW v, Sound(v), NEW a \in Int, NEW b \in Int
  PROVE  /\ Sound(Destroyed(v, a, b))
         /\ Destroyed(v, a, b).data = v.data /\ Destroyed(v, a, b).size = v.size
         /\ Cap(Destroyed(v, a, b)) = Cap(v)
         /\ ~trivial => Emptied(Destroyed(v, a, b), v, a, b)
<1> DEFINE s == [k \in 1..Cap(v) |-> IF k \in a..b THEN Raw ELSE v.slots[k]]
<1>1. v.slots \in Seq(Values \cup {Raw}) /\ Cap(v) \in Nat
  BY DEF Sound, Buffers, Cap
<1>2. s \in Seq(Values \cup {Raw}) /\ Len(s) = Cap(v)
  BY <1>1 DEF Cap
<1>3. \A k \in 1..Cap(v) : s[k] = IF k \in a..b THEN Raw ELSE v.slots[k]
  OBVIOUS
<1> HIDE DEF s
<1>4. Destroyed(v, a, b) = IF trivial THEN v ELSE [v EXCEPT !.slots = s]
  BY DEF Destroyed, s
<1> QED
  BY <1>1, <1>2, <1>3, <1>4 DEF Sound, Buffers, Cap, Emptied

\* 1.5 times a capacity of 1 is 1, and one is added (:185-187).
LEMMA Grows ==
  ASSUME NEW v, Sound(v)
  PROVE  Growth(v) \in Nat /\ Growth(v) > Cap(v)
<1>1. Cap(v) \in Nat
  BY DEF Sound, Buffers, Cap
<1>2. ASSUME NEW c \in Nat
      PROVE  LET n == IF c = 0 THEN 1 ELSE (3 * c) \div 2
                 g == IF n <= c THEN c + 1 ELSE n
             IN  g \in Nat /\ g > c
  <2>1. (3 * c) \div 2 \in Int
    OBVIOUS
  <2> QED
    BY <2>1
<1> QED
  BY <1>1, <1>2 DEF Growth

\* What reallocate makes (:183-204).
LEMMA ReallocateSound ==
  ASSUME vec \in [Vecs -> Buffers], NEW i \in Vecs, Sound(vec[i]),
         NEW n \in Nat, n = 0 \/ n >= vec[i].size
  PROVE  LET v == reallocate(i, n)
             c == IF n = 0 THEN Growth(vec[i]) ELSE n
         IN  /\ Sound(v) /\ v.size = vec[i].size /\ Cap(v) = c
             /\ v.data = [id |-> NewId(i), from |-> "op"]
             /\ \A k \in 1..c : v.slots[k] = IF k <= v.size THEN vec[i].slots[k] ELSE Raw
<1> DEFINE c == IF n = 0 THEN Growth(vec[i]) ELSE n
           s == [k \in 1..c |-> IF k <= vec[i].size THEN vec[i].slots[k] ELSE Raw]
<1>1. /\ vec[i].slots \in Seq(Values \cup {Raw}) /\ Cap(vec[i]) \in Nat
      /\ vec[i].size \in Nat /\ vec[i].size <= Cap(vec[i])
  BY DEF Sound, Buffers, Cap
<1>2. c \in Nat \ {0} /\ c >= vec[i].size
  BY <1>1, Grows
<1> HIDE DEF c
<1>3. s \in Seq(Values \cup {Raw}) /\ Len(s) = c
  BY <1>1, <1>2 DEF Cap
<1>4. \A k \in 1..c : s[k] = IF k <= vec[i].size THEN vec[i].slots[k] ELSE Raw
  OBVIOUS
<1> HIDE DEF s
<1>5. reallocate(i, n) = [data |-> allocate(i, c), size |-> vec[i].size, slots |-> s]
  BY DEF reallocate, s, c
<1>6. allocate(i, c) = [id |-> NewId(i), from |-> "op"]
  BY <1>2 DEF allocate
<1>7. NewId(i) \in Nat
  BY FreshId
<1>8. Sound(reallocate(i, n))
  BY <1>1, <1>2, <1>3, <1>5, <1>6, <1>7 DEF Sound, Buffers, Cap, From
<1> QED
  BY <1>1, <1>3, <1>4, <1>5, <1>6, <1>8 DEF Cap, c

\* What the invariant says of each vector.
LEMMA Vectors ==
  ASSUME VectorInv, NEW i \in Vecs
  PROVE  /\ Sound(vec[i]) /\ vec[i] \in Buffers
         /\ vec[i].slots \in Seq(Values \cup {Raw}) /\ Cap(vec[i]) \in Nat
         /\ vec[i].size \in Nat /\ vec[i].size <= Cap(vec[i])
         /\ fault = "none" /\ ~trivial /\ ~popped /\ ~assigned => Exact(vec[i])
         /\ Copied(vec[i]) => assigned
         /\ \A j \in Vecs \ {i} : vec[j].data.id = vec[i].data.id => vec[i].data.id = 0
<1>1. vec \in [Vecs -> Buffers] /\ Sound(vec[i])
  BY SoundVectors DEF VectorInv, OneOwner
<1>2. vec[i] \in Buffers
  BY <1>1
<1>3. /\ vec[i].slots \in Seq(Values \cup {Raw}) /\ Cap(vec[i]) \in Nat
      /\ vec[i].size \in Nat /\ vec[i].size <= Cap(vec[i])
  BY <1>1, <1>2 DEF Sound, Buffers, Cap
<1>4. fault = "none" /\ ~trivial /\ ~popped /\ ~assigned => Exact(vec[i])
  BY DEF VectorInv, LivesExact, Exact
<1>5. \A j \in Vecs \ {i} : vec[j].data.id = vec[i].data.id => vec[i].data.id = 0
  BY DEF VectorInv, OneOwner
<1> QED
  BY <1>1, <1>2, <1>3, <1>4, <1>5 DEF VectorInv

\* The history is not forgotten.
Remembers == popped' \in {TRUE, popped} /\ assigned' \in {TRUE, assigned}

\* An operation on vector i that leaves v in its place keeps the invariant if
\* v is sound, has the buffer of i, a new one or none, and holds what it should.
LEMMA DoKeeps ==
  ASSUME VectorInv, fault = "none", NEW i \in Vecs, NEW v, NEW f \in Kinds,
         Do(i, v, f), Remembers,
         f = "none" => Sound(v) /\ v.data.id \in {0, vec[i].data.id, NewId(i)},
         f = "none" /\ Copied(v) => assigned',
         f = "none" /\ ~trivial /\ ~popped' /\ ~assigned' => Exact(v)
  PROVE  VectorInv'
<1>t. vec \in [Vecs -> Buffers] /\ trivial \in BOOLEAN /\ popped \in BOOLEAN
      /\ assigned \in BOOLEAN /\ \A j \in Vecs : Sound(vec[j])
  BY SoundVectors DEF VectorInv, OneOwner
<1>h. trivial' \in BOOLEAN /\ popped' \in BOOLEAN /\ assigned' \in BOOLEAN
      /\ fault' = f /\ trivial' = trivial /\ (assigned => assigned')
      /\ (~popped' => ~popped) /\ (~assigned' => ~assigned)
  BY <1>t DEF Do, Remembers
<1>1. CASE f # "none"
  <2>1. vec' = vec /\ fault' = f
    BY <1>1 DEF Do
  <2>2. TypeOK'
    BY <1>t, <1>h, <2>1, SoundVectors DEF VectorInv, OneOwner, TypeOK, Exists, Kinds, Cap
  <2> QED
    BY <1>1, <1>h, <2>1, <2>2 DEF VectorInv, OneOwner, LivesExact, Copied, Lost, Cap
<1>2. CASE f = "none"
  <2>1. vec' = [vec EXCEPT ![i] = Settled(v)]
    BY <1>2 DEF Do
  <2>2. /\ Sound(Settled(v)) /\ Settled(v).data = v.data
        /\ ~trivial => Settled(v) = v
        /\ Cap(Settled(v)) = Cap(v)
    BY <1>2, <1>t, SettledSound
  <2> DEFINE s == Settled(v)
  <2>3. /\ Sound(s) /\ s \in Buffers /\ s.data = v.data /\ (~trivial => s = v)
        /\ (Copied(s) => Copied(v))
    BY <2>2 DEF Sound, Copied, Lost
  <2> HIDE DEF s
  <2>4. vec' \in [Vecs -> Buffers] /\ vec'[i] = s /\ \A j \in Vecs \ {i} : vec'[j] = vec[j]
    BY <2>1, <2>3, <1>t DEF s
  <2>5. \A j \in Vecs : Sound(vec'[j])
    BY <2>3, <2>4, <1>t
  <2>6. TypeOK'
    BY <2>4, <2>5, <1>h DEF TypeOK, Sound, Exists, Kinds, Buffers, From, Cap
  <2>7. \A j \in Vecs \ {i} : vec[j].data.id = s.data.id => s.data.id = 0
    BY <1>2, <2>3, <1>t, FreshId DEF VectorInv, OneOwner
  <2>8. OneOwner'
    BY <2>4, <2>6, <2>7 DEF VectorInv, OneOwner
  <2>9. ~trivial /\ ~popped' /\ ~assigned' => \A j \in Vecs : Exact(vec'[j])
    BY <1>2, <1>h, <2>3, <2>4 DEF VectorInv, LivesExact, Exact
  <2>10. LivesExact'
    BY <1>h, <2>9 DEF LivesExact, Exact, Cap
  <2>11. \A j \in Vecs : Copied(vec'[j]) => assigned'
    BY <1>2, <1>h, <2>3, <2>4 DEF VectorInv
  <2> QED
    BY <2>4, <2>8, <2>10, <2>11 DEF VectorInv, Copied, Lost, Cap
<1> QED
  BY <1>1, <1>2

\* A vector that an operation grows.
LEMMA Grown ==
  ASSUME VectorInv, fault = "none", NEW i \in Vecs, NEW n \in Nat, n = 0 \/ n >= vec[i].size
  PROVE  LET v == reallocate(i, n)
             c == IF n = 0 THEN Growth(vec[i]) ELSE n
         IN  /\ Sound(v) /\ v.slots \in Seq(Values \cup {Raw})
             /\ v.size = vec[i].size /\ Cap(v) = c /\ c \in Nat /\ v.size \in Nat
             /\ v.data.id = NewId(i) /\ v.data.from = "op" /\ v.data.id \in Nat
             /\ ~trivial /\ ~popped /\ ~assigned => Exact(v)
             /\ n = 0 => v.size < Cap(v)
             /\ ~Copied(v)
<1> DEFINE v == reallocate(i, n)
           c == IF n = 0 THEN Growth(vec[i]) ELSE n
<1>1. /\ Sound(vec[i]) /\ vec \in [Vecs -> Buffers] /\ Cap(vec[i]) \in Nat
      /\ vec[i].size \in Nat /\ vec[i].size <= Cap(vec[i])
      /\ ~trivial /\ ~popped /\ ~assigned => Exact(vec[i])
  BY Vectors DEF VectorInv
<1>2. Growth(vec[i]) \in Nat /\ Growth(vec[i]) > Cap(vec[i])
  BY <1>1, Grows
<1>3. /\ Sound(v) /\ v.size = vec[i].size /\ Cap(v) = c
      /\ v.data = [id |-> NewId(i), from |-> "op"]
      /\ \A k \in 1..c : v.slots[k] = IF k <= v.size THEN vec[i].slots[k] ELSE Raw
  BY <1>1, ReallocateSound
<1>4. c \in Nat
  BY <1>2
<1> HIDE DEF v, c
<1>5. ~trivial /\ ~popped /\ ~assigned => Exact(v)
  BY <1>1, <1>3, <1>4 DEF Exact
<1>6. NewId(i) \in Nat
  BY <1>1, FreshId
<1>7. n = 0 => v.size < Cap(v)
  BY <1>1, <1>2, <1>3 DEF c
<1>8. v.size \in Nat /\ v.size <= c
  BY <1>1, <1>3, <1>4 DEF Sound
<1>9. ~Copied(v)
  BY <1>3 DEF Copied, Lost, Null
<1> QED
  BY <1>1, <1>3, <1>4, <1>5, <1>6, <1>7, <1>8, <1>9 DEF v, c, Sound, Buffers

\* A fault of using vector i has one of the causes FaultHasCause names.
Justified(i, f) ==
  /\ f \in Kinds \ {"raw"}
  /\ trivial => f \in {"none", "oob", "freed"}
  /\ f = "dead" => popped \/ assigned
  /\ f = "mismatch" => assigned
  /\ f = "freed" => vec[i].data.from = "gone"
  /\ f = "oob" => assigned /\ Lost(vec[i])

\* Touching the slots of a vector, up to its size or any (:116, :126, :131, :195).
LEMMA TouchesJustified ==
  ASSUME VectorInv, fault = "none", NEW i \in Vecs, NEW a \in Int, NEW b \in Int,
         (a >= 1 /\ b <= vec[i].size) \/ popped \/ assigned
  PROVE  Justified(i, Touches(vec[i], a, b)) /\ Justified(i, Destroys(vec[i], a, b))
<1>1. /\ vec[i].size \in Nat /\ vec[i].size <= Cap(vec[i]) /\ Cap(vec[i]) \in Nat
      /\ ~trivial /\ ~popped /\ ~assigned => Exact(vec[i])
      /\ Copied(vec[i]) => assigned
  BY Vectors
<1>2. ~trivial /\ ~popped /\ ~assigned => ~Holes(vec[i], a, b)
  BY <1>1 DEF Exact, Holes
<1> DEFINE t == Touches(vec[i], a, b)
<1>3. /\ t \in {"none", "freed", "oob", "dead"}
      /\ t = "freed" => vec[i].data.from = "gone"
      /\ t = "oob" => Lost(vec[i])
      /\ t = "dead" => ~trivial /\ Holes(vec[i], a, b)
  BY DEF Touches, Uses, Frees, First, When
<1>4. Destroys(vec[i], a, b) \in {"none", t}
  BY DEF Destroys, When
<1> HIDE DEF t
<1>5. Justified(i, t) /\ Justified(i, "none")
  BY <1>1, <1>2, <1>3 DEF Justified, Kinds, Copied
<1> QED
  BY <1>4, <1>5 DEF t

\* What the parts of an operation can do wrong.
LEMMA Harmless ==
  ASSUME VectorInv, fault = "none", NEW i \in Vecs
  PROVE  /\ Justified(i, Reads(vec[i])) /\ Justified(i, reallocateFault(vec[i]))
         /\ Justified(i, clearFault(vec[i])) /\ Justified(i, deallocateFault(vec[i]))
         /\ Justified(i, Uses(vec[i])) /\ Justified(i, "none")
<1>1. vec[i].size \in Nat /\ vec[i].size \in Int /\ (Copied(vec[i]) => assigned)
  BY Vectors
<1>r. Justified(i, Reads(vec[i])) /\ Justified(i, clearFault(vec[i]))
  BY <1>1, TouchesJustified DEF Reads, clearFault
<1>d. Justified(i, deallocateFault(vec[i])) /\ Justified(i, Uses(vec[i])) /\ Justified(i, "none")
  BY <1>1 DEF deallocateFault, Uses, Frees, First, When, Justified, Kinds, Copied
<1>f. reallocateFault(vec[i]) \in {"none", Reads(vec[i]), deallocateFault(vec[i])}
  BY DEF reallocateFault, First, When
<1> QED
  BY <1>r, <1>d, <1>f

\* FaultHasCause, but for its last clause.
Caused ==
  /\ trivial => fault' \in {"none", "oob", "freed"}
  /\ fault' = "dead" => popped' \/ assigned' \/ \E i \in Vecs : At(i)
  /\ fault' = "mismatch" => assigned'
  /\ fault' = "freed" =>
       \/ \E i \in Vecs : PushOwn(i) /\ vec[i].size = Cap(vec[i])
       \/ \E i \in Vecs : \E n \in (Cap(vec[i]) + 1)..MaxCap : ResizeOwn(i, n)
       \/ \E i \in Vecs : vec[i].data.from = "gone"
  /\ fault' = "oob" =>
       \/ \E i \in Vecs : At(i) /\ vec[i].size = Cap(vec[i])
       \/ \E i \in Vecs : PopBack(i) /\ vec[i].size = 1
       \/ assigned /\ \E i \in Vecs : Lost(vec[i])

\* A justified fault is a caused one.
LEMMA Justifies ==
  ASSUME VectorInv, NEW i \in Vecs, Justified(i, fault'), Remembers
  PROVE  Caused
<1>1. (popped => popped') /\ (assigned => assigned')
  <2>1. popped \in BOOLEAN /\ assigned \in BOOLEAN
    BY DEF VectorInv, OneOwner, TypeOK
  <2> QED
    BY <2>1 DEF Remembers
<1>2. /\ trivial => fault' \in {"none", "oob", "freed"}
      /\ fault' = "dead" => popped' \/ assigned'
      /\ fault' = "mismatch" => assigned'
      /\ fault' = "freed" => vec[i].data.from = "gone"
      /\ fault' = "oob" => assigned /\ Lost(vec[i])
  BY <1>1 DEF Justified
<1> QED
  BY <1>2 DEF Caused

\* An append, of an element x that is an object if reading it is defined.
LEMMA AddKeeps ==
  ASSUME VectorInv, fault = "none", NEW i \in Vecs, NEW x \in Values \cup {Raw},
         NEW f \in Kinds, ~trivial /\ f = "none" => x # Raw, Add(i, x, f)
  PROVE  /\ VectorInv'
         /\ fault' = First(f, IF vec[i].size = Cap(vec[i]) THEN reallocateFault(vec[i])
                              ELSE Uses(vec[i]))
         /\ popped' = popped /\ assigned' = assigned
<1> DEFINE full == vec[i].size = Cap(vec[i])
           v == IF full THEN reallocate(i, 0) ELSE vec[i]
           g == IF full THEN reallocateFault(vec[i]) ELSE Uses(vec[i])
           w == [v EXCEPT !.slots[v.size + 1] = x, !.size = @ + 1]
<1>1. /\ Sound(vec[i]) /\ vec[i].slots \in Seq(Values \cup {Raw}) /\ vec[i].size \in Nat
      /\ vec[i].size <= Cap(vec[i]) /\ Cap(vec[i]) \in Nat
      /\ ~trivial /\ ~popped /\ ~assigned => Exact(vec[i])
      /\ Copied(vec[i]) => assigned
  BY Vectors
<1>2. /\ Sound(v) /\ v.slots \in Seq(Values \cup {Raw}) /\ v.size \in Nat /\ v.size < Cap(v)
      /\ Cap(v) \in Nat
      /\ v.data.id \in {NewId(i), vec[i].data.id}
      /\ Copied(v) => assigned
      /\ ~trivial /\ ~popped /\ ~assigned => Exact(v)
  <2>1. CASE full
    BY <2>1, Grown
  <2>2. CASE ~full
    BY <2>2, <1>1
  <2> QED
    BY <2>1, <2>2
<1>3. g \in Kinds
  BY Harmless DEF Justified
<1>4. Add(i, x, f) => /\ IF v.size = Cap(v) THEN Do(i, v, "oob") ELSE Do(i, w, First(f, g))
                      /\ Plain
  BY DEF Add
<1> HIDE DEF v, g
<1>5. Do(i, w, First(f, g)) /\ Plain
  BY <1>2, <1>4
<1>6. /\ w.slots = [v.slots EXCEPT ![v.size + 1] = x] /\ w.size = v.size + 1
      /\ w.data = v.data /\ w \in Buffers
  <2> DEFINE s == [v.slots EXCEPT ![v.size + 1] = x]
  <2>1. s \in Seq(Values \cup {Raw}) /\ v.size + 1 \in Nat
    BY <1>2 DEF Cap
  <2> HIDE DEF s
  <2>2. v \in Buffers
    BY <1>2 DEF Sound
  <2>3. w = [v EXCEPT !.slots = s, !.size = v.size + 1]
    BY <2>2 DEF s, Buffers
  <2>4. w.slots = s /\ w.size = v.size + 1 /\ w.data = v.data
    BY <2>2, <2>3 DEF Buffers
  <2>5. w \in Buffers
    BY <2>1, <2>2, <2>3 DEF Buffers
  <2> QED
    BY <2>4, <2>5 DEF s
<1>7. Cap(w) = Cap(v) /\ \A k \in 1..Cap(w) : w.slots[k] = IF k = v.size + 1 THEN x ELSE v.slots[k]
  BY <1>2, <1>6 DEF Cap
<1>8. Sound(w)
  BY <1>2, <1>6, <1>7 DEF Sound
<1> HIDE DEF w
<1>9. First(f, g) = "none" /\ ~trivial /\ ~popped /\ ~assigned => Exact(w)
  BY <1>2, <1>6, <1>7 DEF Exact, First
<1>10. First(f, g) \in Kinds
  BY <1>3 DEF First
<1>11. Remembers /\ popped' = popped /\ assigned' = assigned
  BY <1>5 DEF Plain, Remembers
<1>12. Copied(w) => assigned
  BY <1>2, <1>6, <1>7 DEF Copied, Lost
<1>13. VectorInv'
  BY <1>2, <1>5, <1>6, <1>8, <1>9, <1>10, <1>11, <1>12, DoKeeps
<1> QED
  BY <1>5, <1>11, <1>13 DEF Do, g

\* push_back, of a value and of an element of the vector itself.
LEMMA PushStep ==
  ASSUME VectorInv, fault = "none", NEW i \in Vecs, PushBack(i) \/ PushOwn(i)
  PROVE  VectorInv' /\ Caused /\ (PushBack(i) /\ ~Lost(vec[i]) => fault' # "oob")
<1>1. ASSUME PushBack(i) PROVE VectorInv' /\ Caused /\ (~Lost(vec[i]) => fault' # "oob")
  <2>1. PICK x \in Values : Add(i, x, "none")
    BY <1>1 DEF PushBack
  <2>2. /\ VectorInv'
        /\ fault' = First("none", IF vec[i].size = Cap(vec[i]) THEN reallocateFault(vec[i])
                                  ELSE Uses(vec[i]))
        /\ popped' = popped /\ assigned' = assigned
    BY <2>1, AddKeeps DEF Kinds
  <2>3. Justified(i, fault')
    BY <2>2, Harmless DEF First
  <2> QED
    BY <2>2, <2>3, Justifies DEF Justified, Remembers
<1>2. ASSUME PushOwn(i) PROVE VectorInv' /\ Caused
  <2>1. PICK k \in 1..vec[i].size :
          Add(i, vec[i].slots[k],
              IF vec[i].size = Cap(vec[i]) THEN LateFault(vec[i]) ELSE OwnFault(vec[i], k))
    BY <1>2 DEF PushOwn
  <2> DEFINE x == vec[i].slots[k]
             full == vec[i].size = Cap(vec[i])
             f == IF full THEN LateFault(vec[i]) ELSE OwnFault(vec[i], k)
             g == IF full THEN reallocateFault(vec[i]) ELSE Uses(vec[i])
  <2>2. /\ vec[i].slots \in Seq(Values \cup {Raw}) /\ vec[i].size \in Nat
        /\ vec[i].size <= Cap(vec[i]) /\ Cap(vec[i]) \in Nat
        /\ Copied(vec[i]) => assigned
    BY Vectors
  <2>3. k \in 1..Cap(vec[i]) /\ x \in Values \cup {Raw} /\ k \in Int /\ k >= 1
    BY <2>2 DEF Cap
  <2>4. /\ LateFault(vec[i]) \in {"freed", "oob"}
        /\ LateFault(vec[i]) = "oob" => assigned /\ Lost(vec[i])
        /\ Justified(i, OwnFault(vec[i], k))
        /\ ~trivial /\ OwnFault(vec[i], k) = "none" => x # Raw
    <3>1. Justified(i, OwnFault(vec[i], k))
      BY <2>2, <2>3, TouchesJustified DEF OwnFault
    <3>2. ~trivial /\ OwnFault(vec[i], k) = "none" => x # Raw
      BY <2>3 DEF OwnFault, Touches, Holes, First, When
    <3> QED
      BY <2>2, <3>1, <3>2 DEF LateFault, Copied
  <2>5. VectorInv' /\ fault' = First(f, g) /\ popped' = popped /\ assigned' = assigned
    <3>1. Add(i, x, f)
      BY <2>1
    <3>2. f \in Kinds /\ (~trivial /\ f = "none" => x # Raw)
      BY <2>4 DEF Justified, Kinds
    <3> HIDE DEF x, f
    <3> QED
      BY <2>3, <3>1, <3>2, AddKeeps
  <2>6. CASE full
    <3>1. fault' = LateFault(vec[i])
      BY <2>4, <2>5, <2>6 DEF First
    <3> QED
      BY <1>2, <2>4, <2>5, <2>6, <3>1 DEF Caused
  <2>7. CASE ~full
    <3>1. fault' \in {OwnFault(vec[i], k), Uses(vec[i])}
      BY <2>5, <2>7 DEF First
    <3> QED
      BY <2>4, <2>5, <3>1, Harmless, Justifies DEF Remembers
  <2> QED
    BY <2>6, <2>7
<1> QED
  BY <1>1, <1>2

\* reserve and shrink_to_fit.
LEMMA ReallocateStep ==
  ASSUME VectorInv, fault = "none", NEW i \in Vecs, NEW n \in Nat, n = 0 \/ n >= vec[i].size,
         Do(i, reallocate(i, n), reallocateFault(vec[i])), Plain
  PROVE  VectorInv' /\ Caused
<1> DEFINE v == reallocate(i, n)
           f == reallocateFault(vec[i])
<1>1. /\ Sound(v) /\ v.data.id = NewId(i) /\ ~Copied(v)
      /\ ~trivial /\ ~popped /\ ~assigned => Exact(v)
  BY Grown
<1>2. Justified(i, f)
  BY Harmless
<1>3. Do(i, v, f) /\ fault' = f /\ popped' = popped /\ assigned' = assigned
  BY DEF Do, Plain
<1> HIDE DEF v
<1>4. VectorInv'
  <2> HIDE DEF f
  <2> QED
    BY <1>1, <1>2, <1>3, DoKeeps DEF Remembers, Justified
<1> QED
  BY <1>2, <1>3, <1>4, Justifies DEF Remembers

\* reserve, and shrink_to_fit, which grows an empty vector.
LEMMA ReserveStep ==
  ASSUME VectorInv, fault = "none", NEW i \in Vecs, Reserve(i) \/ ShrinkToFit(i)
  PROVE  VectorInv' /\ Caused
<1>1. vec[i].size \in Nat /\ vec[i].size <= Cap(vec[i]) /\ Cap(vec[i]) \in Nat
  BY Vectors
<1>2. CASE Reserve(i)
  <2>1. PICK n \in (Cap(vec[i]) + 1)..MaxCap :
          Do(i, reallocate(i, n), reallocateFault(vec[i])) /\ Plain
    BY <1>2 DEF Reserve
  <2>2. n \in Nat /\ n >= vec[i].size
    BY <1>1
  <2> QED
    BY <2>1, <2>2, ReallocateStep
<1>3. CASE ShrinkToFit(i)
  BY <1>1, <1>3, ReallocateStep DEF ShrinkToFit
<1> QED
  BY <1>2, <1>3

\* More elements, which are assigned to raw memory; h is a fault of reading x.
LEMMA ExtendKeeps ==
  ASSUME VectorInv, fault = "none", NEW i \in Vecs, NEW n \in Nat, n > vec[i].size,
         NEW x \in Values \cup {Raw}, NEW h \in Kinds, Extend(i, n, x, h)
  PROVE  /\ VectorInv'
         /\ fault' \in {reallocateFault(vec[i]), Uses(vec[i]), h} \cup
                       (IF trivial THEN {} ELSE {"raw"})
         /\ popped' = popped /\ assigned' = assigned
<1>1. /\ Sound(vec[i]) /\ vec[i].slots \in Seq(Values \cup {Raw}) /\ vec[i].size \in Nat
      /\ vec[i].size <= Cap(vec[i]) /\ Cap(vec[i]) \in Nat
      /\ ~trivial /\ ~popped /\ ~assigned => Exact(vec[i])
      /\ Copied(vec[i]) => assigned
  BY Vectors
<1> DEFINE more == n > Cap(vec[i])
           v == IF more THEN reallocate(i, n) ELSE vec[i]
           f == IF more THEN reallocateFault(vec[i]) ELSE Uses(vec[i])
           all == [k \in 1..Cap(v) |-> IF k \in (v.size + 1)..n THEN x ELSE v.slots[k]]
           w == [v EXCEPT !.slots = all, !.size = n]
           g == First(f, First(h, When(~trivial /\ Holes(v, v.size + 1, n), "raw")))
<1>n. n \in Nat /\ n > vec[i].size
  OBVIOUS
<1>3. /\ Sound(v) /\ v.slots \in Seq(Values \cup {Raw}) /\ v.size \in Nat /\ n <= Cap(v)
      /\ Cap(v) \in Nat /\ v.size < n
      /\ v.data.id \in {NewId(i), vec[i].data.id}
      /\ Copied(v) => assigned
      /\ ~trivial /\ ~popped /\ ~assigned => Exact(v)
  <2>1. CASE more
    <3>1. n \in Nat /\ n >= vec[i].size /\ n # 0 /\ v = reallocate(i, n)
      BY <1>1, <1>n, <2>1
    <3> HIDE DEF v
    <3>2. /\ Sound(v) /\ v.slots \in Seq(Values \cup {Raw}) /\ v.size = vec[i].size
          /\ Cap(v) = n /\ v.data.id = NewId(i) /\ ~Copied(v)
          /\ ~trivial /\ ~popped /\ ~assigned => Exact(v)
      BY <3>1, Grown
    <3> QED
      BY <1>1, <1>n, <3>1, <3>2
  <2>2. CASE ~more
    BY <2>2, <1>1, <1>n
  <2> QED
    BY <2>1, <2>2
<1>4. f \in Kinds
  BY Harmless DEF Justified
<1>5. Do(i, w, g) /\ Plain
  BY DEF Extend
<1>6. f \in {reallocateFault(vec[i]), Uses(vec[i])}
  OBVIOUS
<1> HIDE DEF v, f
<1>7. all \in Seq(Values \cup {Raw}) /\ Len(all) = Cap(v)
  BY <1>3 DEF Cap
<1>8. \A k \in 1..Cap(v) : all[k] = IF k \in (v.size + 1)..n THEN x ELSE v.slots[k]
  OBVIOUS
<1> HIDE DEF all
<1>9. w \in Buffers /\ w.slots = all /\ w.size = n /\ w.data = v.data
  BY <1>n, <1>3, <1>7 DEF Sound, Buffers
<1>10. Sound(w) /\ Cap(w) = Cap(v)
  BY <1>3, <1>7, <1>9 DEF Sound, Cap
<1>11. ~trivial /\ ~popped /\ ~assigned => g # "none"
  <2>1. v.size + 1 \in 1..Cap(v) /\ v.size + 1 \in (v.size + 1)..n
    BY <1>n, <1>3
  <2>2. ~trivial /\ ~popped /\ ~assigned => Holes(v, v.size + 1, n)
    BY <2>1, <1>3 DEF Exact, Holes
  <2> QED
    BY <2>2 DEF First, When
<1>12. Copied(w) => assigned
  BY <1>3, <1>9, <1>10 DEF Copied, Lost
<1>13. g \in Kinds /\ g \in {f, h} \cup (IF trivial THEN {} ELSE {"raw"})
  <2>1. g \in {f, h, "none"} \cup (IF trivial THEN {} ELSE {"raw"})
        /\ (g = "none" => f = "none")
    BY DEF First, When
  <2> QED
    BY <1>4, <2>1 DEF Kinds
<1>14. fault' = g /\ popped' = popped /\ assigned' = assigned
  BY <1>5 DEF Do, Plain
<1> HIDE DEF w, g
<1>15. VectorInv'
  BY <1>3, <1>5, <1>9, <1>10, <1>11, <1>12, <1>13, <1>14, DoKeeps DEF Remembers
<1> QED
  BY <1>6, <1>13, <1>14, <1>15

\* resize to more elements, equal to a value and to an element of the vector.
LEMMA ResizeUpStep ==
  ASSUME VectorInv, fault = "none", NEW i \in Vecs,
         ResizeUp(i) \/ \E n \in 1..MaxCap : ResizeOwn(i, n)
  PROVE  VectorInv' /\ Caused
<1>1. /\ vec[i].slots \in Seq(Values \cup {Raw}) /\ vec[i].size \in Nat
      /\ vec[i].size <= Cap(vec[i]) /\ Cap(vec[i]) \in Nat
      /\ Copied(vec[i]) => assigned
  BY Vectors
<1>2. ASSUME NEW h \in Kinds, Justified(i, h), VectorInv', popped' = popped, assigned' = assigned,
             fault' \in {reallocateFault(vec[i]), Uses(vec[i]), h} \cup
                       (IF trivial THEN {} ELSE {"raw"})
      PROVE  Caused
  <2>1. CASE fault' = "raw"
    <3>1. ~trivial
      BY <1>2, <2>1, Harmless DEF Justified
    <3> QED
      BY <2>1, <3>1 DEF Caused
  <2>2. CASE fault' # "raw"
    BY <1>2, <2>2, Harmless, Justifies DEF Remembers
  <2> QED
    BY <2>1, <2>2
<1>3. CASE ResizeUp(i)
  <2>1. PICK n \in (vec[i].size + 1)..MaxCap, x \in Values : Extend(i, n, x, "none")
    BY <1>3 DEF ResizeUp
  <2>2. n \in Nat /\ n > vec[i].size /\ "none" \in Kinds
    BY <1>1 DEF Kinds
  <2>3. /\ VectorInv' /\ popped' = popped /\ assigned' = assigned
        /\ fault' \in {reallocateFault(vec[i]), Uses(vec[i]), "none"} \cup
                      (IF trivial THEN {} ELSE {"raw"})
    BY <2>1, <2>2, ExtendKeeps
  <2> QED
    BY <1>2, <2>2, <2>3, Harmless
<1>4. ASSUME NEW n \in 1..MaxCap, ResizeOwn(i, n) PROVE VectorInv' /\ Caused
  <2> DEFINE more == n > Cap(vec[i])
  <2>1. PICK k \in 1..vec[i].size :
          Extend(i, n, vec[i].slots[k], IF more THEN LateFault(vec[i]) ELSE OwnFault(vec[i], k))
    BY <1>4 DEF ResizeOwn
  <2> DEFINE x == vec[i].slots[k]
             h == IF more THEN LateFault(vec[i]) ELSE OwnFault(vec[i], k)
  <2>2. k \in 1..Cap(vec[i]) /\ x \in Values \cup {Raw} /\ k \in Int /\ k >= 1
    BY <1>1 DEF Cap
  <2>3. n \in Nat /\ n > vec[i].size
    BY <1>4 DEF ResizeOwn
  <2>4. /\ LateFault(vec[i]) \in {"freed", "oob"}
        /\ LateFault(vec[i]) = "oob" => assigned /\ Lost(vec[i])
        /\ Justified(i, OwnFault(vec[i], k))
    BY <1>1, <2>2, TouchesJustified DEF LateFault, Copied, OwnFault
  <2>5. /\ VectorInv' /\ popped' = popped /\ assigned' = assigned
        /\ fault' \in {reallocateFault(vec[i]), Uses(vec[i]), h} \cup
                      (IF trivial THEN {} ELSE {"raw"})
    <3>1. Extend(i, n, x, h)
      BY <2>1
    <3>2. h \in Kinds
      BY <2>4 DEF Justified, Kinds
    <3> HIDE DEF x, h
    <3> QED
      BY <2>2, <2>3, <3>1, <3>2, ExtendKeeps
  <2>6. CASE more
    <3>1. n \in (Cap(vec[i]) + 1)..MaxCap
      BY <1>1, <2>6
    <3>2. CASE fault' = "freed"
      BY <1>4, <2>5, <3>1, <3>2 DEF Caused
    <3>3. CASE fault' # "freed"
      <4>1. h = "freed" => fault' \in {reallocateFault(vec[i]), Uses(vec[i]), "none"} \cup
                                      (IF trivial THEN {} ELSE {"raw"})
        BY <2>5, <3>3
      <4>2. h = "oob" => Justified(i, h)
        BY <2>4, <2>6 DEF Justified, Kinds
      <4>3. h = "freed" \/ h = "oob"
        BY <2>4, <2>6
      <4> HIDE DEF h
      <4> QED
        BY <1>2, <2>5, <4>1, <4>2, <4>3, Harmless DEF Kinds
    <3> QED
      BY <2>5, <3>2, <3>3
  <2>7. CASE ~more
    <3>1. Justified(i, h) /\ h \in Kinds
      BY <2>4, <2>7 DEF Justified
    <3> HIDE DEF h
    <3> QED
      BY <1>2, <2>5, <3>1
  <2> QED
    BY <2>6, <2>7
<1> QED
  BY <1>3, <1>4

\* The last elements are destroyed, or some others after a pop_back.
LEMMA DestroyKeeps ==
  ASSUME VectorInv, fault = "none", NEW i \in Vecs,
         NEW n \in Nat, n <= vec[i].size, NEW a \in Int, NEW b \in Int, NEW f \in Kinds,
         Do(i, [Destroyed(vec[i], a, b) EXCEPT !.size = n], f), Remembers,
         popped' \/ (a = n + 1 /\ b = vec[i].size)
  PROVE  VectorInv'
<1>1. /\ Sound(vec[i]) /\ vec[i].size \in Nat
      /\ vec[i].size <= Cap(vec[i]) /\ Cap(vec[i]) \in Nat
      /\ ~trivial /\ ~popped /\ ~assigned => Exact(vec[i])
      /\ Copied(vec[i]) => assigned
  BY Vectors
<1> DEFINE d == Destroyed(vec[i], a, b)
           v == [d EXCEPT !.size = n]
<1>2. /\ Sound(d) /\ d.data = vec[i].data /\ d.size = vec[i].size /\ Cap(d) = Cap(vec[i])
      /\ ~trivial => Emptied(d, vec[i], a, b)
  BY <1>1, DestroyedSound
<1>3. trivial => d = vec[i]
  BY DEF Destroyed
<1> HIDE DEF d
<1>4. v \in Buffers /\ v.slots = d.slots /\ v.data = d.data /\ v.size = n
  BY <1>2 DEF Sound, Buffers
<1>5. Sound(v)
  BY <1>1, <1>2, <1>4 DEF Sound, Cap
<1>6. Remembers => (~popped' => ~popped) /\ (~assigned' => ~assigned) /\ (assigned => assigned')
  <2>1. popped \in BOOLEAN /\ assigned \in BOOLEAN
    BY DEF VectorInv, OneOwner, TypeOK
  <2> QED
    BY <2>1 DEF Remembers
<1>7. ~trivial /\ ~popped' /\ ~assigned' => Exact(v)
  BY <1>1, <1>2, <1>4, <1>6 DEF Exact, Cap, Emptied
<1>8. Copied(v) => assigned
  BY <1>1, <1>2, <1>4 DEF Copied, Lost, Cap
<1>9. Do(i, v, f)
  BY DEF d
<1> HIDE DEF v
<1> QED
  BY <1>1, <1>2, <1>4, <1>5, <1>6, <1>7, <1>8, <1>9, DoKeeps

\* resize to fewer elements, pop_back and clear.
LEMMA DestroyStep ==
  ASSUME VectorInv, fault = "none", NEW i \in Vecs,
         ResizeDown(i) \/ PopBack(i) \/ Clear(i)
  PROVE  VectorInv' /\ Caused
<1>1. vec[i].size \in Nat /\ vec[i].size <= Cap(vec[i]) /\ Cap(vec[i]) \in Nat
  BY Vectors
<1>2. ASSUME NEW n \in Nat, n <= vec[i].size,
             Do(i, [Destroyed(vec[i], n + 1, vec[i].size) EXCEPT !.size = n],
                Destroys(vec[i], n + 1, vec[i].size)),
             Plain
      PROVE  VectorInv' /\ Caused
  <2> DEFINE f == Destroys(vec[i], n + 1, vec[i].size)
  <2>1. n + 1 \in Int /\ vec[i].size \in Int /\ n + 1 >= 1
    BY <1>1
  <2>2. Justified(i, f)
    BY <2>1, TouchesJustified
  <2>3. fault' = f /\ popped' = popped /\ assigned' = assigned
    BY <1>2 DEF Do, Plain
  <2>4. VectorInv'
    <3>1. f \in Kinds
      BY <2>2 DEF Justified
    <3>2. Do(i, [Destroyed(vec[i], n + 1, vec[i].size) EXCEPT !.size = n], f)
      BY <1>2
    <3> HIDE DEF f
    <3> QED
      BY <1>2, <2>1, <2>3, <3>1, <3>2, DestroyKeeps DEF Remembers
  <2> QED
    BY <2>2, <2>3, <2>4, Justifies DEF Remembers
<1>3. CASE ResizeDown(i)
  <2>1. PICK n \in 0..(vec[i].size - 1) :
          /\ Do(i, [Destroyed(vec[i], n + 1, vec[i].size) EXCEPT !.size = n],
                Destroys(vec[i], n + 1, vec[i].size))
          /\ Plain
    BY <1>3 DEF ResizeDown
  <2>2. n \in Nat /\ n <= vec[i].size
    BY <1>1
  <2> QED
    BY <1>2, <2>1, <2>2
<1>4. CASE Clear(i)
  <2>1. PICK n \in Nat : n = 0
    OBVIOUS
  <2>2. /\ Do(i, [Destroyed(vec[i], n + 1, vec[i].size) EXCEPT !.size = n],
              Destroys(vec[i], n + 1, vec[i].size))
        /\ Plain
    BY <1>4, <2>1 DEF Clear, clearFault
  <2> QED
    BY <1>1, <1>2, <2>1, <2>2
<1>5. CASE PopBack(i)
  <2> DEFINE n == vec[i].size - 1
             f == IF n = 0 THEN When(~trivial, "oob") ELSE Destroys(vec[i], n, n)
  <2>1. /\ n >= 0 /\ popped' = TRUE /\ assigned' = assigned /\ fault' = f
        /\ Do(i, [Destroyed(vec[i], n, n) EXCEPT !.size = n], f)
    BY <1>5 DEF PopBack, Do
  <2>2. n \in Nat /\ n <= vec[i].size /\ n \in Int
    BY <1>1, <2>1
  <2>3. n # 0 => Justified(i, Destroys(vec[i], n, n))
    <3>1. n # 0 => n >= 1 /\ n <= vec[i].size
      BY <1>1, <2>2
    <3> HIDE DEF n
    <3> QED
      BY <2>2, <3>1, TouchesJustified
  <2>4. n = 0 => f \in {"none", "oob"} /\ vec[i].size = 1
    BY <1>1 DEF When
  <2>5. VectorInv'
    <3>1. f \in Kinds
      BY <2>3, <2>4 DEF Justified, Kinds
    <3> HIDE DEF f, n
    <3> QED
      BY <2>1, <2>2, <3>1, DestroyKeeps DEF Remembers
  <2>6. CASE n = 0
    <3>1. fault' = "oob" => PopBack(i) /\ vec[i].size = 1
      BY <1>5, <2>1, <2>4, <2>6
    <3> QED
      BY <2>1, <2>4, <2>5, <2>6, <3>1 DEF Caused
  <2>7. CASE n # 0
    <3>1. Justified(i, fault')
      BY <2>1, <2>3, <2>7
    <3> QED
      BY <2>1, <2>5, <3>1, Justifies DEF Remembers
  <2> QED
    BY <2>6, <2>7
<1> QED
  BY <1>3, <1>4, <1>5

\* A vector that was just made, or that is no more.
LEMMA NoElements ==
  ASSUME NEW v \in {Empty, NoVec}
  PROVE  /\ Sound(v) /\ v.data.id = 0 /\ v.data.from \in {"null", "none"}
         /\ Cap(v) = 0 /\ v.size = 0 /\ Exact(v) /\ v \in Buffers /\ ~Copied(v)
<1>1. v = Empty \/ v = NoVec
  OBVIOUS
<1>2. <<>> \in Seq(Values \cup {Raw}) /\ Len(<<>>) = 0
  OBVIOUS
<1>3. v.data.id = 0 /\ v.data.from \in {"null", "none"} /\ v.size = 0 /\ v.slots = <<>>
      /\ v \in Buffers
  <2>1. Empty \in Buffers /\ NoVec \in Buffers
    <3>1. Null \in [id : Nat, from : From] /\ [id |-> 0, from |-> "none"] \in [id : Nat, from : From]
      BY DEF Null, From
    <3> QED
      BY <1>2, <3>1 DEF Empty, NoVec, Buffers
  <2> QED
    BY <1>1, <2>1 DEF Empty, NoVec, Null
<1> QED
  BY <1>2, <1>3 DEF Sound, Exact, Copied, Lost, Cap

\* Vectors w are as they should be, and become the vectors of the program.
LEMMA Rearranged ==
  ASSUME VectorInv, fault = "none", NEW w \in [Vecs -> Buffers], vec' = w,
         trivial' = trivial, popped' = popped, assigned' = assigned, fault' \in Kinds,
         \A i \in Vecs :
           /\ Sound(w[i]) /\ (Copied(w[i]) => assigned)
           /\ fault' = "none" /\ ~trivial /\ ~popped /\ ~assigned => Exact(w[i]),
         \A i, j \in Vecs : i # j /\ w[i].data.id = w[j].data.id => w[i].data.id = 0
  PROVE  VectorInv'
<1>1. trivial \in BOOLEAN /\ popped \in BOOLEAN /\ assigned \in BOOLEAN
  BY SoundVectors DEF VectorInv, OneOwner
<1>2. TypeOK'
  BY <1>1 DEF TypeOK, Sound, Exists, Kinds, Buffers, From, Cap
<1>3. OneOwner'
  BY <1>2 DEF OneOwner
<1>4. LivesExact'
  BY DEF LivesExact, Exact, Cap
<1> QED
  BY <1>3, <1>4 DEF VectorInv, Copied, Lost, Cap

\* at, and the constructor and destructor.
LEMMA OneStep ==
  ASSUME VectorInv, fault = "none", NEW i \in Vecs,
         At(i) \/ Construct(i) \/ Destruct(i)
  PROVE  VectorInv' /\ Caused
<1>1. vec \in [Vecs -> Buffers] /\ Sound(vec[i])
  BY Vectors DEF VectorInv
<1>3. CASE At(i)
  <2> DEFINE full == vec[i].size = Cap(vec[i])
             m == vec[i].size + 1
             f == IF full THEN "oob" ELSE Touches(vec[i], m, m)
  <2>1. Do(i, vec[i], f) /\ Plain /\ fault' = f
    BY <1>3 DEF At, Do
  <2>2. /\ Touches(vec[i], m, m) \in Kinds \ {"raw"}
        /\ trivial => Touches(vec[i], m, m) \in {"none", "oob", "freed"}
        /\ Touches(vec[i], m, m) # "mismatch"
        /\ Touches(vec[i], m, m) = "freed" => vec[i].data.from = "gone"
        /\ Touches(vec[i], m, m) = "oob" => Lost(vec[i])
    BY DEF Touches, Uses, Frees, First, When, Kinds
  <2>3. Copied(vec[i]) => assigned
    BY Vectors
  <2>4. VectorInv'
    <3>1. f \in Kinds
      BY <2>2 DEF Kinds
    <3>2. ~trivial /\ ~popped /\ ~assigned => Exact(vec[i])
      BY Vectors
    <3> HIDE DEF f
    <3> QED
      BY <1>1, <2>1, <2>3, <3>1, <3>2, DoKeeps DEF Remembers, Plain
  <2> HIDE DEF m
  <2> QED
    BY <1>3, <2>1, <2>2, <2>3, <2>4 DEF Caused, Copied
<1>4. CASE Destruct(i)
  <2> DEFINE f == First(clearFault(vec[i]), deallocateFault(vec[i]))
  <2>1. Do(i, NoVec, f) /\ fault' = f /\ popped' = popped /\ assigned' = assigned
    BY <1>4 DEF Destruct, Do, Plain
  <2>2. Justified(i, f)
    BY Harmless DEF First
  <2>3. VectorInv'
    <3>1. f \in Kinds
      BY <2>2 DEF Justified
    <3> HIDE DEF f
    <3> QED
      BY NoElements, <2>1, <3>1, DoKeeps DEF Remembers
  <2> QED
    BY <2>1, <2>2, <2>3, Justifies DEF Remembers
<1>5. CASE Construct(i)
  <2>1. /\ vec' = [vec EXCEPT ![i] = Empty] /\ trivial' = trivial /\ fault' = fault
        /\ popped' = popped /\ assigned' = assigned
    BY <1>5 DEF Construct
  <2> DEFINE w == [vec EXCEPT ![i] = Empty]
  <2>3. w \in [Vecs -> Buffers] /\ w[i] = Empty /\ \A j \in Vecs \ {i} : w[j] = vec[j]
    BY <1>1, NoElements
  <2>4. vec' = w /\ fault' \in Kinds
    BY <2>1 DEF Kinds
  <2> HIDE DEF w
  <2>5. \A j \in Vecs :
           /\ Sound(w[j]) /\ (Copied(w[j]) => assigned)
           /\ ~trivial /\ ~popped /\ ~assigned => Exact(w[j])
    BY <2>3, NoElements, Vectors
  <2>6. \A j, k \in Vecs : j # k /\ w[j].data.id = w[k].data.id => w[j].data.id = 0
    BY <2>3, NoElements, Vectors
  <2>7. VectorInv'
    BY <2>1, <2>3, <2>4, <2>5, <2>6, Rearranged
  <2> QED
    BY <2>1, <2>7 DEF Caused
<1> QED
  BY <1>3, <1>4, <1>5

\* The moves and swap: a buffer changes hands.
LEMMA Exchanged ==
  ASSUME VectorInv, fault = "none", NEW i \in Vecs, NEW j \in Vecs, i # j,
         NEW v \in Buffers, v = vec[i] \/ v = Empty,
         vec' = [vec EXCEPT ![i] = vec[j], ![j] = v],
         trivial' = trivial, popped' = popped, assigned' = assigned, fault' \in Kinds
  PROVE  VectorInv'
<1> DEFINE w == [vec EXCEPT ![i] = vec[j], ![j] = v]
<1>1. vec \in [Vecs -> Buffers]
  BY DEF VectorInv
<1>2. /\ w \in [Vecs -> Buffers] /\ w[i] = vec[j] /\ w[j] = v
      /\ \A k \in Vecs \ {i, j} : w[k] = vec[k]
  BY <1>1
<1>3. vec' = w
  OBVIOUS
<1> HIDE DEF w
<1>4. \A k \in Vecs : w[k] \in {v, vec[j], vec[k]}
  BY <1>2
<1>5. \A k \in Vecs :
        /\ Sound(w[k]) /\ (Copied(w[k]) => assigned)
        /\ ~trivial /\ ~popped /\ ~assigned => Exact(w[k])
  <2>1. ASSUME NEW x, x = Empty \/ \E k \in Vecs : x = vec[k]
        PROVE  /\ Sound(x) /\ (Copied(x) => assigned)
               /\ ~trivial /\ ~popped /\ ~assigned => Exact(x)
    BY <2>1, Vectors, NoElements
  <2>2. \A k \in Vecs : w[k] = Empty \/ \E l \in Vecs : w[k] = vec[l]
    BY <1>4
  <2> HIDE DEF Empty
  <2> QED
    BY <2>1, <2>2
<1>6. \A k, l \in Vecs : k # l /\ w[k].data.id = w[l].data.id => w[k].data.id = 0
  BY <1>2, NoElements, Vectors
<1> QED
  BY <1>2, <1>3, <1>5, <1>6, Rearranged

\* The moves and swap.
LEMMA MoveStep ==
  ASSUME VectorInv, fault = "none", NEW i \in Vecs, NEW j \in Vecs,
         MoveConstruct(i, j) \/ MoveAssign(i, j) \/ Swap(i, j)
  PROVE  VectorInv' /\ Caused
<1>1. i # j /\ trivial' = trivial /\ popped' = popped /\ assigned' = assigned
  BY DEF MoveConstruct, MoveAssign, Swap, Plain, Exists
<1>2. \E v \in Buffers : /\ v = vec[i] \/ v = Empty
                         /\ vec' = [vec EXCEPT ![i] = vec[j], ![j] = v]
  BY NoElements, Vectors DEF MoveConstruct, MoveAssign, Swap, Take
<1>3. fault' \in {"none", clearFault(vec[i]), deallocateFault(vec[i])}
  BY DEF MoveConstruct, MoveAssign, Swap, First
<1>4. Justified(i, fault') /\ fault' \in Kinds
  BY <1>3, Harmless DEF Justified
<1>5. VectorInv'
  BY <1>1, <1>2, <1>4, Exchanged
<1> QED
  BY <1>1, <1>4, <1>5, Justifies DEF Remembers

\* The copy constructor, which copies by assignment.
LEMMA CopyConstructStep ==
  ASSUME VectorInv, fault = "none", NEW i \in Vecs, NEW j \in Vecs, CopyConstruct(i, j)
  PROVE  VectorInv' /\ Caused
<1>1. /\ vec \in [Vecs -> Buffers] /\ Sound(vec[j])
      /\ vec[j].slots \in Seq(Values \cup {Raw}) /\ Cap(vec[j]) \in Nat
      /\ vec[j].size \in Nat /\ vec[j].size <= Cap(vec[j])
      /\ ~trivial /\ ~popped /\ ~assigned => Exact(vec[j])
  BY Vectors DEF VectorInv
<1> DEFINE s == [k \in 1..Cap(vec[j]) |-> IF k <= vec[j].size THEN vec[j].slots[k] ELSE Raw]
           d == allocate(i, Cap(vec[j]))
           v == [vec[j] EXCEPT !.data = d, !.slots = s]
           w == [vec EXCEPT ![i] = v]
           f == First(When(vec[j].size > 0 /\ ~trivial, "raw"), Reads(vec[j]))
<1>2. i # j /\ vec' = w /\ fault' = f /\ trivial' = trivial /\ popped' = popped /\ assigned' = assigned
  BY DEF CopyConstruct, Plain, Exists
<1>3. s \in Seq(Values \cup {Raw}) /\ Len(s) = Cap(vec[j])
  BY <1>1 DEF Cap
<1>4. \A k \in 1..Cap(vec[j]) : s[k] = IF k <= vec[j].size THEN vec[j].slots[k] ELSE Raw
  OBVIOUS
<1>5. /\ d \in [id : Nat, from : From] /\ d.id \in {0, NewId(i)} /\ d.from \in {"null", "op"}
      /\ d = Null => Cap(vec[j]) = 0
  BY <1>1, FreshId DEF allocate, Null, From
<1>6. f \in Kinds /\ (~trivial /\ f = "none" => vec[j].size = 0)
      /\ f \in {Reads(vec[j]), IF trivial THEN "none" ELSE "raw"}
  BY <1>1, Harmless DEF Justified, Kinds, First, When
<1> HIDE DEF s, d, f
<1>7. v \in Buffers /\ v.data = d /\ v.slots = s /\ v.size = vec[j].size
  BY <1>1, <1>3, <1>5 DEF Sound, Buffers
<1> HIDE DEF v
<1>8. Sound(v) /\ Cap(v) = Cap(vec[j])
  BY <1>1, <1>3, <1>5, <1>7 DEF Sound, Cap
<1>9. f = "none" /\ ~trivial => Exact(v)
  BY <1>1, <1>4, <1>6, <1>7, <1>8 DEF Exact
<1>10. ~Copied(v)
  BY <1>1, <1>5, <1>7, <1>8 DEF Copied, Lost
<1>11. /\ w \in [Vecs -> Buffers] /\ w[i] = v /\ \A k \in Vecs \ {i} : w[k] = vec[k]
  BY <1>1, <1>7
<1> HIDE DEF w
<1>12. \A k \in Vecs :
        /\ Sound(w[k]) /\ (Copied(w[k]) => assigned)
        /\ f = "none" /\ ~trivial /\ ~popped /\ ~assigned => Exact(w[k])
  BY <1>5, <1>7, <1>8, <1>9, <1>10, <1>11, Vectors
<1>13. \A k, l \in Vecs : k # l /\ w[k].data.id = w[l].data.id => w[k].data.id = 0
  <2>1. \A k \in Vecs \ {i} : vec[k].data.id # NewId(i)
    BY <1>1, FreshId
  <2>2. \A k, l \in Vecs : k # l /\ vec[k].data.id = vec[l].data.id => vec[k].data.id = 0
    BY DEF VectorInv, OneOwner
  <2> QED
    BY <1>5, <1>7, <1>11, <2>1, <2>2
<1>14. VectorInv'
  BY <1>2, <1>6, <1>11, <1>12, <1>13, Rearranged
<1>15. CASE f = "raw" /\ ~trivial
  BY <1>2, <1>14, <1>15 DEF Caused
<1>16. CASE Justified(j, f)
  BY <1>2, <1>14, <1>16, Justifies DEF Remembers
<1> QED
  BY <1>6, <1>15, <1>16, Harmless

\* delete[] of the old elements and the reading of the new (:38-42).
LEMMA CopyJustified ==
  ASSUME VectorInv, fault = "none", NEW i \in Vecs, NEW j \in Vecs,
         NEW n \in Nat, n <= vec[j].size
  PROVE  /\ deleteArrayFault(vec[i]) \in Kinds \ {"raw", "oob"}
         /\ deleteArrayFault(vec[i]) = "freed" => vec[i].data.from = "gone"
         /\ trivial => deleteArrayFault(vec[i]) \in {"none", "freed"}
         /\ Justified(j, Touches(vec[j], 1, n))
<1>1. Justified(j, Touches(vec[j], 1, n))
  <2>1. 1 \in Int /\ n \in Int /\ 1 >= 1
    OBVIOUS
  <2> QED
    BY <2>1, TouchesJustified
<1>2. vec[i].data.from = "arr" => Destroys(vec[i], 1, Cap(vec[i])) \in {"none", "dead"}
  BY DEF Destroys, Touches, Uses, Frees, Lost, Null, First, When
<1>3. trivial => Destroys(vec[i], 1, Cap(vec[i])) = "none"
  BY DEF Destroys, When
<1>4. CASE vec[i].data.from = "gone"
  BY <1>1, <1>4 DEF deleteArrayFault, Frees, First, When, Kinds
<1>5. CASE vec[i].data.from = "op"
  BY <1>1, <1>5 DEF deleteArrayFault, Frees, First, When, Kinds
<1>6. CASE vec[i].data.from = "arr"
  BY <1>1, <1>2, <1>3, <1>6 DEF deleteArrayFault, Frees, First, When, Kinds
<1>7. CASE vec[i].data.from \notin {"gone", "op", "arr"}
  BY <1>1, <1>7 DEF deleteArrayFault, Frees, First, When, Kinds
<1> QED
  BY <1>4, <1>5, <1>6, <1>7

\* The copy assignment that reads n elements and assigns m of them.
LEMMA CopyFirstStep ==
  ASSUME VectorInv, fault = "none", NEW i \in Vecs, NEW j \in Vecs,
         NEW m \in Nat, NEW n \in Nat, n <= vec[j].size, m <= n, CopyFirst(i, j, m, n)
  PROVE  VectorInv' /\ Caused
<1>1. /\ vec \in [Vecs -> Buffers] /\ Sound(vec[j]) /\ vec[j] \in Buffers
      /\ vec[j].slots \in Seq(Values \cup {Raw}) /\ Cap(vec[j]) \in Nat
      /\ vec[j].size \in Nat /\ vec[j].size <= Cap(vec[j])
  BY Vectors DEF VectorInv
<1> DEFINE s == [k \in 1..Cap(vec[j]) |-> IF k <= m THEN vec[j].slots[k]
                                          ELSE IF trivial THEN Raw ELSE Default]
           v == [data |-> [id |-> NewId(i), from |-> "arr"], size |-> vec[j].size, slots |-> s]
           f == First(deleteArrayFault(vec[i]), Touches(vec[j], 1, n))
<1>2. Do(i, v, f) /\ fault' = f /\ assigned' = TRUE /\ popped' = popped
  BY DEF CopyFirst, Do
<1>3. s \in Seq(Values \cup {Raw}) /\ Len(s) = Cap(vec[j])
  BY <1>1 DEF Cap
<1>4. /\ f \in {deleteArrayFault(vec[i]), Touches(vec[j], 1, n)} /\ f \in Kinds
  BY CopyJustified DEF Justified, First
<1> HIDE DEF s, f
<1>5. v \in Buffers /\ Sound(v) /\ v.data.id = NewId(i)
  BY <1>1, <1>3, FreshId DEF Sound, Buffers, Cap, From
<1> HIDE DEF v
<1>6. VectorInv'
  BY <1>2, <1>4, <1>5, DoKeeps DEF Remembers
<1>7. CASE fault' = deleteArrayFault(vec[i])
  BY <1>2, <1>6, <1>7, CopyJustified DEF Caused, Kinds
<1>8. CASE fault' = Touches(vec[j], 1, n)
  BY <1>2, <1>6, <1>8, CopyJustified, Justifies DEF Remembers
<1> QED
  BY <1>2, <1>4, <1>6, <1>7, <1>8

\* The copy assignment, that ends and that throws.
LEMMA CopyAssignStep ==
  ASSUME VectorInv, fault = "none", NEW i \in Vecs, NEW j \in Vecs,
         CopyAssign(i, j) \/ CopyAssignThrows(i, j)
  PROVE  VectorInv' /\ Caused
<1>1. /\ vec \in [Vecs -> Buffers] /\ Sound(vec[j]) /\ vec[j] \in Buffers
      /\ Cap(vec[j]) \in Nat /\ vec[j].size \in Nat /\ vec[j].size <= Cap(vec[j])
  BY Vectors DEF VectorInv
<1>2. CASE CopyAssign(i, j)
  BY <1>1, <1>2, CopyFirstStep DEF CopyAssign
<1>3. CASE \E m \in 0..(vec[j].size - 1) : CopyFirst(i, j, m, m + 1)
  <2>1. PICK m \in 0..(vec[j].size - 1) : CopyFirst(i, j, m, m + 1)
    BY <1>3
  <2>2. m \in Nat /\ m + 1 \in Nat /\ m + 1 <= vec[j].size /\ m <= m + 1
    BY <1>1
  <2> QED
    BY <2>1, <2>2, CopyFirstStep
<1>4. CASE NewThrows(i, j)
  <2> DEFINE d == IF vec[i].data = Null THEN Null ELSE [id |-> 0, from |-> "gone"]
             v == [vec[j] EXCEPT !.data = d, !.slots = Fresh(Cap(vec[j]))]
             f == deleteArrayFault(vec[i])
  <2>1. Do(i, v, f) /\ fault' = f /\ assigned' = TRUE /\ popped' = popped
    BY <1>4 DEF NewThrows, Do
  <2>2. Fresh(Cap(vec[j])) \in Seq(Values \cup {Raw}) /\ Len(Fresh(Cap(vec[j]))) = Cap(vec[j])
    BY <1>1 DEF Fresh
  <2>3. d \in [id : Nat, from : From] /\ d.id = 0 /\ d.from # "none"
    BY DEF From, Null
  <2> HIDE DEF f, d
  <2>4. v \in Buffers /\ Sound(v) /\ v.data = d
    BY <1>1, <2>2, <2>3 DEF Sound, Buffers, Cap
  <2> HIDE DEF v
  <2>5. f \in Kinds
    BY <1>1, CopyJustified DEF f
  <2>6. VectorInv'
    BY <2>1, <2>3, <2>4, <2>5, DoKeeps DEF Remembers
  <2> QED
    BY <1>1, <2>1, <2>6, CopyJustified DEF Caused, f, Kinds
<1> QED
  BY <1>2, <1>3, <1>4 DEF CopyAssignThrows

\* Every operation, whole.
LEMMA VectorStep ==
  ASSUME VectorInv, Next
  PROVE  VectorInv' /\ Caused /\ \A i \in Vecs : PushBack(i) /\ ~Lost(vec[i]) => fault' # "oob"
<1>0. fault = "none"
  BY DEF Next
<1>1. ASSUME NEW i \in Vecs,
             \/ PushBack(i) \/ PushOwn(i) \/ PopBack(i) \/ ResizeUp(i) \/ ResizeDown(i)
             \/ (\E n \in 1..MaxCap : ResizeOwn(i, n))
             \/ Clear(i) \/ Reserve(i) \/ ShrinkToFit(i) \/ At(i) \/ Construct(i) \/ Destruct(i)
      PROVE  VectorInv' /\ Caused
  BY <1>0, <1>1, PushStep, DestroyStep, ResizeUpStep, ReserveStep, OneStep
<1>2. ASSUME NEW i \in Vecs, NEW j \in Vecs,
             \/ CopyConstruct(i, j) \/ MoveConstruct(i, j) \/ CopyAssign(i, j)
             \/ CopyAssignThrows(i, j) \/ MoveAssign(i, j) \/ Swap(i, j)
      PROVE  VectorInv' /\ Caused
  BY <1>0, <1>2, CopyConstructStep, CopyAssignStep, MoveStep
<1>3. \A i \in Vecs : PushBack(i) /\ ~Lost(vec[i]) => fault' # "oob"
  BY <1>0, PushStep
<1> QED
  BY <1>1, <1>2, <1>3 DEF Next

\* The invariant holds of every run: the parts above, whatever the calls of
\* myvector.cpp:20-204 and their order.
THEOREM VectorInvariance == Spec => []VectorInv
<1>1. Init => VectorInv
  <2>1. SUFFICES ASSUME Init PROVE VectorInv
    OBVIOUS
  <2>2. vec \in [Vecs -> Buffers] /\ \A i \in Vecs : vec[i] = NoVec
    BY <2>1, NoElements DEF Init
  <2>3. TypeOK
    BY <2>1, <2>2, NoElements, SoundVectors DEF Init, Kinds
  <2>4. OneOwner /\ LivesExact
    BY <2>2, <2>3, NoElements DEF OneOwner, LivesExact, Exact
  <2> QED
    BY <2>1, <2>2, <2>4, NoElements DEF VectorInv
<1>2. VectorInv /\ [Next]_vars => VectorInv'
  <2>1. ASSUME VectorInv, UNCHANGED vars PROVE VectorInv'
    BY <2>1 DEF vars, VectorInv, OneOwner, TypeOK, Exists, LivesExact, Copied, Lost, Cap
  <2> QED
    BY <2>1, VectorStep
<1> QED
  BY <1>1, <1>2, PTL DEF Spec

\* OneOwner: no buffer belongs to two vectors (myvector.cpp:30-72, :160-164,
\* :190-203), whatever the number of vectors and the capacities.
THEOREM BuffersHaveOneOwner == Spec => []OneOwner
<1>1. VectorInv => OneOwner
  BY DEF VectorInv
<1> QED
  BY <1>1, VectorInvariance, PTL

\* LivesExact: until a pop_back or a copy assignment, objects live in the first
\* size_ slots and nowhere else (myvector.cpp:107-137, :183-204).
THEOREM ObjectsLiveExactly == Spec => []LivesExact
<1>1. VectorInv => LivesExact
  BY DEF VectorInv
<1> QED
  BY <1>1, VectorInvariance, PTL

\* FaultHasCause: what is undefined, and when (myvector.cpp:38-42, :74-78, :125,
\* :143, :185-187).
THEOREM FaultsHaveCauses == Spec => FaultHasCause
<1>1. VectorInv /\ [Next]_vars =>
        [Caused /\ \A i \in Vecs : PushBack(i) /\ ~Lost(vec[i]) => fault' # "oob"]_vars
  BY VectorStep
<1>2. [Caused /\ \A i \in Vecs : PushBack(i) /\ ~Lost(vec[i]) => fault' # "oob"]_vars =>
        [/\ trivial => fault' \in {"none", "oob", "freed"}
         /\ fault' = "dead" => popped' \/ assigned' \/ \E i \in Vecs : At(i)
         /\ fault' = "mismatch" => assigned'
         /\ fault' = "freed" =>
              \/ \E i \in Vecs : PushOwn(i) /\ vec[i].size = Cap(vec[i])
              \/ \E i \in Vecs : \E n \in (Cap(vec[i]) + 1)..MaxCap : ResizeOwn(i, n)
              \/ \E i \in Vecs : vec[i].data.from = "gone"
         /\ fault' = "oob" =>
              \/ \E i \in Vecs : At(i) /\ vec[i].size = Cap(vec[i])
              \/ \E i \in Vecs : PopBack(i) /\ vec[i].size = 1
              \/ assigned /\ \E i \in Vecs : Lost(vec[i])
         /\ \A i \in Vecs : PushBack(i) /\ ~Lost(vec[i]) => fault' # "oob"]_vars
  BY DEF Caused
<1> QED
  BY <1>1, <1>2, VectorInvariance, PTL DEF Spec, FaultHasCause

-----------------------------------------------------------------------------
(* The refinement of SeqVector *)

Elems == [i \in Vecs |-> Contents(vec[i])]

\* Every vector holds only elements somebody wrote.
Whole == \A i \in Vecs : ~Holes(vec[i], 1, vec[i].size)

\* A call leaves the elements alone or does to them what its name says.
Follows ==
  (trivial \/ ~popped') /\ fault' = "none" /\ Whole => Abstract!Next \/ Elems' = Elems

\* The changes of the elements SeqVector knows.
LEMMA Meanings ==
  ASSUME NEW i \in Vecs
  PROVE  /\ \A x \in Values : Elems' = [Elems EXCEPT ![i] = Append(Elems[i], x)] => Abstract!Next
         /\ Elems[i] # <<>> /\ Elems' = [Elems EXCEPT ![i] = SubSeq(Elems[i], 1, Len(Elems[i]) - 1)]
              => Abstract!Next
         /\ \A n \in 0..Len(Elems[i]) :
              Elems' = [Elems EXCEPT ![i] = SubSeq(Elems[i], 1, n)] => Abstract!Next
         /\ \A x \in Values, n \in 1..MaxCap :
              Elems' = [Elems EXCEPT ![i] = Elems[i] \o [k \in 1..n |-> x]] => Abstract!Next
         /\ \A j \in Vecs \ {i} :
              \/ Elems' = [Elems EXCEPT ![i] = Elems[j]]
              \/ Elems' = [Elems EXCEPT ![i] = Elems[j], ![j] = <<>>]
              \/ Elems' = [Elems EXCEPT ![i] = Elems[j], ![j] = Elems[i]]
              => Abstract!Next
<1>1. ASSUME NEW x \in Values, Elems' = [Elems EXCEPT ![i] = Append(Elems[i], x)] PROVE Abstract!Next
  <2>1. Abstract!Push(i)
    BY <1>1 DEF Abstract!Push, Abstract!To, Elems
  <2> QED
    BY <2>1 DEF Abstract!Next
<1>2. ASSUME Elems[i] # <<>>, Elems' = [Elems EXCEPT ![i] = SubSeq(Elems[i], 1, Len(Elems[i]) - 1)]
      PROVE  Abstract!Next
  <2>1. Abstract!Pop(i)
    BY <1>2 DEF Abstract!Pop, Abstract!To, Elems
  <2> QED
    BY <2>1 DEF Abstract!Next
<1>3. ASSUME NEW n \in 0..Len(Elems[i]), Elems' = [Elems EXCEPT ![i] = SubSeq(Elems[i], 1, n)]
      PROVE  Abstract!Next
  <2>1. Abstract!Cut(i)
    BY <1>3 DEF Abstract!Cut, Abstract!To, Elems
  <2> QED
    BY <2>1 DEF Abstract!Next
<1>4. ASSUME NEW x \in Values, NEW n \in 1..MaxCap,
             Elems' = [Elems EXCEPT ![i] = Elems[i] \o [k \in 1..n |-> x]]
      PROVE  Abstract!Next
  <2>1. Abstract!Pad(i)
    BY <1>4 DEF Abstract!Pad, Abstract!To, Elems
  <2> QED
    BY <2>1 DEF Abstract!Next
<1>5. ASSUME NEW j \in Vecs \ {i},
             \/ Elems' = [Elems EXCEPT ![i] = Elems[j]]
             \/ Elems' = [Elems EXCEPT ![i] = Elems[j], ![j] = <<>>]
             \/ Elems' = [Elems EXCEPT ![i] = Elems[j], ![j] = Elems[i]]
      PROVE  Abstract!Next
  <2>1. i # j /\ (Abstract!Copy(i, j) \/ Abstract!Move(i, j) \/ Abstract!Swap(i, j))
    BY <1>5 DEF Abstract!Copy, Abstract!Move, Abstract!Swap, Abstract!To, Elems
  <2> QED
    BY <2>1 DEF Abstract!Next
<1> QED
  BY <1>1, <1>2, <1>3, <1>4, <1>5

\* The elements of a vector.
LEMMA Elements ==
  ASSUME NEW v, Sound(v)
  PROVE  /\ Contents(v) \in Seq(Values \cup {Raw})
         /\ Len(Contents(v)) = v.size
         /\ v.size = 0 => Contents(v) = <<>>
         /\ \A k \in 1..v.size : Contents(v)[k] = v.slots[k]
<1>1. v.slots \in Seq(Values \cup {Raw}) /\ v.size \in Nat /\ v.size <= Len(v.slots)
  BY DEF Sound, Buffers, Cap
<1> DEFINE s == SubSeq(v.slots, 1, v.size)
<1>2. /\ s \in Seq(Values \cup {Raw}) /\ Len(s) = v.size
      /\ \A k \in 1..v.size : s[k] = v.slots[k]
  BY <1>1, SubSeqProperties
<1>3. Contents(v) = s
  BY DEF Contents
<1> HIDE DEF s
<1>4. v.size = 0 => s = <<>>
  BY <1>2
<1> QED
  BY <1>2, <1>3, <1>4

\* Two vectors with the same elements.
LEMMA SameElements ==
  ASSUME NEW v, NEW w, Sound(v), Sound(w), v.size = w.size,
         \A k \in 1..v.size : v.slots[k] = w.slots[k]
  PROVE  Contents(v) = Contents(w)
<1>1. /\ Contents(v) \in Seq(Values \cup {Raw}) /\ Contents(w) \in Seq(Values \cup {Raw})
      /\ Len(Contents(v)) = Len(Contents(w)) /\ Len(Contents(v)) = v.size
  BY Elements
<1>2. \A k \in 1..v.size : Contents(v)[k] = Contents(w)[k]
  BY Elements
<1> QED
  BY <1>1, <1>2, SeqEqual

\* What an operation on vector i does to the elements.
LEMMA DoElems ==
  ASSUME vec \in [Vecs -> Buffers], trivial \in BOOLEAN, NEW i \in Vecs, NEW v,
         Do(i, v, "none"), Sound(v)
  PROVE  Elems' = [Elems EXCEPT ![i] = Contents(v)] /\ fault' = "none"
<1>1. Contents(Settled(v)) = Contents(v)
  <2>1. /\ Sound(Settled(v)) /\ Settled(v).data = v.data /\ Settled(v).size = v.size
        /\ ~trivial => Settled(v) = v
    BY SettledSound
  <2>2. CASE trivial
    <3>1. Cap(v) \in Nat /\ v.size \in Nat /\ v.size <= Cap(v) /\ v \in Buffers
      BY DEF Sound, Buffers, Cap
    <3>2. \A k \in 1..v.size : Settled(v).slots[k] = v.slots[k]
      BY <2>2, <3>1 DEF Settled, Buffers
    <3> QED
      BY <2>1, <3>2, SameElements
  <2> QED
    BY <2>1, <2>2
<1>2. vec' = [vec EXCEPT ![i] = Settled(v)] /\ fault' = "none"
  BY DEF Do
<1>3. \A j \in Vecs : Contents(vec'[j]) = IF j = i THEN Contents(v) ELSE Contents(vec[j])
  BY <1>1, <1>2
<1> QED
  BY <1>2, <1>3 DEF Elems, Contents

\* A vector that keeps its elements while it gets a new buffer.
LEMMA ReallocateElements ==
  ASSUME VectorInv, fault = "none", NEW i \in Vecs, NEW n \in Nat, n = 0 \/ n >= vec[i].size
  PROVE  /\ Contents(reallocate(i, n)) = Contents(vec[i])
         /\ \A k \in 1..vec[i].size : reallocate(i, n).slots[k] = vec[i].slots[k]
<1> DEFINE v == reallocate(i, n)
           c == IF n = 0 THEN Growth(vec[i]) ELSE n
<1>1. /\ vec \in [Vecs -> Buffers] /\ Sound(vec[i]) /\ vec[i].size \in Nat
  BY Vectors DEF VectorInv
<1>2. /\ Sound(v) /\ v.size = vec[i].size /\ Cap(v) = c
      /\ v.size <= c /\ c \in Nat
  BY Grown DEF Sound
<1>3. \A k \in 1..c : v.slots[k] = IF k <= v.size THEN vec[i].slots[k] ELSE Raw
  BY <1>1, ReallocateSound
<1>4. \A k \in 1..vec[i].size : v.slots[k] = vec[i].slots[k]
  <2> HIDE DEF v, c
  <2> QED
    BY <1>1, <1>2, <1>3
<1>5. Contents(v) = Contents(vec[i])
  <2> HIDE DEF v
  <2> QED
    BY <1>1, <1>2, <1>4, SameElements
<1> QED
  BY <1>4, <1>5

\* reserve, shrink_to_fit and at leave the elements alone.
LEMMA ReserveFollows ==
  ASSUME VectorInv, fault = "none", NEW i \in Vecs, Reserve(i) \/ ShrinkToFit(i) \/ At(i)
  PROVE  Follows
<1> SUFFICES ASSUME fault' = "none" PROVE Elems' = Elems
  BY DEF Follows
<1>1. /\ vec[i].size \in Nat /\ vec[i].size <= Cap(vec[i]) /\ Cap(vec[i]) \in Nat
      /\ vec \in [Vecs -> Buffers] /\ trivial \in BOOLEAN /\ Sound(vec[i])
  BY Vectors, SoundVectors DEF VectorInv, OneOwner
<1>2. \E v : Do(i, v, "none") /\ Sound(v) /\ Contents(v) = Contents(vec[i])
  <2>1. CASE At(i)
    BY <1>1, <2>1 DEF At, Do
  <2>2. CASE Reserve(i) \/ ShrinkToFit(i)
    <3>1. PICK n \in Nat : /\ n = 0 \/ n >= vec[i].size
                          /\ Do(i, reallocate(i, n), reallocateFault(vec[i]))
      BY <1>1, <2>2 DEF Reserve, ShrinkToFit
    <3>2. Do(i, reallocate(i, n), "none")
      BY <3>1 DEF Do
    <3> QED
      BY <3>1, <3>2, Grown, ReallocateElements
  <2> QED
    BY <2>1, <2>2
<1>3. PICK v : Do(i, v, "none") /\ Sound(v) /\ Contents(v) = Contents(vec[i])
  BY <1>2
<1>4. Elems' = [Elems EXCEPT ![i] = Contents(v)]
  BY <1>1, <1>3, DoElems
<1> QED
  BY <1>3, <1>4 DEF Elems

\* push_back appends what it is given, if that can still be read.
LEMMA PushFollows ==
  ASSUME VectorInv, fault = "none", NEW i \in Vecs, PushBack(i) \/ PushOwn(i)
  PROVE  Follows
<1> SUFFICES ASSUME fault' = "none", Whole PROVE Abstract!Next
  BY DEF Follows
<1> DEFINE full == vec[i].size = Cap(vec[i])
           v == IF full THEN reallocate(i, 0) ELSE vec[i]
           g == IF full THEN reallocateFault(vec[i]) ELSE Uses(vec[i])
<1>1. /\ vec[i].size \in Nat /\ vec[i].size <= Cap(vec[i]) /\ Cap(vec[i]) \in Nat
      /\ vec \in [Vecs -> Buffers] /\ trivial \in BOOLEAN /\ Sound(vec[i])
      /\ vec[i].slots \in Seq(Values \cup {Raw})
  BY Vectors, SoundVectors DEF VectorInv, OneOwner
<1>a. \E x \in Values : \E f :
        IF v.size = Cap(v) THEN Do(i, v, "oob")
        ELSE Do(i, [v EXCEPT !.slots[v.size + 1] = x, !.size = @ + 1], First(f, g))
  <2>1. CASE PushBack(i)
    BY <2>1 DEF PushBack, Add
  <2>2. CASE PushOwn(i)
    <3>1. PICK k \in 1..vec[i].size : \E h : Add(i, vec[i].slots[k], h)
      BY <2>2 DEF PushOwn
    <3> DEFINE x == vec[i].slots[k]
               w == [v EXCEPT !.slots[v.size + 1] = x, !.size = @ + 1]
    <3>2. x \in Values
      <4>1. k \in 1..Cap(vec[i])
        BY <1>1
      <4>2. x \in Values \cup {Raw}
        BY <1>1, <4>1 DEF Cap
      <4> QED
        BY <4>2 DEF Whole, Holes
    <3>3. \E f : IF v.size = Cap(v) THEN Do(i, v, "oob") ELSE Do(i, w, First(f, g))
      BY <3>1 DEF Add
    <3> QED
      BY <3>2, <3>3
  <2> QED
    BY <2>1, <2>2
<1>b. PICK x \in Values : \E f :
        IF v.size = Cap(v) THEN Do(i, v, "oob")
        ELSE Do(i, [v EXCEPT !.slots[v.size + 1] = x, !.size = @ + 1], First(f, g))
  BY <1>a
<1>2. PICK f :
        IF v.size = Cap(v) THEN Do(i, v, "oob")
        ELSE Do(i, [v EXCEPT !.slots[v.size + 1] = x, !.size = @ + 1], First(f, g))
  BY <1>b
<1> DEFINE w == [v EXCEPT !.slots[v.size + 1] = x, !.size = @ + 1]
<1>3. /\ Sound(v) /\ v.slots \in Seq(Values \cup {Raw}) /\ v.size = vec[i].size
      /\ v.size < Cap(v) /\ Cap(v) \in Nat /\ v.size \in Nat
      /\ \A k \in 1..vec[i].size : v.slots[k] = vec[i].slots[k]
  <2>1. CASE full
    BY <2>1, Grown, ReallocateElements
  <2>2. CASE ~full
    BY <2>2, <1>1
  <2> QED
    BY <2>1, <2>2
<1>4. Do(i, w, "none")
  <2>1. Do(i, w, First(f, g))
    BY <1>2, <1>3
  <2>2. First(f, g) = "none"
    BY <2>1 DEF Do
  <2> QED
    BY <2>1, <2>2
<1> HIDE DEF v, g
<1>6. /\ w.slots = [v.slots EXCEPT ![v.size + 1] = x] /\ w.size = v.size + 1
      /\ w.data = v.data /\ w \in Buffers
  <2> DEFINE s == [v.slots EXCEPT ![v.size + 1] = x]
  <2>1. s \in Seq(Values \cup {Raw}) /\ v.size + 1 \in Nat
    BY <1>3 DEF Cap
  <2> HIDE DEF s
  <2>2. v \in Buffers
    BY <1>3 DEF Sound
  <2>3. w = [v EXCEPT !.slots = s, !.size = v.size + 1]
    BY <2>2 DEF s, Buffers
  <2>4. w.slots = s /\ w.size = v.size + 1 /\ w.data = v.data
    BY <2>2, <2>3 DEF Buffers
  <2>5. w \in Buffers
    BY <2>1, <2>2, <2>3 DEF Buffers
  <2> QED
    BY <2>4, <2>5 DEF s
<1>7. Cap(w) = Cap(v) /\ \A k \in 1..Cap(w) : w.slots[k] = IF k = v.size + 1 THEN x ELSE v.slots[k]
  BY <1>3, <1>6 DEF Cap
<1>8. Sound(w)
  BY <1>3, <1>6, <1>7 DEF Sound
<1> HIDE DEF w
<1>9. Contents(w) = Append(Contents(vec[i]), x)
  <2> DEFINE s == Contents(vec[i])
             t == Contents(w)
             n == vec[i].size
  <2>1. /\ s \in Seq(Values \cup {Raw}) /\ Len(s) = n
        /\ \A k \in 1..n : s[k] = vec[i].slots[k]
    BY <1>1, Elements
  <2>2. /\ t \in Seq(Values \cup {Raw}) /\ Len(t) = n + 1
        /\ \A k \in 1..(n + 1) : t[k] = w.slots[k]
    <3>1. w.size = n + 1
      BY <1>3, <1>6
    <3>2. /\ t \in Seq(Values \cup {Raw}) /\ Len(t) = w.size
          /\ \A k \in 1..w.size : t[k] = w.slots[k]
      BY <1>8, <3>1, Elements
    <3> QED
      BY <3>1, <3>2
  <2>3. n \in Nat /\ n + 1 <= Cap(w) /\ Cap(w) \in Nat
    BY <1>1, <1>3, <1>7
  <2> HIDE DEF s, t, n
  <2>4. /\ Append(s, x) \in Seq(Values \cup {Raw}) /\ Len(Append(s, x)) = n + 1
        /\ \A k \in 1..(n + 1) : Append(s, x)[k] = IF k = n + 1 THEN x ELSE s[k]
    BY <2>1, <2>3, AppendProperties
  <2>5. \A k \in 1..(n + 1) : t[k] = IF k = n + 1 THEN x ELSE s[k]
    BY <1>3, <1>7, <2>1, <2>2, <2>3 DEF n
  <2>6. t = Append(s, x)
    BY <2>2, <2>3, <2>4, <2>5, SeqEqual
  <2> QED
    BY <2>6 DEF s, t
<1>10. Elems' = [Elems EXCEPT ![i] = Append(Elems[i], x)]
  BY <1>1, <1>4, <1>8, <1>9, DoElems DEF Elems
<1> QED
  BY <1>10, Meanings

\* A vector that keeps its first elements.
LEMMA CutFollows ==
  ASSUME VectorInv, NEW i \in Vecs, NEW v, Sound(v), v.size <= vec[i].size,
         Do(i, v, "none"),
         \A k \in 1..v.size : v.slots[k] = vec[i].slots[k]
  PROVE  Abstract!Next
<1>1. /\ vec \in [Vecs -> Buffers] /\ trivial \in BOOLEAN /\ Sound(vec[i])
      /\ vec[i].size \in Nat /\ v.size \in Nat
  BY Vectors, SoundVectors DEF VectorInv, OneOwner, Sound, Buffers
<1>2. Elems' = [Elems EXCEPT ![i] = Contents(v)]
  BY <1>1, DoElems
<1> DEFINE s == Contents(vec[i])
<1>3. s \in Seq(Values \cup {Raw})
  BY <1>1, Elements
<1>4. \E n \in 0..Len(s) : Contents(v) = SubSeq(s, 1, n)
  <2>1. CASE v.size = 0
    <3>1. Contents(v) = <<>>
      BY <2>1, Elements
    <3>2. SubSeq(s, 1, 0) = <<>> /\ 0 \in 0..Len(s)
      BY <1>3
    <3> QED
      BY <3>1, <3>2
  <2>2. CASE v.size # 0
    <3> DEFINE t == Contents(v)
               n == v.size
    <3>1. /\ Len(s) = vec[i].size /\ \A k \in 1..vec[i].size : s[k] = vec[i].slots[k]
      BY <1>1, Elements
    <3>2. t \in Seq(Values \cup {Raw}) /\ Len(t) = n /\ \A k \in 1..n : t[k] = v.slots[k]
      BY Elements
    <3>3. n \in 0..Len(s) /\ n \in 1..Len(s)
      BY <1>1, <2>2, <3>1
    <3>4. \A k \in 1..n : t[k] = s[k]
      BY <1>1, <3>1, <3>2, <3>3
    <3> HIDE DEF s, t, n
    <3>5. SubSeq(s, 1, n) \in Seq(Values \cup {Raw}) /\ Len(SubSeq(s, 1, n)) = n
          /\ \A k \in 1..n : SubSeq(s, 1, n)[k] = s[k]
      BY <1>3, <3>3, SubSeqProperties
    <3>6. t = SubSeq(s, 1, n)
      BY <3>2, <3>4, <3>5, SeqEqual
    <3> QED
      BY <3>3, <3>6 DEF t
  <2> QED
    BY <2>1, <2>2
<1>5. Elems[i] = s
  BY DEF Elems
<1> HIDE DEF s
<1> QED
  BY <1>2, <1>4, <1>5, Meanings

\* resize to fewer elements, pop_back, clear, and the destructor.
LEMMA DestroyFollows ==
  ASSUME VectorInv, fault = "none", NEW i \in Vecs,
         ResizeDown(i) \/ PopBack(i) \/ Clear(i) \/ Destruct(i)
  PROVE  Follows
<1> SUFFICES ASSUME trivial \/ ~popped', fault' = "none" PROVE Abstract!Next
  BY DEF Follows
<1>1. /\ vec[i].size \in Nat /\ vec[i].size <= Cap(vec[i]) /\ Cap(vec[i]) \in Nat
      /\ Sound(vec[i]) /\ vec[i] \in Buffers
  BY Vectors
<1>2. ASSUME NEW n \in Nat, n <= vec[i].size, NEW a \in Int, NEW b \in Int, trivial \/ a = n + 1, NEW f,
             Do(i, [Destroyed(vec[i], a, b) EXCEPT !.size = n], f)
      PROVE  Abstract!Next
  <2> DEFINE d == Destroyed(vec[i], a, b)
             v == [d EXCEPT !.size = n]
  <2>1. /\ Sound(d) /\ d.data = vec[i].data /\ d.size = vec[i].size /\ Cap(d) = Cap(vec[i])
        /\ ~trivial => Emptied(d, vec[i], a, b)
    BY <1>1, DestroyedSound
  <2>2. trivial => d = vec[i]
    BY DEF Destroyed
  <2>3. Do(i, v, "none")
    BY <1>2 DEF Do
  <2> HIDE DEF d
  <2>4. v \in Buffers /\ v.slots = d.slots /\ v.data = d.data /\ v.size = n
    BY <2>1 DEF Sound, Buffers
  <2>5. Sound(v)
    BY <1>1, <1>2, <2>1, <2>4 DEF Sound, Cap
  <2>6. \A k \in 1..n : v.slots[k] = vec[i].slots[k]
    BY <1>1, <1>2, <2>1, <2>2, <2>4 DEF Emptied
  <2> HIDE DEF v
  <2> QED
    BY <1>2, <2>1, <2>3, <2>4, <2>5, <2>6, CutFollows
<1>3. CASE ResizeDown(i)
  <2>1. PICK n \in 0..(vec[i].size - 1) :
          Do(i, [Destroyed(vec[i], n + 1, vec[i].size) EXCEPT !.size = n],
             Destroys(vec[i], n + 1, vec[i].size))
    BY <1>3 DEF ResizeDown
  <2>2. n \in Nat /\ n <= vec[i].size /\ n + 1 \in Int /\ vec[i].size \in Int
    BY <1>1
  <2> QED
    BY <1>2, <2>1, <2>2
<1>4. CASE Clear(i)
  <2>0. PICK n \in Nat : n = 0
    OBVIOUS
  <2>1. Do(i, [Destroyed(vec[i], n + 1, vec[i].size) EXCEPT !.size = n], clearFault(vec[i]))
    BY <1>4, <2>0 DEF Clear
  <2>2. n <= vec[i].size /\ n + 1 \in Int /\ vec[i].size \in Int
    BY <1>1, <2>0
  <2> QED
    BY <1>2, <2>1, <2>2
<1>5. CASE PopBack(i)
  <2>1. PICK n : n = vec[i].size - 1
    OBVIOUS
  <2>2. /\ n >= 0 /\ popped' = TRUE
        /\ \E f : Do(i, [Destroyed(vec[i], n, n) EXCEPT !.size = n], f)
    BY <1>5, <2>1 DEF PopBack
  <2>3. n \in Nat /\ n \in Int /\ n <= vec[i].size /\ trivial
    BY <1>1, <2>1, <2>2
  <2> QED
    BY <1>2, <2>2, <2>3
<1>6. CASE Destruct(i)
  <2>1. Do(i, NoVec, "none")
    BY <1>6 DEF Destruct, Do
  <2> QED
    BY <1>1, <2>1, NoElements, CutFollows
<1> QED
  BY <1>3, <1>4, <1>5, <1>6

\* resize to more elements appends copies of one.
LEMMA ExtendFollows ==
  ASSUME VectorInv, fault = "none", fault' = "none", NEW i \in Vecs, NEW n \in 1..MaxCap,
         n > vec[i].size, NEW x \in Values, NEW h, Extend(i, n, x, h)
  PROVE  Abstract!Next
<1>1. /\ Sound(vec[i]) /\ vec[i].slots \in Seq(Values \cup {Raw}) /\ vec[i].size \in Nat
      /\ vec[i].size <= Cap(vec[i]) /\ Cap(vec[i]) \in Nat
      /\ vec \in [Vecs -> Buffers] /\ trivial \in BOOLEAN
  BY Vectors, SoundVectors DEF VectorInv, OneOwner
<1> DEFINE more == n > Cap(vec[i])
           v == IF more THEN reallocate(i, n) ELSE vec[i]
           f == IF more THEN reallocateFault(vec[i]) ELSE Uses(vec[i])
           all == [k \in 1..Cap(v) |-> IF k \in (v.size + 1)..n THEN x ELSE v.slots[k]]
           w == [v EXCEPT !.slots = all, !.size = n]
           g == First(f, First(h, When(~trivial /\ Holes(v, v.size + 1, n), "raw")))
<1>n. n \in Nat /\ n > vec[i].size /\ n <= MaxCap
  OBVIOUS
<1>3. /\ Sound(v) /\ v.slots \in Seq(Values \cup {Raw}) /\ v.size = vec[i].size /\ n <= Cap(v)
      /\ Cap(v) \in Nat
      /\ \A k \in 1..vec[i].size : v.slots[k] = vec[i].slots[k]
  <2>1. CASE more
    <3>1. n \in Nat /\ n >= vec[i].size /\ n # 0 /\ v = reallocate(i, n)
      BY <1>1, <1>n, <2>1
    <3> HIDE DEF v
    <3>2. /\ Sound(v) /\ v.slots \in Seq(Values \cup {Raw}) /\ v.size = vec[i].size
          /\ Cap(v) = n
      BY <3>1, Grown
    <3>3. \A k \in 1..vec[i].size : v.slots[k] = vec[i].slots[k]
      BY <3>1, ReallocateElements
    <3> QED
      BY <3>1, <3>2, <3>3
  <2>2. CASE ~more
    BY <2>2, <1>1, <1>n
  <2> QED
    BY <2>1, <2>2
<1>4. Do(i, w, "none")
  <2>1. Do(i, w, g)
    BY DEF Extend
  <2>2. g = "none"
    BY <2>1 DEF Do
  <2> QED
    BY <2>1, <2>2
<1> HIDE DEF v
<1>7. all \in Seq(Values \cup {Raw}) /\ Len(all) = Cap(v)
  BY <1>3 DEF Cap
<1>8. \A k \in 1..Cap(v) : all[k] = IF k \in (v.size + 1)..n THEN x ELSE v.slots[k]
  OBVIOUS
<1> HIDE DEF all, g, f
<1>9. w \in Buffers /\ w.slots = all /\ w.size = n /\ w.data = v.data
  BY <1>n, <1>3, <1>7 DEF Sound, Buffers
<1>10. Sound(w) /\ Cap(w) = Cap(v)
  BY <1>3, <1>7, <1>9 DEF Sound, Cap
<1> HIDE DEF w
<1> DEFINE m == n - vec[i].size
           s == Contents(vec[i])
           t == Contents(w)
           pad == [k \in 1..m |-> x]
<1>11. t = s \o pad
  <2>1. /\ s \in Seq(Values \cup {Raw}) /\ Len(s) = vec[i].size
        /\ \A k \in 1..vec[i].size : s[k] = vec[i].slots[k]
    BY <1>1, Elements
  <2>2. t \in Seq(Values \cup {Raw}) /\ Len(t) = n /\ \A k \in 1..n : t[k] = w.slots[k]
    BY <1>9, <1>10, Elements
  <2>3. m \in Nat /\ vec[i].size + m = n
    BY <1>1, <1>n
  <2>4. pad \in Seq(Values \cup {Raw}) /\ Len(pad) = m /\ \A k \in 1..m : pad[k] = x
    BY <2>3
  <2> HIDE DEF s, t, m, pad
  <2>5. s \o pad \in Seq(Values \cup {Raw}) /\ Len(s \o pad) = n
        /\ \A k \in 1..n : (s \o pad)[k] = IF k <= Len(s) THEN s[k] ELSE pad[k - Len(s)]
    <3>1. Len(s) + Len(pad) = n
      BY <2>1, <2>3, <2>4
    <3> QED
      BY <2>1, <2>4, <3>1, ConcatProperties
  <2>6. ASSUME NEW k \in 1..n PROVE t[k] = (s \o pad)[k]
    <3>1. k \in 1..Cap(v) /\ k \in Nat
      BY <1>n, <1>3
    <3>2. t[k] = IF k \in (v.size + 1)..n THEN x ELSE v.slots[k]
      BY <1>8, <1>9, <2>2, <3>1
    <3>3. (s \o pad)[k] = IF k <= vec[i].size THEN s[k] ELSE pad[k - vec[i].size]
      BY <2>1, <2>5
    <3>4. CASE k <= vec[i].size
      BY <1>1, <1>3, <2>1, <3>1, <3>2, <3>3, <3>4
    <3>5. CASE k > vec[i].size
      <4>1. k - vec[i].size \in 1..m
        BY <1>1, <2>3, <3>1, <3>5
      <4> QED
        BY <1>1, <1>3, <2>4, <3>1, <3>2, <3>3, <3>5, <4>1
    <3>6. k <= vec[i].size \/ k > vec[i].size
      BY <1>1, <3>1
    <3> QED
      BY <3>4, <3>5, <3>6
  <2> QED
    BY <2>2, <2>5, <2>6, SeqEqual
<1>12. Elems[i] = s
  BY DEF Elems
<1>13. Elems' = [Elems EXCEPT ![i] = t]
  BY <1>1, <1>4, <1>10, DoElems
<1>14. m \in 1..MaxCap
  BY <1>1, <1>n
<1> HIDE DEF s, t, m
<1>15. Elems' = [Elems EXCEPT ![i] = Elems[i] \o [k \in 1..m |-> x]]
  BY <1>11, <1>12, <1>13
<1> QED
  BY <1>14, <1>15, Meanings

\* resize beyond the size, with a value or with one of the elements (:107-113).
LEMMA ResizeUpFollows ==
  ASSUME VectorInv, fault = "none", NEW i \in Vecs,
         ResizeUp(i) \/ \E n \in 1..MaxCap : ResizeOwn(i, n)
  PROVE  Follows
<1> SUFFICES ASSUME fault' = "none", Whole PROVE Abstract!Next
  BY DEF Follows
<1>1. /\ vec[i].slots \in Seq(Values \cup {Raw}) /\ vec[i].size \in Nat
      /\ vec[i].size <= Cap(vec[i]) /\ Cap(vec[i]) \in Nat
  BY Vectors
<1>2. CASE ResizeUp(i)
  <2>1. PICK n \in (vec[i].size + 1)..MaxCap, x \in Values : Extend(i, n, x, "none")
    BY <1>2 DEF ResizeUp
  <2>2. n \in 1..MaxCap /\ n > vec[i].size
    BY <1>1
  <2> QED
    BY <2>1, <2>2, ExtendFollows
<1>3. ASSUME NEW n \in 1..MaxCap, ResizeOwn(i, n) PROVE Abstract!Next
  <2>1. PICK k \in 1..vec[i].size : \E h : Extend(i, n, vec[i].slots[k], h)
    BY <1>3 DEF ResizeOwn
  <2> DEFINE x == vec[i].slots[k]
  <2>2. n \in Nat /\ n > vec[i].size
    BY <1>1, <1>3 DEF ResizeOwn
  <2>3. x \in Values
    <3>1. k \in 1..Cap(vec[i])
      BY <1>1
    <3>2. x \in Values \cup {Raw}
      BY <1>1, <3>1 DEF Cap
    <3> QED
      BY <3>2 DEF Whole, Holes
  <2> HIDE DEF x
  <2>4. \E h : Extend(i, n, x, h)
    BY <2>1 DEF x
  <2> QED
    BY <2>2, <2>3, <2>4, ExtendFollows
<1> QED
  BY <1>2, <1>3

\* The operations on two vectors.
LEMMA TwoFollow ==
  ASSUME VectorInv, fault = "none", NEW i \in Vecs, NEW j \in Vecs,
         \/ CopyConstruct(i, j) \/ MoveConstruct(i, j) \/ CopyAssign(i, j)
         \/ MoveAssign(i, j) \/ Swap(i, j)
  PROVE  Follows
<1> SUFFICES ASSUME fault' = "none" PROVE Abstract!Next
  BY DEF Follows
<1>1. /\ Sound(vec[j]) /\ vec[j].slots \in Seq(Values \cup {Raw}) /\ vec[j].size \in Nat
      /\ vec[j].size <= Cap(vec[j]) /\ Cap(vec[j]) \in Nat /\ vec[j] \in Buffers
      /\ vec \in [Vecs -> Buffers] /\ trivial \in BOOLEAN
  BY Vectors, SoundVectors DEF VectorInv, OneOwner
<1>2. j \in Vecs \ {i}
  BY DEF CopyConstruct, MoveConstruct, CopyAssign, CopyFirst, MoveAssign, Swap, Exists
<1>3. Contents(Empty) = <<>>
  BY NoElements, Elements
<1>4. CASE MoveConstruct(i, j) \/ MoveAssign(i, j)
  <2>1. vec' = [vec EXCEPT ![i] = vec[j], ![j] = Empty]
    BY <1>4 DEF MoveConstruct, MoveAssign, Take
  <2>2. Elems' = [Elems EXCEPT ![i] = Elems[j], ![j] = <<>>]
    <3>1. \A k \in Vecs : Contents(vec'[k]) =
             IF k = j THEN <<>> ELSE IF k = i THEN Contents(vec[j]) ELSE Contents(vec[k])
      BY <1>1, <1>3, <2>1
    <3> QED
      BY <1>2, <3>1 DEF Elems, Contents
  <2> QED
    BY <1>2, <2>2, Meanings
<1>5. CASE Swap(i, j)
  <2>1. vec' = [vec EXCEPT ![i] = vec[j], ![j] = vec[i]]
    BY <1>5 DEF Swap
  <2>2. Elems' = [Elems EXCEPT ![i] = Elems[j], ![j] = Elems[i]]
    <3>1. \A k \in Vecs : Contents(vec'[k]) =
             IF k = j THEN Contents(vec[i]) ELSE IF k = i THEN Contents(vec[j]) ELSE Contents(vec[k])
      BY <1>1, <2>1
    <3> QED
      BY <1>2, <3>1 DEF Elems, Contents
  <2> QED
    BY <1>2, <2>2, Meanings
<1>6. CASE CopyConstruct(i, j) \/ CopyAssign(i, j)
  <2> DEFINE s == [k \in 1..Cap(vec[j]) |-> IF k <= vec[j].size THEN vec[j].slots[k] ELSE Raw]
             d == allocate(i, Cap(vec[j]))
             v == [vec[j] EXCEPT !.data = d, !.slots = s]
             a == [k \in 1..Cap(vec[j]) |-> IF k <= vec[j].size THEN vec[j].slots[k]
                                            ELSE IF trivial THEN Raw ELSE Default]
             w == [data |-> [id |-> NewId(i), from |-> "arr"], size |-> vec[j].size, slots |-> a]
  <2>a. s \in Seq(Values \cup {Raw}) /\ Len(s) = Cap(vec[j])
    BY <1>1 DEF Cap
  <2>b. a \in Seq(Values \cup {Raw}) /\ Len(a) = Cap(vec[j])
    BY <1>1 DEF Cap
  <2>c. \A k \in 1..vec[j].size : s[k] = vec[j].slots[k] /\ a[k] = vec[j].slots[k]
    BY <1>1
  <2>d. /\ d \in [id : Nat, from : From] /\ d.from \in {"null", "op"}
        /\ d.from = "null" => Cap(vec[j]) = 0
    BY <1>1, FreshId DEF allocate, Null, From
  <2>f. \/ vec' = [vec EXCEPT ![i] = v] /\ trivial' = trivial
        \/ Do(i, w, "none")
    BY <1>6 DEF CopyConstruct, CopyAssign, CopyFirst, Do
  <2> HIDE DEF s, a, d
  <2>g. v \in Buffers /\ v.data = d /\ v.slots = s /\ v.size = vec[j].size
    BY <1>1, <2>a, <2>d DEF Sound, Buffers
  <2>h. w \in Buffers /\ w.data.from = "arr" /\ w.slots = a /\ w.size = vec[j].size
    BY <1>1, <2>b, FreshId DEF Sound, Buffers, From
  <2> HIDE DEF v, w
  <2>i. Sound(v) /\ Sound(w)
    BY <1>1, <2>a, <2>b, <2>d, <2>g, <2>h DEF Sound, Cap
  <2>j. Contents(v) = Contents(vec[j]) /\ Contents(w) = Contents(vec[j])
    <3>1. /\ \A k \in 1..v.size : v.slots[k] = vec[j].slots[k]
          /\ \A k \in 1..w.size : w.slots[k] = vec[j].slots[k]
      BY <2>c, <2>g, <2>h
    <3> QED
      BY <1>1, <2>g, <2>h, <2>i, <3>1, SameElements
  <2>2. Elems' = [Elems EXCEPT ![i] = Elems[j]]
    <3>1. CASE Do(i, w, "none")
      BY <1>1, <2>i, <2>j, <3>1, DoElems DEF Elems
    <3>2. CASE vec' = [vec EXCEPT ![i] = v]
      <4>1. \A k \in Vecs : Contents(vec'[k]) = IF k = i THEN Contents(v) ELSE Contents(vec[k])
        BY <1>1, <3>2
      <4> QED
        BY <1>2, <2>j, <4>1 DEF Elems, Contents
    <3> QED
      BY <2>f, <3>1, <3>2
  <2> QED
    BY <1>2, <2>2, Meanings
<1> QED
  BY <1>4, <1>5, <1>6

\* Every operation, whole.
LEMMA StepFollows ==
  ASSUME VectorInv, Next, ~(\E i, j \in Vecs : CopyAssignThrows(i, j))
  PROVE  Follows
<1>0. fault = "none"
  BY DEF Next
<1>1. ASSUME NEW i \in Vecs, Construct(i) PROVE Follows
  <2>1. Contents(Empty) = <<>> /\ Contents(NoVec) = <<>> /\ vec \in [Vecs -> Buffers]
    BY NoElements, Elements DEF VectorInv
  <2>2. Contents(vec[i]) = <<>>
    <3>1. Sound(vec[i]) /\ vec[i].data.from = "none"
      BY <1>1, Vectors DEF Construct, Exists
    <3>2. vec[i].size = 0
      BY <3>1 DEF Sound, Buffers, Cap
    <3> QED
      BY <3>1, <3>2, Elements
  <2>3. \A k \in Vecs : Contents(vec'[k]) = Contents(vec[k])
    BY <1>1, <2>1, <2>2 DEF Construct
  <2>4. Elems' = Elems
    BY <2>3 DEF Elems, Contents
  <2> QED
    BY <2>4 DEF Follows
<1>2. ASSUME NEW i \in Vecs,
             \/ PushBack(i) \/ PushOwn(i) \/ PopBack(i) \/ ResizeUp(i) \/ ResizeDown(i)
             \/ (\E n \in 1..MaxCap : ResizeOwn(i, n))
             \/ Clear(i) \/ Reserve(i) \/ ShrinkToFit(i) \/ At(i) \/ Destruct(i)
      PROVE  Follows
  BY <1>0, <1>2, PushFollows, DestroyFollows, ResizeUpFollows, ReserveFollows
<1>3. ASSUME NEW i \in Vecs, NEW j \in Vecs,
             \/ CopyConstruct(i, j) \/ MoveConstruct(i, j) \/ CopyAssign(i, j)
             \/ MoveAssign(i, j) \/ Swap(i, j)
      PROVE  Follows
  BY <1>0, <1>3, TwoFollow
<1> QED
  BY <1>1, <1>2, <1>3 DEF Next

\* ElementsAsSequence: a defined call leaves the elements std::vector's would
\* (myvector.cpp:74-204), for a T with a destructor up to the first pop_back.
THEOREM ElementsFollowSequence == Spec => ElementsAsSequence
<1>1. VectorInv /\ [Next]_vars =>
        [(trivial \/ ~popped') /\ fault' = "none"
           /\ (\A i \in Vecs : ~Holes(vec[i], 1, vec[i].size))
           /\ ~(\E i, j \in Vecs : CopyAssignThrows(i, j))
           /\ (\E i \in Vecs : Contents(vec[i])' # Contents(vec[i])) => Abstract!Next]_vars
  <2>1. SUFFICES ASSUME VectorInv, Next, trivial \/ ~popped', fault' = "none", Whole,
                        ~(\E i, j \in Vecs : CopyAssignThrows(i, j)),
                        NEW i \in Vecs, Contents(vec[i])' # Contents(vec[i])
                 PROVE  Abstract!Next
    BY DEF Whole
  <2>2. Abstract!Next \/ Elems' = Elems
    BY <2>1, StepFollows DEF Follows
  <2>3. Elems' # Elems
    <3>1. Elems'[i] = Contents(vec[i])' /\ Elems[i] = Contents(vec[i])
      BY DEF Elems
    <3> QED
      BY <2>1, <3>1
  <2> QED
    BY <2>2, <2>3
<1> QED
  BY <1>1, VectorInvariance, PTL DEF Spec, ElementsAsSequence
=============================================================================
