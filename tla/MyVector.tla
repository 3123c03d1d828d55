------------------------------ MODULE MyVector ------------------------------
(***************************************************************************)
(* datastructure/myvector.cpp: vectors over raw memory.  A slot of a       *)
(* buffer holds a value when an object lives there and Raw when none does. *)
(* Whether T is trivial (int, as in main) or has a destructor that matters *)
(* (std::string) is chosen at the start: for a trivial T destruction is    *)
(* nothing, assigning to raw memory makes an int, and Raw is a number that *)
(* was never written, which may be copied about.  An operation that is     *)
(* undefined sets fault, and nothing is said of what follows.  A call that *)
(* throws is modelled where it leaves something new: the copy assignment;  *)
(* elsewhere the vector stays as it was, or as reserve leaves it.          *)
(*   dead      an object is read or destroyed where none lives             *)
(*   raw       an object is assigned to where none lives                   *)
(*   oob       memory outside the buffer is used                           *)
(*   freed     a buffer is used after it was freed                         *)
(*   mismatch  delete[] of ::operator new memory, or the reverse, for a T  *)
(*             whose array carries the number of its elements              *)
(***************************************************************************)
EXTENDS Integers, Sequences, FiniteSets

CONSTANTS
  Vecs,     \* the vectors of the program
  Values,   \* what an element can be
  Default,  \* the value T's default constructor gives
  Raw,      \* no object
  MaxCap    \* bound on the capacity a call may ask for

ASSUME VectorAssumption ==
  /\ IsFiniteSet(Vecs)
  /\ Default \in Values /\ Raw \notin Values /\ MaxCap \in Nat

VARIABLES
  vec,      \* each vector: data, slots (capacity_ of them), size
  trivial,  \* the choice of T
  fault,    \* "none", or the undefined behaviour that happened
  popped,   \* history: pop_back destroyed something
  assigned  \* history: the copy assignment ran

vars == <<vec, trivial, fault, popped, assigned>>

\* data: who has the buffer and how it was obtained.  id 0 is nullptr, which
\* has a capacity only when a copy assignment threw.
Null == [id |-> 0, from |-> "null"]
Empty == [data |-> Null, slots |-> <<>>, size |-> 0]
NoVec == [data |-> [id |-> 0, from |-> "none"], slots |-> <<>>, size |-> 0]

Exists(i) == vec[i].data.from # "none"
Cap(v) == Len(v.slots)
Contents(v) == SubSeq(v.slots, 1, v.size)
Lost(v) == v.data = Null /\ Cap(v) > 0
Holes(v, a, b) == \E k \in a..b : v.slots[k] = Raw
Fresh(n) == [k \in 1..n |-> Raw]

\* The address of a new buffer for vector i: one no other vector has.
NewId(i) == CHOOSE n \in 1..Cardinality(Vecs) : \A j \in Vecs \ {i} : vec[j].data.id # n
allocate(i, n) == IF n = 0 THEN Null ELSE [id |-> NewId(i), from |-> "op"]

Init ==
  /\ vec = [i \in Vecs |-> NoVec]
  /\ trivial \in BOOLEAN
  /\ fault = "none"
  /\ popped = FALSE
  /\ assigned = FALSE

-----------------------------------------------------------------------------
(* Faults of the parts operations are made of: "none" or the kind. *)

First(f, g) == IF f # "none" THEN f ELSE g
When(c, kind) == IF c THEN kind ELSE "none"

Frees(v) == When(v.data.from = "gone", "freed")
Uses(v) == First(Frees(v), When(Lost(v), "oob"))

\* Touching the objects in the slots a..b.
Touches(v, a, b) ==
  First(When(a <= b, Uses(v)), When(~trivial /\ Holes(v, a, b), "dead"))
Destroys(v, a, b) == When(~trivial, Touches(v, a, b))
Reads(v) == Touches(v, 1, v.size)
deallocateFault(v) == First(Frees(v), When(v.data.from = "arr" /\ ~trivial, "mismatch"))
clearFault(v) == Destroys(v, 1, v.size)

\* Destroying objects empties their slots; with a trivial T it does nothing.
Destroyed(v, a, b) ==
  IF trivial THEN v
  ELSE [v EXCEPT !.slots = [k \in 1..Cap(v) |-> IF k \in a..b THEN Raw ELSE v.slots[k]]]

\* The numbers a trivial T leaves above size_ are never read: forget them.
Settled(v) ==
  IF ~trivial THEN v
  ELSE [v EXCEPT !.slots = [k \in 1..Cap(v) |-> IF k > v.size THEN Raw ELSE v.slots[k]]]

\* GROWTH_FACTOR 1.5, and at least one more.
Growth(v) ==
  LET n == IF Cap(v) = 0 THEN 1 ELSE (3 * Cap(v)) \div 2
  IN  IF n <= Cap(v) THEN Cap(v) + 1 ELSE n

Mutant_reallocate(i, n) ==
  LET v == vec[i]
      c == IF n = 0 THEN Growth(v) ELSE n
  IN  [data |-> allocate(i, c), size |-> v.size,
       slots |-> [k \in 1..c |-> IF k < v.size THEN v.slots[k] ELSE Raw]]

\* reallocate(n), 0 standing for the default argument: the elements are
\* moved or copied to a new buffer and the old one is freed with the old
\* objects still in it: nobody destroys them, and they go out of the model.
\* From nullptr nothing is moved.
reallocate(i, n) ==
  LET v == vec[i]
      c == IF n = 0 THEN Growth(v) ELSE n
  IN  [data |-> allocate(i, c), size |-> v.size,
       slots |-> [k \in 1..c |-> IF k <= v.size THEN v.slots[k] ELSE Raw]]

\* plausible bug: the old buffer is freed before its elements are moved
Mutant_reallocateFault(v) == First(When(v.size > 0, "freed"), deallocateFault(v))

reallocateFault(v) == When(v.data # Null, First(Reads(v), deallocateFault(v)))

\* An operation leaves f, and v in the place of vector i if it is defined.
Do(i, v, f) ==
  /\ Exists(i)
  /\ vec' = IF f = "none" THEN [vec EXCEPT ![i] = Settled(v)] ELSE vec
  /\ fault' = f
  /\ UNCHANGED trivial
Plain == UNCHANGED <<popped, assigned>>

-----------------------------------------------------------------------------
(* Operations on one vector *)

\* push_back and emplace_back of x; f is a fault of reading x itself.
Add(i, x, f) ==
  LET full == vec[i].size = Cap(vec[i])
      v == IF full THEN reallocate(i, 0) ELSE vec[i]
      g == IF full THEN reallocateFault(vec[i]) ELSE Uses(vec[i])
  IN  /\ Cap(v) <= MaxCap
      /\ IF v.size = Cap(v) THEN Do(i, v, "oob")
         ELSE Do(i, [v EXCEPT !.slots[v.size + 1] = x, !.size = @ + 1], First(f, g))
      /\ Plain

PushBack(i) == \E x \in Values : Add(i, x, "none")

\* Reading the element v[k] as an argument.
OwnFault(v, k) == Touches(v, k, k)

\* An element read as an argument after reallocate freed the buffer it is in.
LateFault(v) == IF Lost(v) THEN "oob" ELSE "freed"

\* push_back(v[k]): the argument is a reference into the old buffer.
PushOwn(i) ==
  \E k \in 1..vec[i].size :
    Add(i, vec[i].slots[k],
        IF vec[i].size = Cap(vec[i]) THEN LateFault(vec[i]) ELSE OwnFault(vec[i], k))

Reserve(i) ==
  \E n \in (Cap(vec[i]) + 1)..MaxCap :
    Do(i, reallocate(i, n), reallocateFault(vec[i])) /\ Plain

\* resize to n > size_ elements.  The new ones are ASSIGNED to, whether or
\* not an object lives there; g is a fault of reading x itself.
Extend(i, n, x, g) ==
  LET more == n > Cap(vec[i])
      v == IF more THEN reallocate(i, n) ELSE vec[i]
      f == IF more THEN reallocateFault(vec[i]) ELSE Uses(vec[i])
      all == [k \in 1..Cap(v) |-> IF k \in (v.size + 1)..n THEN x ELSE v.slots[k]]
  IN  /\ Do(i, [v EXCEPT !.slots = all, !.size = n],
             First(f, First(g, When(~trivial /\ Holes(v, v.size + 1, n), "raw"))))
      /\ Plain

ResizeUp(i) == \E n \in (vec[i].size + 1)..MaxCap, x \in Values : Extend(i, n, x, "none")

\* resize(n, v[k]): reserve frees the buffer the argument is in.
ResizeOwn(i, n) ==
  /\ n > vec[i].size
  /\ \E k \in 1..vec[i].size :
       Extend(i, n, vec[i].slots[k],
              IF n > Cap(vec[i]) THEN LateFault(vec[i]) ELSE OwnFault(vec[i], k))

Mutant_ResizeDown(i) ==
  \E n \in 0..(vec[i].size - 1) :
    Do(i, [vec[i] EXCEPT !.size = n], Destroys(vec[i], n + 1, vec[i].size)) /\ Plain

ResizeDown(i) ==
  \E n \in 0..(vec[i].size - 1) :
    /\ Do(i, [Destroyed(vec[i], n + 1, vec[i].size) EXCEPT !.size = n],
          Destroys(vec[i], n + 1, vec[i].size))
    /\ Plain

\* size_ is decremented first, so the slot destroyed is the one BEFORE the
\* last element, or the memory before the buffer.
PopBack(i) ==
  LET n == vec[i].size - 1
  IN  /\ n >= 0
      /\ Do(i, [Destroyed(vec[i], n, n) EXCEPT !.size = n],
            IF n = 0 THEN When(~trivial, "oob") ELSE Destroys(vec[i], n, n))
      /\ popped' = TRUE
      /\ UNCHANGED assigned

Clear(i) ==
  /\ Do(i, [Destroyed(vec[i], 1, vec[i].size) EXCEPT !.size = 0], clearFault(vec[i]))
  /\ Plain

\* reallocate(size_): for an empty vector that is the default argument,
\* and the capacity grows.
ShrinkToFit(i) ==
  /\ vec[i].size < Cap(vec[i])
  /\ vec[i].size = 0 => Growth(vec[i]) <= MaxCap
  /\ Do(i, reallocate(i, vec[i].size), reallocateFault(vec[i]))
  /\ Plain

\* at(size()) passes the test.  Below the capacity the slot after the last
\* element is read: no object, or for a trivial T some number.
At(i) ==
  /\ Do(i, vec[i], IF vec[i].size = Cap(vec[i]) THEN "oob"
                   ELSE Touches(vec[i], vec[i].size + 1, vec[i].size + 1))
  /\ Plain

Construct(i) == ~Exists(i) /\ vec' = [vec EXCEPT ![i] = Empty]
                /\ UNCHANGED <<trivial, fault, popped, assigned>>

Destruct(i) == Do(i, NoVec, First(clearFault(vec[i]), deallocateFault(vec[i]))) /\ Plain

-----------------------------------------------------------------------------
(* Operations on two *)

\* std::copy assigns to memory where no object lives.
CopyConstruct(i, j) ==
  /\ ~Exists(i) /\ Exists(j)
  /\ vec' = [vec EXCEPT ![i] = [vec[j] EXCEPT !.data = allocate(i, Cap(vec[j])),
                !.slots = [k \in 1..Cap(vec[j]) |->
                             IF k <= vec[j].size THEN vec[j].slots[k] ELSE Raw]]]
  /\ fault' = First(When(vec[j].size > 0 /\ ~trivial, "raw"), Reads(vec[j]))
  /\ UNCHANGED trivial /\ Plain

\* delete[] data, whatever allocated it.
deleteArrayFault(v) ==
  First(Frees(v), CASE v.data.from = "op"  -> When(~trivial, "mismatch")
                    [] v.data.from = "arr" -> Destroys(v, 1, Cap(v))
                    [] OTHER               -> "none")

\* The copy assignment, when std::copy reads n elements and assigns m of them.
CopyFirst(i, j, m, n) ==
  /\ i # j /\ Exists(j)
  /\ Do(i, [data |-> [id |-> NewId(i), from |-> "arr"], size |-> vec[j].size,
            slots |-> [k \in 1..Cap(vec[j]) |-> IF k <= m THEN vec[j].slots[k]
                                                ELSE IF trivial THEN Raw ELSE Default]],
        First(deleteArrayFault(vec[i]), Touches(vec[j], 1, n)))
  /\ assigned' = TRUE /\ UNCHANGED popped

CopyAssign(i, j) == CopyFirst(i, j, vec[j].size, vec[j].size)

\* new T[] throws: size_ and capacity_ are the other's by then, data is what
\* was freed, or nullptr as it was.
NewThrows(i, j) ==
  /\ i # j /\ Exists(j)
  /\ Do(i, [vec[j] EXCEPT !.data = IF vec[i].data = Null THEN Null
                                   ELSE [id |-> 0, from |-> "gone"],
                          !.slots = Fresh(Cap(vec[j]))],
        deleteArrayFault(vec[i]))
  /\ assigned' = TRUE /\ UNCHANGED popped

\* new T[] throws, or the assignment of an element does.
CopyAssignThrows(i, j) ==
  \/ NewThrows(i, j)
  \/ ~trivial /\ \E m \in 0..(vec[j].size - 1) : CopyFirst(i, j, m, m + 1)

Mutant_Take(i, j) == vec' = [vec EXCEPT ![i] = vec[j]]

Take(i, j) == vec' = [vec EXCEPT ![i] = vec[j], ![j] = Empty]

MoveConstruct(i, j) ==
  /\ ~Exists(i) /\ Exists(j)
  /\ Take(i, j)
  /\ UNCHANGED <<trivial, fault>> /\ Plain

MoveAssign(i, j) ==
  /\ i # j /\ Exists(i) /\ Exists(j)
  /\ Take(i, j)
  /\ fault' = First(clearFault(vec[i]), deallocateFault(vec[i]))
  /\ UNCHANGED trivial /\ Plain

Swap(i, j) ==
  /\ i # j /\ Exists(i) /\ Exists(j)
  /\ vec' = [vec EXCEPT ![i] = vec[j], ![j] = vec[i]]
  /\ UNCHANGED <<trivial, fault>> /\ Plain

Next ==
  /\ fault = "none"
  /\ \/ \E i \in Vecs : \/ PushBack(i) \/ PushOwn(i) \/ PopBack(i)
                        \/ ResizeUp(i) \/ ResizeDown(i) \/ Clear(i)
                        \/ (\E n \in 1..MaxCap : ResizeOwn(i, n))
                        \/ Reserve(i) \/ ShrinkToFit(i) \/ At(i)
                        \/ Construct(i) \/ Destruct(i)
     \/ \E i, j \in Vecs : \/ CopyConstruct(i, j) \/ MoveConstruct(i, j)
                           \/ CopyAssign(i, j) \/ CopyAssignThrows(i, j)
                           \/ MoveAssign(i, j) \/ Swap(i, j)

Spec == Init /\ [][Next]_vars

-----------------------------------------------------------------------------
TypeOK ==
  /\ trivial \in BOOLEAN /\ popped \in BOOLEAN /\ assigned \in BOOLEAN
  /\ fault \in {"none", "dead", "raw", "oob", "freed", "mismatch"}
  /\ \A i \in Vecs :
       /\ vec[i].slots \in Seq(Values \cup {Raw})
       /\ vec[i].data.from \in {"none", "null", "op", "arr", "gone"}
       /\ vec[i].size \in 0..Cap(vec[i])
       /\ ~Exists(i) => Cap(vec[i]) = 0

\* The state keeps its types, the size within the capacity, and no buffer
\* belongs to two vectors, whatever was moved, copied, swapped
\* and reallocated (myvector.cpp:30-72, :160-164, :190-203).
OneOwner ==
  /\ TypeOK
  /\ \A i, j \in Vecs :
       i # j /\ vec[i].data.id = vec[j].data.id => vec[i].data.id = 0

\* Until pop_back or the copy assignment is used, the first size_ slots of a
\* vector hold objects and no other slot does (:107-137, :183-204): clear and
\* the destructor meet each of them once, and no object is left in the buffer
\* they free.  This is about the slots a vector has now: those reallocate left
\* behind, moved or copied from, nobody destroys (:191-201).
LivesExact ==
  fault = "none" /\ ~trivial /\ ~popped /\ ~assigned =>
    \A i \in Vecs : \A k \in 1..Cap(vec[i]) : (vec[i].slots[k] # Raw) <=> k <= vec[i].size

\* What can go wrong has a known cause.  A vector of a trivial T never touches
\* a dead object, whatever sequence of calls (:74-164).  For another T, dead
\* objects are met only after a pop_back (:125), over the array the copy
\* assignment made or never made (:38, :41), or by at(size()) (:143), and a
\* buffer is freed the wrong way only after the copy assignment ran.  A freed
\* buffer is used in three ways only: an append to a full vector of one of its
\* own elements, which reallocate frees before it is read (:75-78), a resize
\* beyond the capacity with one of its own elements (:107-113), and any use of
\* a vector whose copy assignment threw half way (:38-41).  Memory outside a
\* buffer is used by at(size()) of a full vector, by the pop_back of the only
\* element, and over the nullptr left when a copy assignment to an empty vector
\* threw (:41); never by a plain append to another vector, though 1.5 times a
\* capacity of 1 is 1 again (:185-187).
FaultHasCause ==
  [][/\ trivial => fault' \in {"none", "oob", "freed"}
     /\ fault' = "dead" => popped' \/ assigned' \/ \E i \in Vecs : At(i)
     /\ fault' = "mismatch" => assigned'
     /\ fault' = "freed" =>
          \/ \E i \in Vecs : PushOwn(i) /\ vec[i].size = Cap(vec[i])
          \/ \E i \in Vecs : \E n \in (Cap(vec[i]) + 1)..MaxCap : ResizeOwn(i, n)
          \/ \E i \in Vecs : vec[i].data.from = "gone"
     /\ fault' = "oob" =>
          \/ \E i \in Vecs : At(i) /\ vec[i].size = Cap(vec[i])
          \/ \E i \in Vecs : PopBack(i) /\ vec[i].size = 1
          \/ assigned /\ \E i \in Vecs : Lost(vec[i])
     /\ \A i \in Vecs : PushBack(i) /\ ~Lost(vec[i]) => fault' # "oob"]_vars

Abstract == INSTANCE SeqVector WITH
              elems <- [i \in Vecs |-> Contents(vec[i])], MaxPad <- MaxCap

\* Every call that is defined and returns leaves the elements a std::vector
\* would have; for a T with a destructor, up to the first pop_back (:125).  A
\* copy assignment that throws (:41-42) leaves elements nobody wrote, and
\* nothing is said while a vector has such elements.
ElementsAsSequence ==
  [][(trivial \/ ~popped') /\ fault' = "none"
     /\ (\A i \in Vecs : ~Holes(vec[i], 1, vec[i].size))
     /\ ~(\E i, j \in Vecs : CopyAssignThrows(i, j))
     /\ (\E i \in Vecs : Contents(vec[i])' # Contents(vec[i])) => Abstract!Next]_vars

\* "this memory is not from new but for placement new, it cannot be assigned
\* to" (myvector.cpp:194).
RawNeverAssigned == fault # "raw"
=============================================================================
