----------------------------- MODULE SeqVector ------------------------------
(***************************************************************************)
(* What the operations of a vector do to its elements and to nothing else: *)
(* the meaning of the names MyVector borrows from std::vector.             *)
(***************************************************************************)
EXTENDS Naturals, Sequences

CONSTANTS
  Vecs, Values,
  MaxPad   \* bound on the elements one resize adds

VARIABLE elems   \* the elements of each vector

To(i, s) == elems' = [elems EXCEPT ![i] = s]

Push(i)   == \E x \in Values : To(i, Append(elems[i], x))
Pop(i)    == elems[i] # <<>> /\ To(i, SubSeq(elems[i], 1, Len(elems[i]) - 1))
Cut(i)    == \E n \in 0..Len(elems[i]) : To(i, SubSeq(elems[i], 1, n))
Pad(i)    == \E x \in Values, n \in 1..MaxPad : To(i, elems[i] \o [k \in 1..n |-> x])
Copy(i, j) == To(i, elems[j])
Move(i, j) == elems' = [elems EXCEPT ![i] = elems[j], ![j] = <<>>]
Swap(i, j) == elems' = [elems EXCEPT ![i] = elems[j], ![j] = elems[i]]

Next ==
  \/ \E i \in Vecs : Push(i) \/ Pop(i) \/ Cut(i) \/ Pad(i)
  \/ \E i, j \in Vecs : i # j /\ (Copy(i, j) \/ Move(i, j) \/ Swap(i, j))
=============================================================================
