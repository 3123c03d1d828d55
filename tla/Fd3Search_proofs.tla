-------------------------- MODULE Fd3Search_proofs ---------------------------
(***************************************************************************)
(* What holds of fd3's search for every tree and every number of workers:  *)
(* pending_work is exact, main is not left asleep over finished work, and  *)
(* set_finished comes when nobody can push any more.                       *)
(***************************************************************************)
EXTENDS Fd3Search, FiniteSetTheorems, WellFoundedInduction, TLAPS

(***************************************************************************)
(* What any search of the tree may rely on, whatever the order in which it *)
(* takes the directories: if every known directory was found by a started  *)
(* one, what is reported is what the recursive search reports, and when    *)
(* nothing is left the report is complete.                                 *)
(***************************************************************************)
USE TreeAssumption

\* A directory is known before it is started, and found by a started one; the
\* entries of started directories are open, ignored, or visited.
Explored(started, known, open, matched, ignored, thrown) ==
  /\ Root \in started \cup known
  /\ started \cup known \subseteq Dirs
  /\ started \cap known = {}
  /\ \A d \in (started \cup known) \ {Root} :
       parent[d] \in started /\ DepthAllows(Level[parent[d]]) /\ d \notin ignored
  /\ \A n \in open \cup matched \cup ignored :
       n \in Nodes /\ n # Root /\ parent[n] \in started
  /\ \A n \in open : n \notin matched \cup ignored \cup started \cup known
  /\ \A d \in started \ thrown : \A n \in Entries(d) :
       \/ n \in open \cup ignored
       \/ /\ n \in Matching => n \in matched
          /\ n \in Dirs /\ DepthAllows(Level[d]) => n \in started \cup known

-----------------------------------------------------------------------------
(* The steps of a search *)

\* A known directory is started: all its entries are open
\* (fd3.cpp:92-95, fd4.cpp:123).
LEMMA ExploredStart ==
  ASSUME NEW S, NEW K, NEW L, NEW F, NEW sk, NEW fl, Explored(S, K, L, F, sk, fl),
         NEW d \in K
  PROVE  Explored(S \cup {d}, K \ {d}, L \cup Entries(d), F, sk, fl) /\ d \notin S
<1> DEFINE E == Entries(d)
<1>1. d \in Dirs /\ d \in Nodes /\ d \notin S
  BY DEF Explored
<1>2. \A n \in E : n \in Nodes /\ n # Root /\ parent[n] = d /\ n \notin F \cup sk \cup S \cup K
  BY <1>1 DEF Explored, Entries
<1>3. \A x \in S : \A n \in Entries(x) : n \notin E
  BY <1>1 DEF Entries
<1> HIDE DEF E
<1>4. \A n \in L \cup E : n \notin F \cup sk \cup S \cup K
  BY <1>2 DEF Explored
<1>5. Explored(S \cup {d}, K \ {d}, L \cup E, F, sk, fl)
  <2>1. (S \cup {d}) \cup (K \ {d}) = S \cup K
    OBVIOUS
  <2>2. \A x \in (S \cup {d}) \ fl : \A n \in Entries(x) :
          \/ n \in (L \cup E) \cup sk
          \/ /\ n \in Matching => n \in F
             /\ n \in Dirs /\ DepthAllows(Level[x]) => n \in S \cup K
    BY DEF Explored, E
  <2>3. \A n \in (L \cup E) \cup F \cup sk : n \in Nodes /\ n # Root /\ parent[n] \in S \cup {d}
    BY <1>2 DEF Explored
  <2> QED
    BY <1>1, <1>4, <2>1, <2>2, <2>3 DEF Explored
<1> QED
  BY <1>1, <1>5 DEF E

\* is_ignored rejects an open entry (fd3.cpp:96-98, fd4.cpp:124-126).
LEMMA ExploredSkip ==
  ASSUME NEW S, NEW K, NEW L, NEW F, NEW sk, NEW fl, Explored(S, K, L, F, sk, fl),
         NEW n \in L
  PROVE  Explored(S, K, L \ {n}, F, sk \cup {n}, fl)
BY DEF Explored

\* An open entry is visited: reported when it matches, known when it is a
\* directory within the depth (fd3.cpp:100-112, fd4.cpp:129-138).
LEMMA ExploredVisit ==
  ASSUME NEW S, NEW K, NEW L, NEW F, NEW sk, NEW fl, Explored(S, K, L, F, sk, fl),
         NEW n \in L
  PROVE  Explored(S, K \cup {x \in {n} : n \in Dirs /\ DepthAllows(Level[parent[n]])},
                  L \ {n}, F \cup {x \in {n} : n \in Matching}, sk, fl)
<1> DEFINE C == {x \in {n} : n \in Dirs /\ DepthAllows(Level[parent[n]])}
           M == {x \in {n} : n \in Matching}
<1>1. n \in Nodes /\ n # Root /\ parent[n] \in S /\ n \notin F \cup sk \cup S \cup K
  BY DEF Explored
<1>2. /\ C \subseteq {n} /\ M \subseteq {n} /\ (n \in Matching => n \in M)
      /\ \A x \in C : x = n /\ n \in Dirs /\ DepthAllows(Level[parent[n]])
      /\ n \in Dirs /\ DepthAllows(Level[parent[n]]) => n \in C
  OBVIOUS
<1>3. \A d \in S : n \in Entries(d) => parent[n] = d
  BY DEF Entries
<1> HIDE DEF C, M
<1>4. Explored(S, K \cup C, L \ {n}, F \cup M, sk, fl)
  <2>1. \A d \in (S \cup (K \cup C)) \ {Root} :
          parent[d] \in S /\ DepthAllows(Level[parent[d]]) /\ d \notin sk
    BY <1>1, <1>2 DEF Explored
  <2>2. \A m \in (L \ {n}) \cup (F \cup M) \cup sk : m \in Nodes /\ m # Root /\ parent[m] \in S
    BY <1>1, <1>2 DEF Explored
  <2>3. \A m \in L \ {n} : m \notin (F \cup M) \cup sk \cup S \cup (K \cup C)
    BY <1>2 DEF Explored
  <2>4. \A d \in S \ fl : \A m \in Entries(d) :
          \/ m \in (L \ {n}) \cup sk
          \/ /\ m \in Matching => m \in F \cup M
             /\ m \in Dirs /\ DepthAllows(Level[d]) => m \in S \cup (K \cup C)
    <3> SUFFICES ASSUME NEW d \in S \ fl, NEW m \in Entries(d)
                 PROVE  \/ m \in (L \ {n}) \cup sk
                        \/ /\ m \in Matching => m \in F \cup M
                           /\ m \in Dirs /\ DepthAllows(Level[d]) => m \in S \cup (K \cup C)
      OBVIOUS
    <3>1. CASE m = n
      <4>1. parent[n] = d
        BY <1>3, <3>1
      <4>2. n \in Matching => n \in F \cup M
        BY <1>2
      <4>3. n \in Dirs /\ DepthAllows(Level[d]) => n \in C
        BY <1>2, <4>1
      <4> QED
        BY <3>1, <4>2, <4>3
    <3>2. CASE m # n
      BY <3>2 DEF Explored
    <3> QED
      BY <3>1, <3>2
  <2>5. Root \in S \cup (K \cup C) /\ S \cup (K \cup C) \subseteq Dirs /\ S \cap (K \cup C) = {}
    BY <1>1, <1>2 DEF Explored
  <2> QED
    BY <2>1, <2>2, <2>3, <2>4, <2>5 DEF Explored
<1> QED
  BY <1>4 DEF C, M

\* Reading a started directory throws: what it has still to yield, and what it
\* yielded and did not hand on, is given up (fd3.cpp:114-117, fd4.cpp:160-162).
LEMMA ExploredFail ==
  ASSUME NEW S, NEW K, NEW L, NEW F, NEW sk, NEW fl, Explored(S, K, L, F, sk, fl),
         NEW d \in S, NEW K2 \in SUBSET K, NEW L2 \in SUBSET L, Root \in S \cup K2,
         (K \ K2) \cup (L \ L2) \subseteq Entries(d)
  PROVE  Explored(S, K2, L2, F, sk, fl \cup {d})
<1>1. \A x \in S \ (fl \cup {d}) : \A n \in Entries(x) : n \notin (K \ K2) \cup (L \ L2)
  BY DEF Entries
<1>2. \A x \in S \ (fl \cup {d}) : \A n \in Entries(x) :
          \/ n \in L2 \cup sk
          \/ /\ n \in Matching => n \in F
             /\ n \in Dirs /\ DepthAllows(Level[x]) => n \in S \cup K2
  BY <1>1 DEF Explored
<1> QED
  BY <1>2 DEF Explored

-----------------------------------------------------------------------------
(* What is reported *)

\* Each known directory is one the recursive search visits if no directory
\* throws: otherwise take the one nearest to the root (fd.cpp:67-94).
LEMMA KnownIsSearched ==
  ASSUME NEW S, NEW K, NEW L, NEW F, NEW sk, NEW fl, Explored(S, K, L, F, sk, fl)
  PROVE  S \cup K \subseteq Searched(sk, {})
<1> SUFFICES ASSUME NEW C \in SUBSET Dirs, ClosedUnderSearch(C, sk, {})
             PROVE  S \cup K \subseteq C
  BY DEF Explored, Searched
<1> SUFFICES ASSUME (S \cup K) \ C # {} PROVE FALSE
  OBVIOUS
<1> DEFINE T == {k \in Nat : \E d \in (S \cup K) \ C : Level[d] = k}
<1>1. T # {} /\ T \subseteq Nat
  BY DEF Explored
<1>2. PICK k \in T : \A j \in T : ~ (<<j, k>> \in OpToRel(<, Nat))
  BY <1>1, WFMin, NatLessThanWellFounded
<1>3. PICK d \in (S \cup K) \ C : Level[d] = k
  OBVIOUS
<1>4. d \in Dirs /\ d # Root /\ d \notin sk
  BY DEF ClosedUnderSearch, Explored
<1>5. parent[d] \in S /\ DepthAllows(Level[parent[d]]) /\ Level[d] = Level[parent[d]] + 1
  BY <1>4 DEF Explored
<1>6. parent[d] \in C
  <2>1. CASE parent[d] \notin C
    <3>1. Level[parent[d]] \in T /\ Level[parent[d]] < k /\ k \in Nat
      BY <1>3, <1>5, <2>1 DEF Explored
    <3> QED
      BY <1>2, <3>1 DEF OpToRel
  <2> QED
    BY <2>1
<1> QED
  BY <1>4, <1>5, <1>6 DEF ClosedUnderSearch, Entries

\* An open entry that matches is one the recursive search would report
\* (fd.cpp:75-85).
LEMMA OpenIsReported ==
  ASSUME NEW S, NEW K, NEW L, NEW F, NEW sk, NEW fl, Explored(S, K, L, F, sk, fl),
         NEW n \in L, n \in Matching
  PROVE  n \in Reported(sk, {})
<1>1. n # Root /\ n \notin sk /\ parent[n] \in S
  BY DEF Explored
<1> QED
  BY <1>1, KnownIsSearched DEF Reported

\* When nothing is known that was not started, and nothing is open, everything
\* the recursive search reports has been found (fd.cpp:67-94).
LEMMA AllIsFound ==
  ASSUME NEW S, NEW F, NEW sk, NEW fl, Explored(S, {}, {}, F, sk, fl)
  PROVE  Reported(sk, fl) \subseteq F
<1>1. ClosedUnderSearch(S, sk, fl) /\ S \in SUBSET Dirs
  BY DEF ClosedUnderSearch, Explored
<1>2. Searched(sk, fl) \subseteq S
  BY <1>1 DEF Searched
<1> QED
  <2> SUFFICES ASSUME NEW n \in (Matching \ {Root}) \ sk, parent[n] \in S \ fl PROVE n \in F
    BY <1>2 DEF Reported
  <2>1. n \in Entries(parent[n])
    BY DEF Entries
  <2> QED
    BY <2>1 DEF Explored

-----------------------------------------------------------------------------
\* Every item carries the depth of its directory, and a worker handles
\* entries of the directory it popped.
Carried ==
  /\ \A i \in DOMAIN q : q[i][2] = Level[q[i][1]]
  /\ \A w \in Workers : item[w][2] = Level[item[w][1]]
  /\ \A w \in Workers : left[w] \subseteq Entries(item[w][1])
  /\ \A w \in Workers :
       wpc[w] \in {"child", "push"} => child[w] \in Entries(item[w][1])
  /\ \A w \in Workers : wpc[w] = "push" => child[w] \in Dirs

\* From the moment main has seen pending_work at zero.
QuietSinceZero ==
  mpc \in {"empty", "finish", "join", "done"} => q = <<>> /\ InItem = {} /\ Reserved = {}

IInv == TypeOK /\ Carried /\ PendingCounts /\ QuietSinceZero /\ NoLostSignal

USE TreeAssumption, ItemsAssumption

-----------------------------------------------------------------------------
\* The child of a popped directory is an item one level further down
\* (fd3.cpp:109-111).
LEMMA ChildItem ==
  ASSUME TypeOK, Carried, NEW w \in Workers, wpc[w] = "push"
  PROVE  /\ <<child[w], item[w][2] + 1>> \in Items
         /\ item[w][2] + 1 = Level[child[w]]
<1>1. child[w] \in Dirs /\ child[w] # Root /\ parent[child[w]] = item[w][1]
  BY DEF Carried, Entries
<1>2. item[w][2] = Level[item[w][1]]
  BY DEF Carried
<1>3. Level[child[w]] = item[w][2] + 1
  BY <1>1, <1>2
<1> QED
  BY <1>1, <1>3

\* Every step keeps what is carried along (fd3.cpp:87-127).
LEMMA StepCarried == TypeOK /\ Carried /\ [Next]_vars => Carried'
<1> SUFFICES ASSUME TypeOK, Carried, [Next]_vars PROVE Carried'
  OBVIOUS
<1>1. ASSUME NEW w \in Workers, PopItem(w) PROVE Carried'
  <2>1. PICK i \in Items : /\ q # <<>> /\ i = Head(q) /\ q' = Tail(q)
                           /\ item' = [item EXCEPT ![w] = i]
                           /\ left' = [left EXCEPT ![w] = Entries(i[1])]
    BY <1>1 DEF PopItem, pop
  <2>2. q \in Seq(Items) /\ i[2] = Level[i[1]]
    BY <2>1 DEF TypeOK, Carried
  <2>3. \A j \in DOMAIN Tail(q) : j + 1 \in DOMAIN q /\ Tail(q)[j] = q[j + 1]
    BY <2>1, <2>2
  <2>4. wpc' = [wpc EXCEPT ![w] = "scan"] /\ child' = child
    BY <1>1 DEF PopItem
  <2>5. \A j \in DOMAIN q' : q'[j][2] = Level[q'[j][1]]
    BY <2>1, <2>3 DEF Carried
  <2>6. /\ \A v \in Workers : item'[v] = IF v = w THEN i ELSE item[v]
        /\ \A v \in Workers : left'[v] = IF v = w THEN Entries(i[1]) ELSE left[v]
        /\ \A v \in Workers : wpc'[v] = IF v = w THEN "scan" ELSE wpc[v]
    BY <2>1, <2>4 DEF TypeOK
  <2>7. \A v \in Workers : item'[v][2] = Level[item'[v][1]]
    BY <2>2, <2>6 DEF Carried
  <2>8. \A v \in Workers : left'[v] \subseteq Entries(item'[v][1])
    BY <2>6 DEF Carried
  <2>9. \A v \in Workers :
          /\ wpc'[v] \in {"child", "push"} => child'[v] \in Entries(item'[v][1])
          /\ wpc'[v] = "push" => child'[v] \in Dirs
    BY <2>4, <2>6 DEF Carried
  <2> QED
    BY <2>5, <2>7, <2>8, <2>9 DEF Carried
<1>2. ASSUME NEW w \in Workers, PopBlocks(w) \/ PopWakes(w) \/ PopFinished(w)
      PROVE  Carried'
  <2>1. /\ wpc' = wpc \/ wpc' = [wpc EXCEPT ![w] = "exit"]
        /\ UNCHANGED <<q, item, left, child>>
    BY <1>2 DEF PopBlocks, popBlocks, PopWakes, popWakes, PopFinished, popFinished,
                queueVars, workerVars
  <2>2. \A v \in Workers : wpc'[v] \in {"child", "push"} => wpc'[v] = wpc[v]
    BY <2>1 DEF TypeOK
  <2> QED
    BY <2>1, <2>2 DEF Carried
<1>3. ASSUME NEW w \in Workers, NEW n \in Nodes, SkipEntry(w, n) \/ VisitEntry(w, n)
      PROVE  Carried'
  <2>1. CASE SkipEntry(w, n)
    <3>1. (\A v \in Workers : left'[v] \subseteq left[v]) /\ UNCHANGED <<q, item, child, wpc>>
      BY <2>1 DEF SkipEntry, queueVars, TypeOK
    <3> QED
      BY <3>1 DEF Carried
  <2>2. CASE VisitEntry(w, n)
    <3>1. /\ n \in left[w] /\ UNCHANGED <<q, item>>
          /\ \A v \in Workers : left'[v] \subseteq left[v]
          /\ \A v \in Workers : child'[v] = IF v = w THEN n ELSE child[v]
          /\ \A v \in Workers : wpc'[v] = IF v = w THEN "child" ELSE wpc[v]
      BY <2>2 DEF VisitEntry, queueVars, TypeOK
    <3>2. \A v \in Workers : wpc'[v] \in {"child", "push"} => child'[v] \in Entries(item'[v][1])
      BY <3>1 DEF Carried
    <3> QED
      BY <3>1, <3>2 DEF Carried
  <2> QED
    BY <1>3, <2>1, <2>2
<1>4. ASSUME NEW w \in Workers, NoChild(w) \/ CountChild(w) PROVE Carried'
  <2>1. /\ wpc[w] = "child" /\ UNCHANGED <<q, item, left, child>>
        /\ \/ wpc' = [wpc EXCEPT ![w] = "scan"]
           \/ wpc' = [wpc EXCEPT ![w] = "push"] /\ child[w] \in Dirs
    BY <1>4 DEF NoChild, CountChild, IsChild, queueVars
  <2>2. /\ \A v \in Workers : wpc'[v] \in {"child", "push"} => wpc[v] \in {"child", "push"}
        /\ \A v \in Workers : wpc'[v] = "push" => wpc[v] = "push" \/ child[v] \in Dirs
    BY <2>1 DEF TypeOK
  <2> QED
    BY <2>1, <2>2 DEF Carried
<1>5. ASSUME NEW w \in Workers, PushChild(w) PROVE Carried'
  <2> DEFINE x == <<child[w], item[w][2] + 1>>
  <2>1. x \in Items /\ x[2] = Level[x[1]]
    BY <1>5, ChildItem DEF PushChild
  <2>2. q' = Append(q, x) /\ q \in Seq(Items)
    BY <1>5 DEF PushChild, push, TypeOK
  <2> HIDE DEF x
  <2>3. ASSUME NEW i \in DOMAIN q' PROVE q'[i][2] = Level[q'[i][1]]
    <3>1. CASE i \in DOMAIN q
      BY <2>1, <2>2, <3>1 DEF Carried
    <3>2. CASE i = Len(q) + 1
      BY <2>1, <2>2, <3>2
    <3> QED
      BY <2>1, <2>2, <3>1, <3>2
  <2>4. wpc' = [wpc EXCEPT ![w] = "scan"] /\ UNCHANGED <<item, left, child>>
    BY <1>5 DEF PushChild
  <2> QED
    BY <2>3, <2>4 DEF TypeOK, Carried
<1>6. ASSUME NEW w \in Workers, ScanFails(w) \/ ScanDone(w) \/ CountDone(w) \/ Signal(w)
      PROVE  Carried'
  <2>1. /\ \A v \in Workers : wpc'[v] \in {"child", "push"} => wpc'[v] = wpc[v]
        /\ \A v \in Workers : left'[v] \subseteq left[v]
        /\ UNCHANGED <<q, item, child>>
    BY <1>6 DEF ScanFails, ScanDone, CountDone, Signal, queueVars, TypeOK
  <2> QED
    BY <2>1 DEF Carried
<1>7. ASSUME Main \/ MainWakes \/ UNCHANGED vars PROVE Carried'
  BY <1>7 DEF Main, EvalPending, EvalEmpty, Finish, set_finished, Join, MainWakes,
              queueVars, workerVars, vars, Carried
<1> QED
  BY <1>1, <1>2, <1>3, <1>4, <1>5, <1>6, <1>7 DEF Next, Work, Terminated

\* Every step keeps the types, pending_work aside (fd3.cpp:37-184).
LEMMA StepTypes == TypeOK /\ Carried /\ [Next]_vars /\ pending' \in Nat => TypeOK'
<1> SUFFICES ASSUME TypeOK, Carried, [Next]_vars, pending' \in Nat PROVE TypeOK'
  OBVIOUS
<1>1. ASSUME NEW w \in Workers, PopItem(w) PROVE TypeOK'
  <2>1. PICK i \in Items : /\ q # <<>> /\ w \notin waiting /\ q' = Tail(q)
                           /\ item' = [item EXCEPT ![w] = i]
                           /\ left' = [left EXCEPT ![w] = Entries(i[1])]
                           /\ UNCHANGED <<finished, waiting>>
    BY <1>1 DEF PopItem, pop
  <2>2. Tail(q) \in Seq(Items)
    BY <2>1 DEF TypeOK
  <2>3. Entries(i[1]) \subseteq Nodes \ {Root}
    BY DEF Entries
  <2> QED
    BY <1>1, <2>1, <2>2, <2>3 DEF PopItem, TypeOK
<1>2. ASSUME NEW w \in Workers, PopBlocks(w) \/ PopWakes(w) \/ PopFinished(w)
      PROVE  TypeOK'
  BY <1>2 DEF PopBlocks, popBlocks, PopWakes, popWakes, PopFinished, popFinished,
              queueVars, workerVars, TypeOK
<1>3. ASSUME NEW w \in Workers, NEW n \in Nodes, SkipEntry(w, n) \/ VisitEntry(w, n)
      PROVE  TypeOK'
  <2>1. n \in Matching => Append(results, n) \in Seq(Matching)
    BY DEF TypeOK
  <2>2. CASE SkipEntry(w, n)
    BY <2>2 DEF SkipEntry, queueVars, TypeOK
  <2>3. CASE VisitEntry(w, n)
    BY <2>1, <2>3 DEF VisitEntry, queueVars, TypeOK
  <2> QED
    BY <1>3, <2>2, <2>3
<1>4. ASSUME NEW w \in Workers, NoChild(w) \/ CountChild(w) PROVE TypeOK'
  BY <1>4 DEF NoChild, CountChild, queueVars, TypeOK
<1>5. ASSUME NEW w \in Workers, PushChild(w) PROVE TypeOK'
  <2>1. q' \in Seq(Items)
    BY <1>5, ChildItem DEF PushChild, push, TypeOK
  <2>2. waiting' \subseteq waiting /\ finished' = finished
    BY <1>5 DEF PushChild, push
  <2> QED
    BY <1>5, <2>1, <2>2 DEF PushChild, TypeOK
<1>6. ASSUME NEW w \in Workers, ScanFails(w) \/ ScanDone(w) \/ CountDone(w) \/ Signal(w)
      PROVE  TypeOK'
  BY <1>6 DEF ScanFails, ScanDone, CountDone, Signal, queueVars, TypeOK
<1>7. ASSUME Main \/ MainWakes \/ UNCHANGED vars PROVE TypeOK'
  BY <1>7 DEF Main, EvalPending, EvalEmpty, Finish, set_finished, Join, MainWakes,
              queueVars, workerVars, vars, TypeOK
<1> QED
  BY <1>1, <1>2, <1>3, <1>4, <1>5, <1>6, <1>7 DEF Next, Work, Terminated

-----------------------------------------------------------------------------
\* The sets PendingCounts counts are finite.
LEMMA FiniteCounted ==
  /\ IsFiniteSet(InItem) /\ Cardinality(InItem) \in Nat
  /\ IsFiniteSet(Reserved) /\ Cardinality(Reserved) \in Nat
<1>1. InItem \subseteq Workers /\ Reserved \subseteq Workers
  BY DEF InItem, Reserved
<1> QED
  BY <1>1, FS_Subset, FS_CardinalityType

\* A step that moves nobody into or out of the counted places keeps the
\* count (fd3.cpp:92-118).
LEMMA CountKept ==
  ASSUME PendingCounts, InItem' = InItem, Reserved' = Reserved, UNCHANGED <<q, pending>>
  PROVE  PendingCounts'
BY DEF PendingCounts

\* Every step keeps the count (fd3.cpp:110-111, :120).
LEMMA StepCounts == TypeOK /\ PendingCounts /\ [Next]_vars => PendingCounts'
<1> SUFFICES ASSUME TypeOK, PendingCounts, [Next]_vars PROVE PendingCounts'
  OBVIOUS
<1>t. /\ wpc \in [Workers -> {"pop", "scan", "child", "push", "sub", "signal", "exit"}]
      /\ q \in Seq(Items)
      /\ pending \in Nat
  BY DEF TypeOK
<1> USE FiniteCounted
<1>1. ASSUME NEW w \in Workers, PopItem(w) PROVE PendingCounts'
  <2>1. /\ q # <<>> /\ q' = Tail(q) /\ pending' = pending
        /\ wpc[w] = "pop" /\ wpc' = [wpc EXCEPT ![w] = "scan"]
    BY <1>1 DEF PopItem, pop
  <2>2. InItem' = InItem \cup {w} /\ w \notin InItem /\ Reserved' = Reserved
    BY <1>t, <2>1 DEF InItem, Reserved
  <2>3. Cardinality(InItem \cup {w}) = Cardinality(InItem) + 1
    BY <2>2, FS_AddElement
  <2>4. Len(q') = Len(q) - 1 /\ Len(q) \in Nat
    BY <1>t, <2>1
  <2> QED
    BY <1>t, <2>1, <2>2, <2>3, <2>4 DEF PendingCounts
<1>2. ASSUME NEW w \in Workers, PopBlocks(w) \/ PopWakes(w) \/ PopFinished(w)
      PROVE  PendingCounts'
  <2>1. /\ wpc' = wpc \/ (wpc[w] = "pop" /\ wpc' = [wpc EXCEPT ![w] = "exit"])
        /\ UNCHANGED <<q, pending>>
    BY <1>2 DEF PopBlocks, popBlocks, PopWakes, popWakes, PopFinished, popFinished,
                queueVars, workerVars
  <2>2. InItem' = InItem /\ Reserved' = Reserved
    BY <1>t, <2>1 DEF InItem, Reserved
  <2> QED
    BY <2>1, <2>2, CountKept
<1>3. ASSUME NEW w \in Workers,
             \/ \E n \in Nodes : SkipEntry(w, n) \/ VisitEntry(w, n)
             \/ NoChild(w) \/ ScanFails(w) \/ ScanDone(w)
      PROVE  PendingCounts'
  <2>1. /\ wpc[w] \in {"scan", "child"}
        /\ wpc' = wpc \/ \E c \in {"scan", "child", "sub"} : wpc' = [wpc EXCEPT ![w] = c]
        /\ UNCHANGED <<q, pending>>
    BY <1>3 DEF SkipEntry, VisitEntry, NoChild, ScanFails, ScanDone, queueVars
  <2>2. InItem' = InItem /\ Reserved' = Reserved
    BY <1>t, <2>1 DEF InItem, Reserved
  <2> QED
    BY <2>1, <2>2, CountKept
<1>4. ASSUME NEW w \in Workers, CountChild(w) PROVE PendingCounts'
  <2>1. /\ wpc[w] = "child" /\ wpc' = [wpc EXCEPT ![w] = "push"]
        /\ pending' = pending + 1 /\ q' = q
    BY <1>4 DEF CountChild, queueVars
  <2>2. InItem' = InItem /\ Reserved' = Reserved \cup {w} /\ w \notin Reserved
    BY <1>t, <2>1 DEF InItem, Reserved
  <2>3. Cardinality(Reserved \cup {w}) = Cardinality(Reserved) + 1
    BY <2>2, FS_AddElement
  <2> QED
    BY <1>t, <2>1, <2>2, <2>3 DEF PendingCounts
<1>5. ASSUME NEW w \in Workers, PushChild(w) PROVE PendingCounts'
  <2>1. /\ wpc[w] = "push" /\ wpc' = [wpc EXCEPT ![w] = "scan"] /\ pending' = pending
        /\ q' = Append(q, <<child[w], item[w][2] + 1>>)
    BY <1>5 DEF PushChild, push
  <2>2. InItem' = InItem /\ Reserved' = Reserved \ {w} /\ w \in Reserved
    BY <1>t, <2>1 DEF InItem, Reserved
  <2>3. Cardinality(Reserved \ {w}) = Cardinality(Reserved) - 1
    BY <2>2, FS_RemoveElement
  <2>4. Len(q') = Len(q) + 1
    BY <1>t, <2>1
  <2> QED
    BY <1>t, <2>1, <2>2, <2>3, <2>4 DEF PendingCounts
<1>6. ASSUME NEW w \in Workers, CountDone(w) PROVE PendingCounts'
  <2>1. /\ wpc[w] = "sub" /\ wpc' = [wpc EXCEPT ![w] = "signal"]
        /\ pending' = pending - 1 /\ q' = q
    BY <1>6 DEF CountDone, queueVars
  <2>2. InItem' = InItem \ {w} /\ w \in InItem /\ Reserved' = Reserved
    BY <1>t, <2>1 DEF InItem, Reserved
  <2>3. Cardinality(InItem \ {w}) = Cardinality(InItem) - 1
    BY <2>2, FS_RemoveElement
  <2> QED
    BY <1>t, <2>1, <2>2, <2>3 DEF PendingCounts
<1>7. ASSUME NEW w \in Workers, Signal(w) PROVE PendingCounts'
  <2>1. /\ wpc[w] = "signal" /\ wpc' = [wpc EXCEPT ![w] = "pop"]
        /\ UNCHANGED <<q, pending>>
    BY <1>7 DEF Signal, queueVars
  <2>2. InItem' = InItem /\ Reserved' = Reserved
    BY <1>t, <2>1 DEF InItem, Reserved
  <2> QED
    BY <2>1, <2>2, CountKept
<1>8. ASSUME Main \/ MainWakes \/ UNCHANGED vars PROVE PendingCounts'
  <2>1. UNCHANGED <<wpc, q, pending>>
    BY <1>8 DEF Main, EvalPending, EvalEmpty, Finish, set_finished, Join, MainWakes,
                queueVars, workerVars, vars
  <2> QED
    BY <2>1, CountKept DEF InItem, Reserved
<1> QED
  BY <1>1, <1>2, <1>3, <1>4, <1>5, <1>6, <1>7, <1>8 DEF Next, Work, Terminated

-----------------------------------------------------------------------------
\* A count of zero leaves nothing queued and nobody at work.
LEMMA ZeroIsQuiet ==
  ASSUME TypeOK, PendingCounts, pending = 0
  PROVE  q = <<>> /\ InItem = {} /\ Reserved = {}
<1>1. Len(q) = 0 /\ Cardinality(InItem) = 0 /\ Cardinality(Reserved) = 0
  BY FiniteCounted DEF TypeOK, PendingCounts
<1> QED
  BY <1>1, FiniteCounted, FS_EmptySet DEF TypeOK

\* Nothing starts again once main has seen zero: to push takes an item, and
\* an item takes a push (fd3.cpp:92, :109-111, :167-169).
LEMMA StepQuiet ==
  TypeOK /\ PendingCounts /\ QuietSinceZero /\ [Next]_vars => QuietSinceZero'
<1> SUFFICES ASSUME TypeOK, PendingCounts, QuietSinceZero, [Next]_vars,
                    mpc' \in {"empty", "finish", "join", "done"}
             PROVE  q' = <<>> /\ InItem' = {} /\ Reserved' = {}
  BY DEF QuietSinceZero
<1>1. CASE EvalPending
  <2>1. pending = 0
    BY <1>1 DEF EvalPending
  <2> QED
    BY <1>1, <2>1, ZeroIsQuiet DEF EvalPending, queueVars, workerVars, InItem, Reserved
<1>2. CASE ~EvalPending
  <2>1. mpc \in {"empty", "finish", "join", "done"}
    BY <1>2 DEF Next, Work, PopItem, PopBlocks, PopWakes, PopFinished, SkipEntry, VisitEntry,
       NoChild, CountChild, PushChild, ScanFails, ScanDone, CountDone, Signal, Main, EvalEmpty,
       Finish, Join, MainWakes, Terminated, vars
  <2>2. q = <<>> /\ InItem = {} /\ Reserved = {}
    BY <2>1 DEF QuietSinceZero
  <2>3. \A w \in Workers : wpc[w] \in {"pop", "signal", "exit"}
    BY <2>2 DEF InItem, TypeOK
  <2>4. /\ q' = q
        /\ \A w \in Workers : wpc'[w] \in {"pop", "signal", "exit"}
    BY <1>2, <2>2, <2>3
       DEF Next, Work, PopItem, pop, PopBlocks, popBlocks, PopWakes, popWakes, PopFinished,
           popFinished, SkipEntry, VisitEntry, NoChild, CountChild, PushChild, ScanFails,
           ScanDone, CountDone, Signal, Main, EvalEmpty, Finish, set_finished, Join,
           MainWakes, Terminated, queueVars, workerVars, vars, TypeOK
  <2> QED
    BY <2>2, <2>4 DEF InItem, Reserved
<1> QED
  BY <1>1, <1>2

\* The worker that brings the count to zero still has its notification to
\* send, and main does not go to sleep on a count of zero (fd3.cpp:119-126,
\* :166-170).
LEMMA StepSignal ==
  TypeOK /\ QuietSinceZero /\ NoLostSignal /\ [Next]_vars => NoLostSignal'
<1> SUFFICES ASSUME TypeOK, QuietSinceZero, NoLostSignal, [Next]_vars,
                    mpc' = "wait", pending' = 0
             PROVE  \E w \in Workers : wpc'[w] = "signal"
  BY DEF NoLostSignal
<1>t. wpc \in [Workers -> {"pop", "scan", "child", "push", "sub", "signal", "exit"}]
  BY DEF TypeOK
<1>1. ASSUME NEW w \in Workers, CountDone(w) PROVE wpc'[w] = "signal"
  BY <1>t, <1>1 DEF CountDone
<1>2. ASSUME NEW w \in Workers, CountChild(w) PROVE FALSE
  BY <1>2 DEF CountChild, TypeOK
<1>3. ASSUME NEW w \in Workers, Signal(w) PROVE FALSE
  BY <1>3 DEF Signal
<1>4. ASSUME EvalPending \/ EvalEmpty PROVE FALSE
  BY <1>4 DEF EvalPending, EvalEmpty, QuietSinceZero, empty
<1>5. ASSUME NEW w \in Workers,
             \/ PopItem(w) \/ PopBlocks(w) \/ PopFinished(w) \/ PopWakes(w)
             \/ \E n \in Nodes : SkipEntry(w, n) \/ VisitEntry(w, n)
             \/ NoChild(w) \/ PushChild(w) \/ ScanFails(w) \/ ScanDone(w)
      PROVE  \E v \in Workers : wpc'[v] = "signal"
  <2>1. mpc = "wait" /\ pending = 0
    BY <1>5 DEF PopItem, PopBlocks, PopFinished, PopWakes, SkipEntry, VisitEntry, NoChild,
                PushChild, ScanFails, ScanDone
  <2>2. PICK v \in Workers : wpc[v] = "signal"
    BY <2>1 DEF NoLostSignal
  <2>3. wpc' = wpc \/ (wpc[w] # "signal" /\ \E c : wpc' = [wpc EXCEPT ![w] = c])
    BY <1>5 DEF PopItem, PopBlocks, PopFinished, PopWakes, SkipEntry, VisitEntry, NoChild,
                PushChild, ScanFails, ScanDone, workerVars
  <2> QED
    BY <1>t, <2>2, <2>3
<1>6. ASSUME Finish \/ Join \/ MainWakes PROVE FALSE
  BY <1>6 DEF Finish, Join, MainWakes
<1>7. ASSUME UNCHANGED vars PROVE \E v \in Workers : wpc'[v] = "signal"
  BY <1>7 DEF vars, workerVars, NoLostSignal
<1> QED
  BY <1>1, <1>2, <1>3, <1>4, <1>5, <1>6, <1>7 DEF Next, Work, Main, Terminated

\* The start directory is the one item, and nobody has popped it
\* (fd3.cpp:137-161).
LEMMA InitInv == Init => IInv
<1> SUFFICES ASSUME Init PROVE IInv
  OBVIOUS
<1> USE DEF Init, QueueInit
<1>1. TypeOK
  <2> DEFINE i == <<Root, 0>>
  <2>1. i \in Items
    OBVIOUS
  <2> HIDE DEF i
  <2>2. <<i>> \in Seq(Items) /\ <<>> \in Seq(Matching)
    BY <2>1
  <2>3. q = <<i>> /\ item = [w \in Workers |-> i]
    BY DEF i
  <2> QED
    BY <2>1, <2>2, <2>3 DEF TypeOK
<1>2. Carried
  BY DEF Carried, Entries
<1>3. PendingCounts
  <2>1. InItem = {} /\ Reserved = {} /\ Len(q) = 1
    BY DEF InItem, Reserved
  <2> QED
    BY <2>1, FS_EmptySet DEF PendingCounts
<1> QED
  BY <1>1, <1>2, <1>3 DEF IInv, QuietSinceZero, NoLostSignal

\* The invariant of the search.
THEOREM SearchInvariance == Spec => []IInv
<1>1. IInv /\ [Next]_vars => IInv'
  <2> SUFFICES ASSUME IInv, [Next]_vars PROVE IInv'
    OBVIOUS
  <2>1. Carried' /\ PendingCounts' /\ QuietSinceZero' /\ NoLostSignal'
    BY StepCarried, StepCounts, StepQuiet, StepSignal DEF IInv
  <2>2. Cardinality(InItem)' \in Nat /\ Cardinality(Reserved)' \in Nat
    <3>1. InItem' \subseteq Workers /\ Reserved' \subseteq Workers
      BY DEF InItem, Reserved
    <3> QED
      BY <3>1, FS_Subset, FS_CardinalityType
  <2>3. Len(q') \in Nat
    <3>1. CASE \E w \in Workers : PushChild(w)
      BY <3>1 DEF PushChild, push, IInv, TypeOK
    <3>2. CASE \E w \in Workers : PopItem(w)
      BY <3>2 DEF PopItem, pop, IInv, TypeOK
    <3>3. CASE q' = q
      BY <3>3 DEF IInv, TypeOK
    <3> QED
      BY <3>1, <3>2, <3>3
         DEF Next, Work, PopBlocks, popBlocks, PopWakes, popWakes, PopFinished, popFinished,
             SkipEntry, VisitEntry, NoChild, CountChild, ScanFails, ScanDone, CountDone,
             Signal, Main, EvalPending, EvalEmpty, Finish, set_finished, Join, MainWakes,
             Terminated, queueVars, vars
  <2>4. pending' \in Nat
    BY <2>1, <2>2, <2>3 DEF PendingCounts
  <2> QED
    BY <2>1, <2>4, StepTypes DEF IInv
<1> QED
  BY <1>1, InitInv, PTL DEF Spec

\* Type correctness of fd3's state.
THEOREM TypeCorrect == Spec => []TypeOK
<1>1. IInv => TypeOK
  BY DEF IInv
<1> QED
  BY <1>1, SearchInvariance, PTL

\* pending_work counts what is queued, processed or about to be queued
\* (fd3.cpp:110, :120, :138).
THEOREM Counts == Spec => []PendingCounts
<1>1. IInv => PendingCounts
  BY DEF IInv
<1> QED
  BY <1>1, SearchInvariance, PTL

\* main sleeps over finished work only while a worker still has to notify
\* it (fd3.cpp:119-126 against :166-170).
THEOREM Signals == Spec => []NoLostSignal
<1>1. IInv => NoLostSignal
  BY DEF IInv
<1> QED
  BY <1>1, SearchInvariance, PTL

\* set_finished comes when nothing is queued and nobody can push again
\* (fd3.cpp:169, :180).
THEOREM Quiet == Spec => []QuietAtFinish
<1>1. IInv => QuietAtFinish
  BY DEF IInv, QuietSinceZero, QuietAtFinish
<1> QED
  BY <1>1, SearchInvariance, PTL

-----------------------------------------------------------------------------
\* Workers on their way to the queue.
Ready == {w \in Workers : wpc[w] = "pop"} \ waiting

\* Workers that join or leave those on their way to the queue.
LEMMA ReadyCounted ==
  /\ IsFiniteSet(Ready) /\ Cardinality(Ready) \in Nat
  /\ \A w : w \notin Ready => Cardinality(Ready \cup {w}) = Cardinality(Ready) + 1
  /\ \A w \in Ready : Cardinality(Ready \ {w}) = Cardinality(Ready) - 1
<1>1. Ready \subseteq Workers
  BY DEF Ready
<1>2. IsFiniteSet(Ready)
  BY <1>1, FS_Subset
<1> QED
  BY <1>2, FS_CardinalityType, FS_AddElement, FS_RemoveElement

\* Each push wakes a sleeper, and each item taken is taken by a worker that
\* was not asleep (fd3.cpp:52-65).
LEMMA StepSleeping == TypeOK /\ NoSleepingOnWork /\ [Next]_vars => NoSleepingOnWork'
<1> SUFFICES ASSUME TypeOK, NoSleepingOnWork, [Next]_vars, waiting' # {}
             PROVE  Len(q') <= Cardinality(Ready')
  BY DEF NoSleepingOnWork, Ready
<1>t. /\ wpc \in [Workers -> {"pop", "scan", "child", "push", "sub", "signal", "exit"}]
      /\ q \in Seq(Items) /\ Len(q) \in Nat
      /\ \A w \in waiting : w \in Workers /\ wpc[w] = "pop"
      /\ waiting # {} => Len(q) <= Cardinality(Ready)
  BY DEF TypeOK, NoSleepingOnWork, Ready
<1> USE ReadyCounted
<1>1. ASSUME NEW w \in Workers, PopItem(w) PROVE Len(q') <= Cardinality(Ready')
  <2>1. /\ q # <<>> /\ q' = Tail(q) /\ waiting' = waiting /\ w \notin waiting
        /\ wpc[w] = "pop" /\ wpc' = [wpc EXCEPT ![w] = "scan"]
    BY <1>1 DEF PopItem, pop
  <2>2. w \in Ready /\ Ready' = Ready \ {w}
    BY <1>t, <2>1 DEF Ready
  <2>3. Len(q') = Len(q) - 1 /\ Len(q) <= Cardinality(Ready)
    BY <1>t, <2>1
  <2>4. Cardinality(Ready') = Cardinality(Ready) - 1
    BY <2>2
  <2> QED
    BY <1>t, <2>3, <2>4
<1>2. ASSUME NEW w \in Workers, PopBlocks(w) \/ PopFinished(w)
      PROVE  Len(q') <= Cardinality(Ready')
  <2>1. q = <<>> /\ q' = q
    BY <1>2 DEF PopBlocks, popBlocks, PopFinished, popFinished, queueVars
  <2>2. Ready' \subseteq Workers
    BY DEF Ready
  <2>3. Cardinality(Ready') \in Nat
    BY <2>2, FS_Subset, FS_CardinalityType
  <2> QED
    BY <2>1, <2>3
<1>3. ASSUME NEW w \in Workers, PopWakes(w) PROVE Len(q') <= Cardinality(Ready')
  <2>1. w \in waiting /\ waiting' = waiting \ {w} /\ UNCHANGED <<q, wpc>>
    BY <1>3 DEF PopWakes, popWakes, workerVars
  <2>2. w \notin Ready /\ Ready' = Ready \cup {w}
    BY <1>t, <2>1 DEF Ready
  <2>3. Cardinality(Ready') = Cardinality(Ready) + 1
    BY <2>2
  <2> QED
    BY <1>t, <2>1, <2>3
<1>4. ASSUME NEW w \in Workers, PushChild(w) PROVE Len(q') <= Cardinality(Ready')
  <2>1. /\ wpc[w] = "push" /\ wpc' = [wpc EXCEPT ![w] = "scan"]
        /\ q' = Append(q, <<child[w], item[w][2] + 1>>)
    BY <1>4 DEF PushChild, push
  <2>2. PICK v \in waiting : waiting' = waiting \ {v}
    BY <1>4 DEF PushChild, push
  <2>3. v \notin Ready /\ Ready' = Ready \cup {v}
    BY <1>t, <2>1, <2>2 DEF Ready
  <2>4. Len(q') = Len(q) + 1
    BY <1>t, <2>1
  <2> QED
    BY <1>t, <2>2, <2>3, <2>4
<1>5. ASSUME NEW w \in Workers, Signal(w) PROVE Len(q') <= Cardinality(Ready')
  <2>1. /\ wpc[w] = "signal" /\ wpc' = [wpc EXCEPT ![w] = "pop"]
        /\ UNCHANGED <<q, waiting>>
    BY <1>5 DEF Signal, queueVars
  <2>2. w \notin Ready /\ Ready' = Ready \cup {w}
    BY <1>t, <2>1 DEF Ready
  <2> QED
    BY <1>t, <2>1, <2>2
<1>6. ASSUME NEW w \in Workers,
             \/ \E n \in Nodes : SkipEntry(w, n) \/ VisitEntry(w, n)
             \/ NoChild(w) \/ CountChild(w) \/ ScanFails(w) \/ ScanDone(w) \/ CountDone(w)
      PROVE  Len(q') <= Cardinality(Ready')
  <2>1. /\ wpc[w] \in {"scan", "child", "sub"}
        /\ \/ wpc' = wpc
           \/ \E c \in {"scan", "child", "push", "sub", "signal"} :
                wpc' = [wpc EXCEPT ![w] = c]
        /\ UNCHANGED <<q, waiting>>
    BY <1>6 DEF SkipEntry, VisitEntry, NoChild, CountChild, ScanFails, ScanDone, CountDone,
                queueVars
  <2>2. Ready' = Ready
    BY <1>t, <2>1 DEF Ready
  <2> QED
    BY <1>t, <2>1, <2>2
<1>7. ASSUME Finish PROVE FALSE
  BY <1>7 DEF Finish, set_finished
<1>8. ASSUME EvalPending \/ EvalEmpty \/ Join \/ MainWakes \/ UNCHANGED vars
      PROVE  Len(q') <= Cardinality(Ready')
  <2>1. UNCHANGED <<wpc, q, waiting>>
    BY <1>8 DEF EvalPending, EvalEmpty, Join, MainWakes, queueVars, workerVars, vars
  <2>2. Ready' = Ready
    BY <2>1 DEF Ready
  <2> QED
    BY <1>t, <2>1, <2>2
<1> QED
  BY <1>1, <1>2, <1>3, <1>4, <1>5, <1>6, <1>7, <1>8 DEF Next, Work, Main, Terminated

\* No queued directory is left to sleeping workers alone (fd3.cpp:52-65).
THEOREM Sleepers == Spec => []NoSleepingOnWork
<1>1. Init => NoSleepingOnWork
  BY DEF Init, QueueInit, NoSleepingOnWork
<1>2. IInv => TypeOK
  BY DEF IInv
<1> QED
  BY <1>1, <1>2, StepSleeping, SearchInvariance, PTL DEF Spec
-----------------------------------------------------------------------------
(* The search reports what the recursive one does *)

\* The directory a worker found and has not pushed yet.
Held(w) == {d \in Dirs : wpc[w] \in {"child", "push"} /\ child[w] = d /\ DepthAllows(item[w][2])}

Queued == {d \in Dirs : \E i \in DOMAIN q : q[i][1] = d}
Known  == Queued \cup {d \in Dirs : \E w \in Workers : d \in Held(w)}
Opened == {n \in Nodes : \E w \in Workers : n \in left[w]}

\* S is the set of directories some worker popped.
Explores(S) ==
  /\ Explored(S, Known, Opened, Found, skipped, failed)
  /\ \A w \in InItem : item[w][1] \in S

\* No directory is in two places.
Apart ==
  /\ \A v, w \in InItem : item[v][1] = item[w][1] => v = w
  /\ \A w \in Workers : Held(w) \cap Queued = {}
  /\ \A w \in Workers : wpc[w] = "push" => DepthAllows(item[w][2])
  /\ \A w \in Workers : wpc[w] \notin {"scan", "child", "push"} => left[w] = {}
  /\ \A i, j \in DOMAIN q : q[i][1] = q[j][1] => i = j

Progress == Apart /\ \E S \in SUBSET Dirs : Explores(S)

\* A step that moves no directory and no entry.
Unmoved ==
  /\ \A w \in Workers : Held(w)' = Held(w)
  /\ UNCHANGED <<q, results, skipped, failed, left>>
  /\ \A w \in InItem' : w \in InItem /\ item'[w] = item[w]
  /\ \A w \in Workers : wpc'[w] = "push" => DepthAllows(item'[w][2])
  /\ \A w \in Workers : wpc'[w] \notin {"scan", "child", "push"} => left[w] = {}

\* Such a step keeps the progress made.
LEMMA UnmovedKeeps == Progress /\ Unmoved => Progress'
<1> SUFFICES ASSUME Progress, Unmoved PROVE Progress'
  OBVIOUS
<1>1. Queued' = Queued /\ Known' = Known /\ Opened' = Opened /\ Found' = Found
  BY DEF Unmoved, Queued, Known, Opened, Found
<1>2. Apart'
  <2>1. \A v, w \in InItem' : item'[v][1] = item'[w][1] => v = w
    BY DEF Unmoved, Progress, Apart
  <2>2. \A w \in Workers : Held(w)' \cap Queued' = {}
    BY <1>1 DEF Progress, Apart, Unmoved
  <2>3. \A i, j \in DOMAIN q' : q'[i][1] = q'[j][1] => i = j
    BY DEF Progress, Apart, Unmoved
  <2> QED
    BY <2>1, <2>2, <2>3 DEF Apart, Unmoved
<1>3. PICK S \in SUBSET Dirs : Explores(S)
  BY DEF Progress
<1>4. Explores(S)'
  <2>1. Explored(S, Known', Opened', Found', skipped', failed')
    BY <1>1, <1>3 DEF Explores, Unmoved
  <2>2. \A w \in InItem' : item'[w][1] \in S
    BY <1>3 DEF Explores, Unmoved
  <2> QED
    BY <2>1, <2>2 DEF Explores
<1> QED
  BY <1>2, <1>4 DEF Progress

\* What one worker holds or has still to read no other worker does.
LEMMA WorkersApart ==
  ASSUME TypeOK, Carried, Apart, NEW v \in Workers, NEW w \in Workers, v # w
  PROVE  /\ Held(v) \cap Held(w) = {}
         /\ left[v] \cap left[w] = {}
<1>1. ASSUME NEW u \in Workers
      PROVE  /\ Held(u) \cup left[u] \subseteq Entries(item[u][1])
             /\ u \notin InItem => Held(u) = {} /\ left[u] = {}
  <2>1. CASE wpc[u] \in {"child", "push"}
    BY <2>1 DEF Carried, Held, InItem
  <2>2. CASE wpc[u] \notin {"child", "push"}
    <3>1. Held(u) = {}
      BY <2>2 DEF Held
    <3> QED
      BY <2>2, <3>1 DEF Carried, Apart, InItem
  <2> QED
    BY <2>1, <2>2
<1>2. CASE v \in InItem /\ w \in InItem
  <2>1. item[v][1] # item[w][1]
    BY <1>2 DEF Apart
  <2>2. Entries(item[v][1]) \cap Entries(item[w][1]) = {}
    BY <2>1 DEF Entries
  <2> QED
    BY <1>1, <2>2
<1> QED
  BY <1>1, <1>2

\* An entry that a worker has read is no longer open (fd3.cpp:95).
LEMMA ReadOne ==
  ASSUME TypeOK, Carried, Apart, NEW w \in Workers, NEW n \in left[w],
         left' = [left EXCEPT ![w] = @ \ {n}]
  PROVE  n \in Opened /\ Opened' = Opened \ {n}
<1>1. n \in Nodes /\ left \in [Workers -> SUBSET (Nodes \ {Root})]
  BY DEF TypeOK
<1>2. \A v \in Workers : v # w => n \notin left[v]
  BY WorkersApart
<1> QED
  BY <1>1, <1>2 DEF Opened

\* continue after is_ignored (fd3.cpp:96-98).
LEMMA SkipProgress ==
  ASSUME TypeOK, Carried, Progress, NEW w \in Workers, NEW n \in Nodes, SkipEntry(w, n)
  PROVE  Progress'
<1>1. /\ wpc[w] = "scan" /\ n \in left[w] /\ left' = [left EXCEPT ![w] = @ \ {n}]
      /\ skipped' = skipped \cup {n}
      /\ UNCHANGED <<q, wpc, item, child, results, failed>>
  BY DEF SkipEntry, queueVars
<1>2. n \in Opened /\ Opened' = Opened \ {n}
  BY <1>1, ReadOne DEF Progress
<1>3. Queued' = Queued /\ Known' = Known /\ Found' = Found /\ InItem' = InItem
  BY <1>1 DEF Queued, Known, Held, Found, InItem
<1>4. PICK S \in SUBSET Dirs : Explores(S)
  BY DEF Progress
<1>5. Explored(S, Known', Opened', Found', skipped', failed')
  <2>1. Explored(S, Known, Opened \ {n}, Found, skipped \cup {n}, failed)
    BY <1>2, <1>4, ExploredSkip DEF Explores
  <2> QED
    BY <1>1, <1>2, <1>3, <2>1
<1>6. Explores(S)'
  BY <1>1, <1>3, <1>4, <1>5 DEF Explores
<1>7. \A v \in Workers : left'[v] \subseteq left[v]
  BY <1>1 DEF TypeOK
<1>8. Apart'
  BY <1>1, <1>3, <1>7 DEF Progress, Apart, Held
<1> QED
  BY <1>6, <1>8 DEF Progress

\* An entry is printed, and held if it is to be searched (fd3.cpp:100-109).
LEMMA VisitProgress ==
  ASSUME TypeOK, Carried, Progress, NEW w \in Workers, NEW n \in Nodes, VisitEntry(w, n)
  PROVE  Progress'
<1> DEFINE C == {x \in {n} : n \in Dirs /\ DepthAllows(Level[parent[n]])}
           M == {x \in {n} : n \in Matching}
<1>1. /\ wpc[w] = "scan" /\ n \in left[w] /\ left' = [left EXCEPT ![w] = @ \ {n}]
      /\ results' = IF n \in Matching THEN Append(results, n) ELSE results
      /\ child' = [child EXCEPT ![w] = n] /\ wpc' = [wpc EXCEPT ![w] = "child"]
      /\ UNCHANGED <<q, item, skipped, failed>>
  BY DEF VisitEntry, queueVars
<1>2. n \in Opened /\ Opened' = Opened \ {n}
  BY <1>1, ReadOne DEF Progress
<1>3. item[w][2] = Level[parent[n]]
  <2>1. n \in Entries(item[w][1]) /\ item[w][2] = Level[item[w][1]]
    BY <1>1 DEF Carried
  <2>2. parent[n] = item[w][1]
    BY <2>1 DEF Entries
  <2> QED
    BY <2>1, <2>2
<1>4. /\ wpc \in [Workers -> {"pop", "scan", "child", "push", "sub", "signal", "exit"}]
      /\ child \in [Workers -> Nodes \cup {NoNode}] /\ results \in Seq(Matching)
      /\ left \in [Workers -> SUBSET (Nodes \ {Root})]
  BY DEF TypeOK
<1>5. C \subseteq {n} /\ C \subseteq Dirs
  OBVIOUS
<1>6. Found' = Found \cup M
  <2>1. CASE n \in Matching
    <3>1. results' = Append(results, n) /\ M = {n}
      BY <1>1, <2>1
    <3>2. /\ DOMAIN results' = DOMAIN results \cup {Len(results) + 1}
          /\ results'[Len(results) + 1] = n
          /\ \A i \in DOMAIN results : results'[i] = results[i]
      BY <1>4, <3>1
    <3>3. Found' = {results'[i] : i \in DOMAIN results \cup {Len(results) + 1}}
      BY <3>2 DEF Found
    <3>4. Found' = Found \cup {n}
      BY <3>2, <3>3 DEF Found
    <3> QED
      BY <3>1, <3>4
  <2>2. CASE n \notin Matching
    BY <1>1, <2>2 DEF Found
  <2> QED
    BY <2>1, <2>2
<1>7. PICK S \in SUBSET Dirs : Explores(S)
  BY DEF Progress
<1>8. Explored(S, Known \cup C, Opened \ {n}, Found \cup M, skipped, failed) /\ n \notin Known
  <2>1. Explored(S, Known, Opened, Found, skipped, failed)
    BY <1>7 DEF Explores
  <2>2. Explored(S, Known \cup C, Opened \ {n}, Found \cup M, skipped, failed)
    BY <1>2, <2>1, ExploredVisit
  <2> QED
    BY <1>2, <2>1, <2>2 DEF Explored
<1>9. Queued' = Queued /\ InItem' = InItem
  BY <1>1, <1>4 DEF Queued, InItem
<1>10. /\ Held(w) = {} /\ Held(w)' = C
       /\ \A v \in Workers : v # w => Held(v)' = Held(v)
  <2>1. Held(w) = {}
    BY <1>1 DEF Held
  <2>2. Held(w)' = C
    BY <1>1, <1>3, <1>4 DEF Held
  <2>3. \A v \in Workers : v # w => Held(v)' = Held(v)
    BY <1>1, <1>4 DEF Held
  <2> QED
    BY <2>1, <2>2, <2>3
<1> HIDE DEF C, M
<1>11. Known' = Known \cup C
  BY <1>5, <1>9, <1>10 DEF Known
<1>12. Explores(S)'
  <2>1. Explored(S, Known', Opened', Found', skipped', failed')
    BY <1>1, <1>2, <1>6, <1>8, <1>11
  <2> QED
    BY <1>1, <1>7, <1>9, <2>1 DEF Explores
<1>13. Apart'
  <2>1. \A v \in Workers : Held(v)' \cap Queued' = {}
    BY <1>5, <1>8, <1>9, <1>10 DEF Progress, Apart, Known
  <2>2. \A v \in Workers : wpc'[v] \notin {"scan", "child", "push"} => left'[v] = {}
    BY <1>1, <1>4 DEF Progress, Apart
  <2>3. \A v \in Workers : wpc'[v] = "push" => DepthAllows(item'[v][2])
    BY <1>1, <1>4 DEF Progress, Apart
  <2> QED
    BY <1>1, <1>9, <2>1, <2>2, <2>3 DEF Progress, Apart
<1> QED
  BY <1>12, <1>13 DEF Progress

\* A worker whose directory throws gives up the entries it has not read,
\* and the one it was asking about (fd3.cpp:114-117).
LEMMA FailProgress ==
  ASSUME TypeOK, Carried, Progress, NEW w \in Workers, ScanFails(w)
  PROVE  Progress'
<1> DEFINE d == item[w][1]
<1>1. /\ wpc[w] \in {"scan", "child"} /\ wpc' = [wpc EXCEPT ![w] = "sub"]
      /\ left' = [left EXCEPT ![w] = {}]
      /\ failed' = failed \cup {d}
      /\ UNCHANGED <<q, item, child, results, skipped>>
  BY DEF ScanFails, queueVars
<1>2. /\ wpc \in [Workers -> {"pop", "scan", "child", "push", "sub", "signal", "exit"}]
      /\ left \in [Workers -> SUBSET (Nodes \ {Root})]
      /\ w \in InItem
  BY <1>1 DEF TypeOK, InItem
<1>3. Queued' = Queued /\ InItem' = InItem /\ Found' = Found
  BY <1>1, <1>2 DEF Queued, InItem, Found
<1>4. \A v \in Workers : Held(v)' = IF v = w THEN {} ELSE Held(v)
  BY <1>1, <1>2 DEF Held
<1>5. PICK S \in SUBSET Dirs : Explores(S)
  BY DEF Progress
<1>6. /\ Known' \subseteq Known /\ Known \ Known' \subseteq Held(w)
      /\ Opened' \subseteq Opened /\ Opened \ Opened' \subseteq left[w]
  BY <1>1, <1>2, <1>3, <1>4 DEF Known, Opened
<1>7. Held(w) \cup left[w] \subseteq Entries(d)
  BY DEF Carried, Held
<1>8. d \in S /\ Explored(S, Known, Opened, Found, skipped, failed)
  BY <1>2, <1>5 DEF Explores
<1>9. Root \in S \cup Known'
  BY <1>6, <1>7, <1>8 DEF Explored, Entries
<1> HIDE DEF d
<1>10. Explored(S, Known', Opened', Found, skipped, failed \cup {d})
  BY <1>6, <1>7, <1>8, <1>9, ExploredFail
<1>11. Explores(S)'
  <2>1. Explored(S, Known', Opened', Found', skipped', failed')
    BY <1>1, <1>3, <1>10
  <2> QED
    BY <1>1, <1>3, <1>5, <2>1 DEF Explores
<1>12. Apart'
  BY <1>1, <1>2, <1>3, <1>4 DEF Progress, Apart
<1> QED
  BY <1>11, <1>12 DEF Progress

\* A directory goes from the worker that holds it into the queue
\* (fd3.cpp:52-56, :111).
LEMMA PushProgress ==
  ASSUME TypeOK, Carried, Progress, NEW w \in Workers, PushChild(w)
  PROVE  Progress'
<1>0. PICK d : d = child[w]
  OBVIOUS
<1> DEFINE x == <<child[w], item[w][2] + 1>>
<1>1. x[1] = d
  BY <1>0
<1> HIDE DEF x
<1>2. /\ wpc[w] = "push" /\ wpc' = [wpc EXCEPT ![w] = "scan"]
      /\ q' = Append(q, x)
      /\ UNCHANGED <<item, left, child, results, skipped, failed>>
  BY DEF PushChild, push, x
<1>3. /\ wpc \in [Workers -> {"pop", "scan", "child", "push", "sub", "signal", "exit"}]
      /\ q \in Seq(Items) /\ d \in Dirs /\ d \in Held(w)
  BY <1>0, <1>2 DEF TypeOK, Carried, Held, Progress, Apart
<1>4. /\ DOMAIN q' = DOMAIN q \cup {Len(q) + 1}
      /\ q'[Len(q) + 1] = x
      /\ \A i \in DOMAIN q : q'[i] = q[i]
  BY <1>2, <1>3
<1>5. d \notin Queued
  BY <1>3 DEF Progress, Apart
<1>6. /\ Held(w)' = {} /\ Held(w) = {d}
      /\ \A v \in Workers : v # w => Held(v)' = Held(v) /\ d \notin Held(v)
  <2>1. Held(w)' = {} /\ Held(w) = {d}
    BY <1>0, <1>2, <1>3 DEF Held
  <2>2. ASSUME NEW v \in Workers, v # w PROVE Held(v)' = Held(v) /\ d \notin Held(v)
    <3>1. Held(v)' = Held(v)
      BY <1>2, <1>3, <2>2 DEF Held
    <3>2. Held(w) \cap Held(v) = {}
      BY <2>2, WorkersApart DEF Progress
    <3> QED
      BY <1>3, <3>1, <3>2
  <2> QED
    BY <2>1, <2>2
<1>7. Queued' = Queued \cup {d}
  <2>1. Queued' = {y \in Dirs : \E i \in DOMAIN q \cup {Len(q) + 1} : q'[i][1] = y}
    BY <1>4 DEF Queued
  <2> QED
    BY <1>1, <1>3, <1>4, <2>1 DEF Queued
<1>8. Opened' = Opened /\ InItem' = InItem /\ Found' = Found
  BY <1>2, <1>3 DEF Opened, InItem, Found
<1>9. Known' = Known
  <2>1. Known \subseteq Known'
    BY <1>3, <1>6, <1>7 DEF Known
  <2>2. Known' \subseteq Known
    BY <1>3, <1>6, <1>7 DEF Known
  <2> QED
    BY <2>1, <2>2
<1>10. PICK S \in SUBSET Dirs : Explores(S)
  BY DEF Progress
<1>11. Explores(S)'
  BY <1>2, <1>8, <1>9, <1>10 DEF Explores
<1>12. Apart'
  <2>1. \A i, j \in DOMAIN q' : q'[i][1] = q'[j][1] => i = j
    <3>1. \A i \in DOMAIN q : q'[i][1] # d
      <4>1. \A i \in DOMAIN q : q[i][1] = d => d \in Queued
        BY <1>3 DEF Queued
      <4> QED
        BY <1>4, <1>5, <4>1
    <3>2. \A i, j \in DOMAIN q : q'[i][1] = q'[j][1] => i = j
      BY <1>4 DEF Progress, Apart
    <3> QED
      BY <1>1, <1>4, <3>1, <3>2
  <2>2. \A v \in Workers : Held(v)' \cap Queued' = {}
    BY <1>6, <1>7 DEF Progress, Apart
  <2>3. /\ \A v \in Workers : wpc'[v] = "push" => DepthAllows(item'[v][2])
        /\ \A v \in Workers : wpc'[v] \notin {"scan", "child", "push"} => left'[v] = {}
    BY <1>2, <1>3 DEF Progress, Apart
  <2> QED
    BY <1>2, <1>8, <2>1, <2>2, <2>3 DEF Progress, Apart
<1> QED
  BY <1>11, <1>12 DEF Progress

\* A worker pops the directory that has been queued longest and opens it
\* (fd3.cpp:58-65, :95).
LEMMA PopProgress ==
  ASSUME TypeOK, Carried, Progress, NEW w \in Workers, PopItem(w)
  PROVE  Progress'
<1>1. PICK x \in Items : /\ wpc[w] = "pop" /\ q # <<>> /\ x = Head(q) /\ q' = Tail(q)
                         /\ item' = [item EXCEPT ![w] = x]
                         /\ left' = [left EXCEPT ![w] = Entries(x[1])]
                         /\ wpc' = [wpc EXCEPT ![w] = "scan"]
                         /\ UNCHANGED <<child, results, skipped, failed>>
  BY DEF PopItem, pop
<1>0. PICK d : d = x[1]
  OBVIOUS
<1>2. /\ q \in Seq(Items) /\ x = q[1] /\ 1 \in DOMAIN q
      /\ item \in [Workers -> Items]
      /\ wpc \in [Workers -> {"pop", "scan", "child", "push", "sub", "signal", "exit"}]
      /\ left \in [Workers -> SUBSET (Nodes \ {Root})]
      /\ left[w] = {} /\ Held(w) = {} /\ d \in Dirs
  <2>1. q \in Seq(Items)
    BY DEF TypeOK
  <2>2. x = q[1] /\ 1 \in DOMAIN q
    BY <1>1, <2>1
  <2> QED
    BY <1>0, <1>1, <2>1, <2>2 DEF TypeOK, Progress, Apart, Held
<1>4. /\ \A i \in DOMAIN Tail(q) : i + 1 \in DOMAIN q /\ i + 1 # 1 /\ Tail(q)[i] = q[i + 1]
      /\ \A i \in DOMAIN q : i # 1 => i - 1 \in DOMAIN Tail(q) /\ Tail(q)[i - 1] = q[i]
  <2> DEFINE k == Len(q)
  <2>1. /\ k \in Nat \ {0} /\ DOMAIN q = 1 .. k /\ DOMAIN Tail(q) = 1 .. (k - 1)
        /\ \A i \in 1 .. (k - 1) : Tail(q)[i] = q[i + 1]
    BY <1>1, <1>2
  <2> HIDE DEF k
  <2>2. \A i \in 1 .. (k - 1) : i + 1 \in 1 .. k /\ i + 1 # 1
    BY <2>1
  <2>3. \A i \in 1 .. k : i # 1 => i - 1 \in 1 .. (k - 1) /\ (i - 1) + 1 = i
    BY <2>1
  <2>4. \A i \in 1 .. k : i # 1 => Tail(q)[i - 1] = q[i]
    BY <2>1, <2>3
  <2> QED
    BY <2>1, <2>2, <2>3, <2>4
<1>5. Queued' = Queued \ {d} /\ d \in Queued
  <2>1. d \in Queued
    BY <1>0, <1>2 DEF Queued
  <2>2. \A i \in DOMAIN q : i # 1 => q[i][1] # d
    BY <1>0, <1>2 DEF Progress, Apart
  <2>3. Queued' \subseteq Queued \ {d}
    BY <1>1, <1>4, <2>2 DEF Queued
  <2>4. ASSUME NEW y \in Queued \ {d} PROVE y \in Queued'
    <3>1. PICK i \in DOMAIN q : q[i][1] = y
      BY DEF Queued
    <3>2. i - 1 \in DOMAIN Tail(q) /\ Tail(q)[i - 1][1] = y
      BY <1>0, <1>2, <1>4, <3>1
    <3> QED
      BY <1>1, <3>2 DEF Queued
  <2> QED
    BY <2>1, <2>3, <2>4
<1>6. \A v \in Workers : Held(v)' = Held(v) /\ d \notin Held(v)
  <2>1. \A v \in Workers : d \notin Held(v)
    BY <1>5 DEF Progress, Apart
  <2>2. Held(w)' = Held(w)
    BY <1>1, <1>2 DEF Held
  <2>3. \A v \in Workers : v # w => Held(v)' = Held(v)
    BY <1>1, <1>2 DEF Held
  <2> QED
    BY <2>1, <2>2, <2>3
<1>7. /\ InItem' = InItem \cup {w} /\ w \notin InItem
      /\ \A v \in Workers : v # w => item'[v] = item[v]
      /\ item'[w][1] = d
      /\ Opened' = Opened \cup Entries(d)
      /\ Found' = Found
  <2>1. InItem' = InItem \cup {w} /\ w \notin InItem /\ Found' = Found
    BY <1>1, <1>2 DEF InItem, Found
  <2>2. item'[w][1] = d /\ \A v \in Workers : v # w => item'[v] = item[v]
    BY <1>0, <1>1, <1>2
  <2>3. Opened' = Opened \cup Entries(d)
    BY <1>0, <1>1, <1>2 DEF Opened, Entries
  <2> QED
    BY <2>1, <2>2, <2>3
<1>8. Known' = Known \ {d} /\ d \in Known
  BY <1>5, <1>6 DEF Known
<1>9. PICK S \in SUBSET Dirs : Explores(S)
  BY DEF Progress
<1>10. Explored(S \cup {d}, Known \ {d}, Opened \cup Entries(d), Found, skipped, failed) /\ d \notin S
  BY <1>8, <1>9, ExploredStart DEF Explores
<1>11. Explores(S \cup {d})'
  <2>1. Explored(S \cup {d}, Known', Opened', Found', skipped', failed')
    BY <1>1, <1>7, <1>8, <1>10
  <2>2. \A v \in InItem' : item'[v][1] \in S \cup {d}
    BY <1>7, <1>9 DEF Explores, InItem
  <2> QED
    BY <2>1, <2>2 DEF Explores
<1>12. Apart'
  <2>1. \A u, v \in InItem' : item'[u][1] = item'[v][1] => u = v
    BY <1>7, <1>9, <1>10 DEF Explores, Progress, Apart, InItem
  <2>2. \A v \in Workers : Held(v)' \cap Queued' = {}
    BY <1>5, <1>6 DEF Progress, Apart
  <2>3. \A i, j \in DOMAIN q' : q'[i][1] = q'[j][1] => i = j
    BY <1>1, <1>4 DEF Progress, Apart
  <2>4. \A v \in Workers : wpc'[v] \notin {"scan", "child", "push"} => left'[v] = {}
    BY <1>1, <1>2 DEF Progress, Apart
  <2>5. \A v \in Workers : wpc'[v] = "push" => DepthAllows(item'[v][2])
    BY <1>1, <1>2, <1>7 DEF Progress, Apart
  <2> QED
    BY <2>1, <2>2, <2>3, <2>4, <2>5 DEF Apart
<1>13. S \cup {d} \in SUBSET Dirs
  BY <1>2
<1> QED
  BY <1>11, <1>12, <1>13 DEF Progress

\* Steps that change where a thread is and not what it holds.
LEMMA OtherProgress ==
  ASSUME TypeOK, Progress,
         \/ \E w \in Workers : \/ PopBlocks(w) \/ PopWakes(w) \/ PopFinished(w)
                               \/ NoChild(w) \/ CountChild(w) \/ ScanDone(w)
                               \/ CountDone(w) \/ Signal(w)
         \/ Main \/ MainWakes
         \/ UNCHANGED vars
  PROVE  Progress'
<1>t. /\ wpc \in [Workers -> {"pop", "scan", "child", "push", "sub", "signal", "exit"}]
      /\ \A w \in Workers : wpc[w] = "push" => DepthAllows(item[w][2])
      /\ \A w \in Workers : wpc[w] \notin {"scan", "child", "push"} => left[w] = {}
  BY DEF TypeOK, Progress, Apart
<1>1. ASSUME NEW w \in Workers, NoChild(w) PROVE Unmoved
  <2>1. /\ wpc[w] = "child" /\ wpc' = [wpc EXCEPT ![w] = "scan"] /\ ~IsChild(w)
        /\ UNCHANGED <<q, item, left, child, results, skipped, failed>>
    BY <1>1 DEF NoChild, queueVars
  <2>2. \A v \in Workers : Held(v)' = Held(v)
    BY <1>t, <2>1 DEF Held, IsChild
  <2> QED
    BY <1>t, <2>1, <2>2 DEF Unmoved, InItem
<1>2. ASSUME NEW w \in Workers, CountChild(w) PROVE Unmoved
  <2>1. /\ wpc[w] = "child" /\ wpc' = [wpc EXCEPT ![w] = "push"] /\ IsChild(w)
        /\ UNCHANGED <<q, item, left, child, results, skipped, failed>>
    BY <1>2 DEF CountChild, queueVars
  <2>2. \A v \in Workers : Held(v)' = Held(v)
    BY <1>t, <2>1 DEF Held
  <2> QED
    BY <1>t, <2>1, <2>2 DEF Unmoved, InItem, IsChild
<1>3. ASSUME NEW w \in Workers, PopFinished(w) \/ ScanDone(w) \/ CountDone(w) \/ Signal(w)
      PROVE  Unmoved
  <2>1. /\ wpc[w] \in {"pop", "scan", "sub", "signal"} /\ (wpc[w] = "scan" => left[w] = {})
        /\ \E x \in {"exit", "sub", "signal", "pop"} :
             /\ wpc' = [wpc EXCEPT ![w] = x]
             /\ x = "sub" <=> wpc[w] = "scan"
        /\ UNCHANGED <<q, item, left, child, results, skipped, failed>>
    BY <1>3 DEF PopFinished, popFinished, ScanDone, CountDone, Signal, queueVars
  <2>2. \A v \in Workers : Held(v)' = Held(v)
    BY <1>t, <2>1 DEF Held
  <2> QED
    BY <1>t, <2>1, <2>2 DEF Unmoved, InItem
<1>4. ASSUME \/ \E w \in Workers : PopBlocks(w) \/ PopWakes(w)
             \/ Main \/ MainWakes \/ UNCHANGED vars
      PROVE  Unmoved
  <2>1. UNCHANGED <<q, wpc, item, left, child, results, skipped, failed>>
    BY <1>4 DEF PopBlocks, popBlocks, PopWakes, popWakes, Main, EvalPending, EvalEmpty,
       Finish, set_finished, Join, MainWakes, queueVars, workerVars, vars
  <2> QED
    BY <1>t, <2>1 DEF Unmoved, Held, InItem
<1> QED
  BY <1>1, <1>2, <1>3, <1>4, UnmovedKeeps

\* Every step of the search keeps its directories apart and accounted for
\* (fd3.cpp:78-127, :163-184).
LEMMA StepProgress == TypeOK /\ Carried /\ Progress /\ [Next]_vars => Progress'
<1> SUFFICES ASSUME TypeOK, Carried, Progress, [Next]_vars PROVE Progress'
  OBVIOUS
<1>1. ASSUME NEW w \in Workers, NEW n \in Nodes, SkipEntry(w, n) \/ VisitEntry(w, n)
      PROVE  Progress'
  BY <1>1, SkipProgress, VisitProgress
<1>2. ASSUME NEW w \in Workers, ScanFails(w) \/ PushChild(w) \/ PopItem(w) PROVE Progress'
  BY <1>2, FailProgress, PushProgress, PopProgress
<1> QED
  BY <1>1, <1>2, OtherProgress DEF Next, Work, Terminated

\* The start directory is queued and nobody has popped anything
\* (fd3.cpp:137-161).
LEMMA InitProgress == Init => Progress
<1> SUFFICES ASSUME Init PROVE Progress
  OBVIOUS
<1> USE DEF Init
<1>1. /\ DOMAIN q = {1} /\ q[1][1] = Root /\ InItem = {} /\ Found = {} /\ Opened = {}
      /\ \A w \in Workers : Held(w) = {}
  BY DEF InItem, Found, Opened, Held
<1>2. Queued = {Root}
  <2> HIDE DEF Init
  <2> QED
    BY <1>1 DEF Queued
<1>3. Known = {Root}
  BY <1>1, <1>2 DEF Known
<1>4. Explored({}, {Root}, {}, {}, {}, {})
  BY DEF Explored
<1>5. Explores({})
  BY <1>1, <1>3, <1>4 DEF Explores
<1>6. Apart
  BY <1>1 DEF Apart
<1> QED
  BY <1>5, <1>6 DEF Progress

\* The invariant behind the refinement.
THEOREM ProgressInvariance == Spec => []Progress
<1>1. IInv /\ Progress /\ [Next]_vars => Progress'
  BY StepProgress DEF IInv
<1> QED
  BY <1>1, InitProgress, SearchInvariance, PTL DEF Spec

-----------------------------------------------------------------------------
(* The refinement *)

\* The abstract search has the same tree.
LEMMA SameReports ==
  ASSUME NEW sk, NEW fl
  PROVE  Search!Reported(sk, fl) = Reported(sk, fl)
BY DEF Search!Reported, Reported, Search!Searched, Searched, Search!ClosedUnderSearch,
       ClosedUnderSearch, Search!Entries, Entries, Search!DepthAllows, DepthAllows

\* A worker that scans means that main has not found the work finished
\* (fd3.cpp:166-170).
LEMMA NotEnded ==
  ASSUME IInv, NEW w \in Workers, wpc[w] \in {"scan", "child"}
  PROVE  ~ (mpc \in {"finish", "join", "done"})
BY DEF IInv, QuietSinceZero, InItem

\* A step that prints, skips, fails and ends nothing.
LEMMA Stutters ==
  ASSUME UNCHANGED <<results, skipped, failed, mpc>>
  PROVE  UNCHANGED Search!vars
BY DEF Search!vars

\* Each step of the threaded search is a step of the recursive search's
\* specification or changes nothing it sees (fd3.cpp:78-127, :163-184).
LEMMA StepSearch == IInv /\ Progress /\ [Next]_vars => [Search!Next]_(Search!vars)
<1> SUFFICES ASSUME IInv, Progress, [Next]_vars PROVE [Search!Next]_(Search!vars)
  OBVIOUS
<1>p. PICK S \in SUBSET Dirs : Explored(S, Known, Opened, Found, skipped, failed)
  BY DEF Progress, Explores
<1>s. Search!Seen = Found
  BY DEF Search!Seen, Found
<1>1. ASSUME NEW w \in Workers, NEW n \in Nodes, SkipEntry(w, n)
      PROVE  Search!Skip(n)
  <2>1. /\ n \in left[w] /\ TRUE \in is_ignored /\ wpc[w] = "scan"
        /\ skipped' = skipped \cup {n} /\ UNCHANGED <<results, failed, mpc>>
    BY <1>1 DEF SkipEntry
  <2>2. n \in Opened /\ n \notin Found
    BY <1>p, <2>1 DEF Opened, Explored
  <2> QED
    BY <1>s, <2>1, <2>2, NotEnded DEF Search!Skip, Search!is_ignored, is_ignored
<1>2. ASSUME NEW w \in Workers, NEW n \in Nodes, VisitEntry(w, n)
      PROVE  Search!Report(n) \/ UNCHANGED Search!vars
  <2>1. /\ n \in left[w] /\ wpc[w] = "scan"
        /\ results' = IF n \in Matching THEN Append(results, n) ELSE results
        /\ UNCHANGED <<skipped, failed, mpc>>
    BY <1>2 DEF VisitEntry
  <2>2. CASE n \notin Matching
    BY <2>1, <2>2, Stutters
  <2>3. CASE n \in Matching
    <3>1. n \in Opened /\ n \notin Found
      BY <1>p, <2>1 DEF Opened, Explored
    <3>2. n \in Reported(skipped, {})
      BY <1>p, <2>3, <3>1, OpenIsReported
    <3>3. n \in Search!Reported(skipped, {})
      BY <3>2, SameReports
    <3> QED
      BY <1>s, <2>1, <2>3, <3>1, <3>3, NotEnded DEF Search!Report
  <2> QED
    BY <2>2, <2>3
<1>3. ASSUME NEW w \in Workers, ScanFails(w)
      PROVE  \E d \in Faulty : Search!Fail(d)
  <2>1. /\ wpc[w] \in {"scan", "child"} /\ item[w][1] \in Faulty
        /\ failed' = failed \cup {item[w][1]}
        /\ UNCHANGED <<results, skipped, mpc>>
    BY <1>3 DEF ScanFails
  <2> QED
    BY <2>1, NotEnded DEF Search!Fail
<1>4. ASSUME EvalEmpty PROVE Search!End
  <2>1. mpc = "empty" /\ UNCHANGED <<results, skipped, failed>>
    BY <1>4 DEF EvalEmpty
  <2>2. q = <<>> /\ InItem = {} /\ Reserved = {}
    BY <2>1 DEF IInv, QuietSinceZero
  <2>3. mpc' = "finish"
    BY <1>4, <2>2 DEF EvalEmpty, empty
  <2>4. \A w \in Workers : left[w] = {} /\ Held(w) = {}
    BY <2>2 DEF InItem, Held, Progress, Apart
  <2>5. Known = {} /\ Opened = {}
    BY <2>2, <2>4 DEF Known, Queued, Opened
  <2>6. Reported(skipped, failed) \subseteq Found
    BY <1>p, <2>5, AllIsFound
  <2>7. Search!Reported(skipped, failed) \subseteq Search!Seen
    BY <1>s, <2>6, SameReports
  <2> QED
    BY <2>1, <2>3, <2>7 DEF Search!End
<1>5. ASSUME \/ \E w \in Workers : \/ PopItem(w) \/ PopBlocks(w) \/ PopWakes(w)
                                   \/ PopFinished(w) \/ NoChild(w) \/ CountChild(w)
                                   \/ PushChild(w) \/ ScanDone(w) \/ CountDone(w)
                                   \/ Signal(w)
             \/ EvalPending \/ MainWakes \/ Finish \/ Join \/ UNCHANGED vars
      PROVE  UNCHANGED Search!vars
  <2>1. /\ UNCHANGED <<results, skipped, failed>>
        /\ mpc \in {"finish", "join", "done"} <=> mpc' \in {"finish", "join", "done"}
    BY <1>5 DEF PopItem, PopBlocks, PopWakes, PopFinished, NoChild, CountChild, PushChild,
       ScanDone, CountDone, Signal, EvalPending, MainWakes, Finish, Join, vars
  <2> QED
    BY <2>1 DEF Search!vars
<1> QED
  BY <1>1, <1>2, <1>3, <1>4, <1>5 DEF Next, Work, Main, Terminated, Search!Next

\* The threaded search prints what the recursive one would: each entry once,
\* only entries it would reach, and all of them before main goes on to join,
\* but for those in or below a directory that threw (fd3.cpp:78-127 against
\* fd.cpp:67-94).
THEOREM SearchImplements == Spec => ImplementsSearch
<1>1. Init => Search!Init
  BY DEF Init, Search!Init
<1> QED
  BY <1>1, StepSearch, SearchInvariance, ProgressInvariance, PTL
     DEF Spec, ImplementsSearch, Search!Spec
=============================================================================
