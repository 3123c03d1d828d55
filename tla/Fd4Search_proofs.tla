-------------------------- MODULE Fd4Search_proofs ---------------------------
(***************************************************************************)
(* What holds of fd4's search for every tree and every number of workers.  *)
(* The search takes only steps the pool allows, so the pool's theorems are *)
(* the search's; on top of them this module proves the counting argument   *)
(* by which main knows that the search is over.                            *)
(***************************************************************************)
EXTENDS Fd4Search, ThreadPool_proofs, WellFoundedInduction

(***************************************************************************)
(* What any search of the tree may rely on, whatever the order in which it *)
(* takes the directories: if every known directory was found by a started  *)
(* one, what is reported is what the recursive search reports, and when    *)
(* nothing is left the report is complete.                                 *)
(***************************************************************************)
USE TreeAssumption

\* A directory is known before it is started, and found by a started one; the
\* entries of started directories are open, ignored, or visited.
Explored(started, known, open, matched, ignored, thrown) ==
  /\ Root \in started \cup known
  /\ started \cup known \subseteq Dirs
  /\ started \cap known = {}
  /\ \A d \in (started \cup known) \ {Root} :
       parent[d] \in started /\ DepthAllows(Level[parent[d]]) /\ d \notin ignored
  /\ \A n \in open \cup matched \cup ignored :
       n \in Nodes /\ n # Root /\ parent[n] \in started
  /\ \A n \in open : n \notin matched \cup ignored \cup started \cup known
  /\ \A d \in started \ thrown : \A n \in Entries(d) :
       \/ n \in open \cup ignored
       \/ /\ n \in Matching => n \in matched
          /\ n \in Dirs /\ DepthAllows(Level[d]) => n \in started \cup known

-----------------------------------------------------------------------------
(* The steps of a search *)

\* A known directory is started: all its entries are open
\* (fd3.cpp:92-95, fd4.cpp:123).
LEMMA ExploredStart ==
  ASSUME NEW S, NEW K, NEW L, NEW F, NEW sk, NEW fl, Explored(S, K, L, F, sk, fl),
         NEW d \in K
  PROVE  Explored(S \cup {d}, K \ {d}, L \cup Entries(d), F, sk, fl) /\ d \notin S
<1> DEFINE E == Entries(d)
<1>1. d \in Dirs /\ d \in Nodes /\ d \notin S
  BY DEF Explored
<1>2. \A n \in E : n \in Nodes /\ n # Root /\ parent[n] = d /\ n \notin F \cup sk \cup S \cup K
  BY <1>1 DEF Explored, Entries
<1>3. \A x \in S : \A n \in Entries(x) : n \notin E
  BY <1>1 DEF Entries
<1> HIDE DEF E
<1>4. \A n \in L \cup E : n \notin F \cup sk \cup S \cup K
  BY <1>2 DEF Explored
<1>5. Explored(S \cup {d}, K \ {d}, L \cup E, F, sk, fl)
  <2>1. (S \cup {d}) \cup (K \ {d}) = S \cup K
    OBVIOUS
  <2>2. \A x \in (S \cup {d}) \ fl : \A n \in Entries(x) :
          \/ n \in (L \cup E) \cup sk
          \/ /\ n \in Matching => n \in F
             /\ n \in Dirs /\ DepthAllows(Level[x]) => n \in S \cup K
    BY DEF Explored, E
  <2>3. \A n \in (L \cup E) \cup F \cup sk : n \in Nodes /\ n # Root /\ parent[n] \in S \cup {d}
    BY <1>2 DEF Explored
  <2> QED
    BY <1>1, <1>4, <2>1, <2>2, <2>3 DEF Explored
<1> QED
  BY <1>1, <1>5 DEF E

\* is_ignored rejects an open entry (fd3.cpp:96-98, fd4.cpp:124-126).
LEMMA ExploredSkip ==
  ASSUME NEW S, NEW K, NEW L, NEW F, NEW sk, NEW fl, Explored(S, K, L, F, sk, fl),
         NEW n \in L
  PROVE  Explored(S, K, L \ {n}, F, sk \cup {n}, fl)
BY DEF Explored

\* An open entry is visited: reported when it matches, known when it is a
\* directory within the depth (fd3.cpp:100-112, fd4.cpp:129-138).
LEMMA ExploredVisit ==
  ASSUME NEW S, NEW K, NEW L, NEW F, NEW sk, NEW fl, Explored(S, K, L, F, sk, fl),
         NEW n \in L
  PROVE  Explored(S, K \cup {x \in {n} : n \in Dirs /\ DepthAllows(Level[parent[n]])},
                  L \ {n}, F \cup {x \in {n} : n \in Matching}, sk, fl)
<1> DEFINE C == {x \in {n} : n \in Dirs /\ DepthAllows(Level[parent[n]])}
           M == {x \in {n} : n \in Matching}
<1>1. n \in Nodes /\ n # Root /\ parent[n] \in S /\ n \notin F \cup sk \cup S \cup K
  BY DEF Explored
<1>2. /\ C \subseteq {n} /\ M \subseteq {n} /\ (n \in Matching => n \in M)
      /\ \A x \in C : x = n /\ n \in Dirs /\ DepthAllows(Level[parent[n]])
      /\ n \in Dirs /\ DepthAllows(Level[parent[n]]) => n \in C
  OBVIOUS
<1>3. \A d \in S : n \in Entries(d) => parent[n] = d
  BY DEF Entries
<1> HIDE DEF C, M
<1>4. Explored(S, K \cup C, L \ {n}, F \cup M, sk, fl)
  <2>1. \A d \in (S \cup (K \cup C)) \ {Root} :
          parent[d] \in S /\ DepthAllows(Level[parent[d]]) /\ d \notin sk
    BY <1>1, <1>2 DEF Explored
  <2>2. \A m \in (L \ {n}) \cup (F \cup M) \cup sk : m \in Nodes /\ m # Root /\ parent[m] \in S
    BY <1>1, <1>2 DEF Explored
  <2>3. \A m \in L \ {n} : m \notin (F \cup M) \cup sk \cup S \cup (K \cup C)
    BY <1>2 DEF Explored
  <2>4. \A d \in S \ fl : \A m \in Entries(d) :
          \/ m \in (L \ {n}) \cup sk
          \/ /\ m \in Matching => m \in F \cup M
             /\ m \in Dirs /\ DepthAllows(Level[d]) => m \in S \cup (K \cup C)
    <3> SUFFICES ASSUME NEW d \in S \ fl, NEW m \in Entries(d)
                 PROVE  \/ m \in (L \ {n}) \cup sk
                        \/ /\ m \in Matching => m \in F \cup M
                           /\ m \in Dirs /\ DepthAllows(Level[d]) => m \in S \cup (K \cup C)
      OBVIOUS
    <3>1. CASE m = n
      <4>1. parent[n] = d
        BY <1>3, <3>1
      <4>2. n \in Matching => n \in F \cup M
        BY <1>2
      <4>3. n \in Dirs /\ DepthAllows(Level[d]) => n \in C
        BY <1>2, <4>1
      <4> QED
        BY <3>1, <4>2, <4>3
    <3>2. CASE m # n
      BY <3>2 DEF Explored
    <3> QED
      BY <3>1, <3>2
  <2>5. Root \in S \cup (K \cup C) /\ S \cup (K \cup C) \subseteq Dirs /\ S \cap (K \cup C) = {}
    BY <1>1, <1>2 DEF Explored
  <2> QED
    BY <2>1, <2>2, <2>3, <2>4, <2>5 DEF Explored
<1> QED
  BY <1>4 DEF C, M

\* Reading a started directory throws: what it has still to yield, and what it
\* yielded and did not hand on, is given up (fd3.cpp:114-117, fd4.cpp:160-162).
LEMMA ExploredFail ==
  ASSUME NEW S, NEW K, NEW L, NEW F, NEW sk, NEW fl, Explored(S, K, L, F, sk, fl),
         NEW d \in S, NEW K2 \in SUBSET K, NEW L2 \in SUBSET L, Root \in S \cup K2,
         (K \ K2) \cup (L \ L2) \subseteq Entries(d)
  PROVE  Explored(S, K2, L2, F, sk, fl \cup {d})
<1>1. \A x \in S \ (fl \cup {d}) : \A n \in Entries(x) : n \notin (K \ K2) \cup (L \ L2)
  BY DEF Entries
<1>2. \A x \in S \ (fl \cup {d}) : \A n \in Entries(x) :
          \/ n \in L2 \cup sk
          \/ /\ n \in Matching => n \in F
             /\ n \in Dirs /\ DepthAllows(Level[x]) => n \in S \cup K2
  BY <1>1 DEF Explored
<1> QED
  BY <1>2 DEF Explored

-----------------------------------------------------------------------------
(* What is reported *)

\* Each known directory is one the recursive search visits if no directory
\* throws: otherwise take the one nearest to the root (fd.cpp:67-94).
LEMMA KnownIsSearched ==
  ASSUME NEW S, NEW K, NEW L, NEW F, NEW sk, NEW fl, Explored(S, K, L, F, sk, fl)
  PROVE  S \cup K \subseteq Searched(sk, {})
<1> SUFFICES ASSUME NEW C \in SUBSET Dirs, ClosedUnderSearch(C, sk, {})
             PROVE  S \cup K \subseteq C
  BY DEF Explored, Searched
<1> SUFFICES ASSUME (S \cup K) \ C # {} PROVE FALSE
  OBVIOUS
<1> DEFINE T == {k \in Nat : \E d \in (S \cup K) \ C : Level[d] = k}
<1>1. T # {} /\ T \subseteq Nat
  BY DEF Explored
<1>2. PICK k \in T : \A j \in T : ~ (<<j, k>> \in OpToRel(<, Nat))
  BY <1>1, WFMin, NatLessThanWellFounded
<1>3. PICK d \in (S \cup K) \ C : Level[d] = k
  OBVIOUS
<1>4. d \in Dirs /\ d # Root /\ d \notin sk
  BY DEF ClosedUnderSearch, Explored
<1>5. parent[d] \in S /\ DepthAllows(Level[parent[d]]) /\ Level[d] = Level[parent[d]] + 1
  BY <1>4 DEF Explored
<1>6. parent[d] \in C
  <2>1. CASE parent[d] \notin C
    <3>1. Level[parent[d]] \in T /\ Level[parent[d]] < k /\ k \in Nat
      BY <1>3, <1>5, <2>1 DEF Explored
    <3> QED
      BY <1>2, <3>1 DEF OpToRel
  <2> QED
    BY <2>1
<1> QED
  BY <1>4, <1>5, <1>6 DEF ClosedUnderSearch, Entries

\* An open entry that matches is one the recursive search would report
\* (fd.cpp:75-85).
LEMMA OpenIsReported ==
  ASSUME NEW S, NEW K, NEW L, NEW F, NEW sk, NEW fl, Explored(S, K, L, F, sk, fl),
         NEW n \in L, n \in Matching
  PROVE  n \in Reported(sk, {})
<1>1. n # Root /\ n \notin sk /\ parent[n] \in S
  BY DEF Explored
<1> QED
  BY <1>1, KnownIsSearched DEF Reported

\* When nothing is known that was not started, and nothing is open, everything
\* the recursive search reports has been found (fd.cpp:67-94).
LEMMA AllIsFound ==
  ASSUME NEW S, NEW F, NEW sk, NEW fl, Explored(S, {}, {}, F, sk, fl)
  PROVE  Reported(sk, fl) \subseteq F
<1>1. ClosedUnderSearch(S, sk, fl) /\ S \in SUBSET Dirs
  BY DEF ClosedUnderSearch, Explored
<1>2. Searched(sk, fl) \subseteq S
  BY <1>1 DEF Searched
<1> QED
  <2> SUFFICES ASSUME NEW n \in (Matching \ {Root}) \ sk, parent[n] \in S \ fl PROVE n \in F
    BY <1>2 DEF Reported
  <2>1. n \in Entries(parent[n])
    BY DEF Entries
  <2> QED
    BY <2>1 DEF Explored

-----------------------------------------------------------------------------
\* How the search's program counters follow the pool's.
Link ==
  /\ \A w \in Workers : spc[w] # "off" => wpc[w] = "run"
  /\ \A t \in Threads : spc[t] = "push" <=> epc[t] # "none"
  /\ \A t \in Threads : spc[t] # "scan" => left[t] = {}
  /\ \A t \in Threads : spc[t] = "off" => subdirs[t] = {}
  /\ dpc # "live" => mpc = "leave"

\* Every call is given the depth of the directory it is given, and works on
\* that directory's entries.
Carried ==
  /\ \A i \in DOMAIN tasks : tasks[i][2] = Level[tasks[i][1]]
  /\ \A t \in Threads : epc[t] = "push" => earg[t][2] = Level[earg[t][1]]
  /\ \A w \in Workers : wpc[w] = "run" => task[w][2] = Level[task[w][1]]
  /\ \A t \in Threads : left[t] \cup subdirs[t] \subseteq Entries(Item(t)[1])

FInv == Fd4TypeOK /\ IInv /\ Link /\ Carried

USE PoolAssumption, TreeAssumption, ItemsAssumption

SearchStep(t) ==
  \/ (\E n \in Nodes : SkipEntry(t, n)) \/ (\E n \in Nodes : VisitEntry(t, n))
  \/ ScanFails(t) \/ ScanDone(t) \/ CountChild(t) \/ Leave(t)

\* A directory found in a scan is a task of the pool once its depth is
\* one more than its parent's (fd4.cpp:147-152).
LEMMA ChildItem ==
  ASSUME FInv, NEW t \in Threads, NEW d \in subdirs[t]
  PROVE  /\ d \in Dirs /\ d # Root /\ parent[d] = Item(t)[1]
         /\ Item(t)[2] + 1 = Level[d]
         /\ <<d, Item(t)[2] + 1>> \in Tasks
<1>1. spc[t] # "off"
  BY DEF FInv, Link
<1>2. Item(t)[2] = Level[Item(t)[1]]
  BY <1>1 DEF FInv, Link, Carried, Item, Threads
<1>3. d \in Dirs /\ d # Root /\ parent[d] = Item(t)[1]
  BY DEF FInv, Fd4TypeOK, Carried, Entries
<1> QED
  BY <1>2, <1>3

\* A step of the search is a step of the pool or leaves the pool alone
\* (fd4.cpp:147, :208).
LEMMA StepIsPoolStep == FInv /\ [Fd4Next]_allVars => [Next]_vars
<1> SUFFICES ASSUME FInv, [Fd4Next]_allVars PROVE [Next]_vars
  OBVIOUS
<1>1. ASSUME NEW t \in Threads, SearchStep(t) PROVE UNCHANGED vars
  BY <1>1 DEF SearchStep, SkipEntry, VisitEntry, ScanFails, ScanDone, CountChild, Leave
<1>2. ASSUME NEW t \in Threads, NEW d \in Dirs, EnqueueChild(t, d)
      PROVE  \E x \in Tasks : EnqueueChecked(t, x)
  BY <1>2, ChildItem DEF EnqueueChild
<1>3. ASSUME NEW t \in Threads, PushChild(t) \/ EnqueueReturns(t)
      PROVE  EnqueuePush(t) \/ NotifyOne(t)
  BY <1>3 DEF PushChild, EnqueueReturns
<1>4. ASSUME NEW w \in Workers, StartItem(w) \/ FinishItem(w) \/ Idle(w) \/ Wake(w)
      PROVE  WorkerStep(w) \/ Finish(w) \/ SpuriousWake(w)
  BY <1>4 DEF StartItem, FinishItem, Idle, Wake, WorkerStep
<1>5. ASSUME Main PROVE Dtor \/ UNCHANGED vars
  BY <1>5 DEF Main, PollDone, PrintResults, DestroyPool
<1>6. CASE UNCHANGED allVars
  BY <1>6 DEF allVars
<1> QED
  BY <1>1, <1>2, <1>3, <1>4, <1>5, <1>6
     DEF Fd4Next, Scan, Spawn, SearchStep, Next, Enqueue

\* Every step of the search keeps types, program counters and depths
\* (fd4.cpp:105-165, :204-232).
LEMMA StepFInv == FInv /\ [Fd4Next]_allVars => FInv' \/ active' \notin Nat
<1> SUFFICES ASSUME FInv, [Fd4Next]_allVars, active' \in Nat PROVE FInv'
  OBVIOUS
<1>0. IInv' /\ TypeOK'
  BY StepIsPoolStep, StepInv DEF FInv, IInv
<1> USE DEF FInv
<1>t. TypeOK
  BY DEF IInv
<1>1. ASSUME NEW t \in Threads, NEW n \in Nodes, SkipEntry(t, n) PROVE FInv'
  BY <1>0, <1>1 DEF SkipEntry, Fd4TypeOK, Link, Carried, Item, vars
<1>2. ASSUME NEW t \in Threads, NEW n \in Nodes, VisitEntry(t, n) PROVE FInv'
  <2>1. results' \in Seq(Matching)
    BY <1>2 DEF VisitEntry, Fd4TypeOK
  <2> QED
    BY <1>0, <1>2, <2>1 DEF VisitEntry, Fd4TypeOK, Link, Carried, Item, vars
<1>3. ASSUME NEW t \in Threads, ScanFails(t) PROVE FInv'
  BY <1>0, <1>3 DEF ScanFails, Fd4TypeOK, Link, Carried, Item, vars
<1>4. ASSUME NEW t \in Threads, ScanDone(t) \/ CountChild(t) \/ Leave(t) PROVE FInv'
  <2>1. CASE ScanDone(t)
    <3>1. Fd4TypeOK'
      BY <1>0, <2>1 DEF ScanDone, Fd4TypeOK
    <3>2. Link' /\ Carried'
      BY <2>1 DEF ScanDone, Fd4TypeOK, Link, Carried, Item, vars
    <3> QED
      BY <1>0, <3>1, <3>2
  <2>3. CASE CountChild(t)
    <3>1. Fd4TypeOK'
      BY <1>0, <2>3 DEF CountChild, Fd4TypeOK
    <3>2. Link' /\ Carried'
      BY <2>3 DEF CountChild, Fd4TypeOK, Link, Carried, Item, vars
    <3> QED
      BY <1>0, <3>1, <3>2
  <2>2. CASE Leave(t)
    <3>1. Fd4TypeOK'
      BY <1>0, <2>2 DEF Leave, Fd4TypeOK, Threads
    <3>2. Link' /\ Carried'
      BY <2>2 DEF Leave, Fd4TypeOK, Link, Carried, Item, vars
    <3> QED
      BY <1>0, <3>1, <3>2
  <2> QED
    BY <1>4, <2>1, <2>2, <2>3
<1>5. ASSUME NEW t \in Threads, NEW d \in Dirs, EnqueueChild(t, d) PROVE FInv'
  <2>1. <<d, Item(t)[2] + 1>>[2] = Level[<<d, Item(t)[2] + 1>>[1]]
    BY <1>5, ChildItem DEF EnqueueChild
  <2>2. Fd4TypeOK'
    BY <1>0, <1>t, <1>5 DEF EnqueueChild, EnqueueChecked, Fd4TypeOK
  <2>3. Link'
    BY <1>t, <1>5 DEF EnqueueChild, EnqueueChecked, Fd4TypeOK, Link, TypeOK
  <2>4. Carried'
    <3> DEFINE x == <<d, Item(t)[2] + 1>>
    <3>1. x[2] = Level[x[1]]
      BY <2>1
    <3> HIDE DEF x
    <3>2. EnqueueChecked(t, x)
      BY <1>5 DEF EnqueueChild, x
    <3>3. subdirs' = [subdirs EXCEPT ![t] = @ \ {d}] /\ left' = left
      BY <1>5 DEF EnqueueChild
    <3> QED
      BY <1>t, <3>1, <3>2, <3>3
         DEF EnqueueChecked, TypeOK, Fd4TypeOK, Carried, Item
  <2> QED
    BY <1>0, <2>2, <2>3, <2>4
<1>6. ASSUME NEW t \in Threads, PushChild(t) PROVE FInv'
  <2>1. Fd4TypeOK' /\ Link'
    BY <1>0, <1>t, <1>6
       DEF PushChild, EnqueuePush, TypeOK, Fd4TypeOK, Link, searchVars
  <2>2. ASSUME NEW i \in DOMAIN tasks' PROVE tasks'[i][2] = Level[tasks'[i][1]]
    <3>1. tasks' = Append(tasks, earg[t]) /\ earg[t][2] = Level[earg[t][1]]
      BY <1>6 DEF PushChild, EnqueuePush, Carried
    <3>2. tasks \in Seq(Tasks) /\ tasks' \in Seq(Tasks)
      BY <1>0, <1>t DEF TypeOK
    <3>3. CASE i \in DOMAIN tasks
      BY <3>1, <3>2, <3>3 DEF Carried
    <3>4. CASE i = Len(tasks) + 1
      BY <3>1, <3>2, <3>4
    <3> QED
      BY <3>1, <3>2, <3>3, <3>4
  <2>3. /\ UNCHANGED <<task, wpc, left, subdirs>>
        /\ \A u \in Threads : epc'[u] = "push" => epc[u] = "push" /\ earg'[u] = earg[u]
    BY <1>t, <1>6 DEF PushChild, EnqueuePush, TypeOK, searchVars
  <2> QED
    BY <1>0, <2>1, <2>2, <2>3 DEF Carried, Item
<1>7. ASSUME NEW t \in Threads, EnqueueReturns(t) PROVE FInv'
  <2>1. /\ \A u \in Threads : epc'[u] = IF u = t THEN "none" ELSE epc[u]
        /\ \A u \in Threads : spc'[u] = IF u = t THEN "spawn" ELSE spc[u]
        /\ \A w \in Workers : wpc[w] = "run" <=> wpc'[w] = "run"
    BY <1>t, <1>7 DEF EnqueueReturns, NotifyOne, Waiters, TypeOK, Fd4TypeOK
  <2>2. UNCHANGED <<tasks, task, earg, dpc, left, subdirs, active, results, mpc, skipped, failed>>
    BY <1>7 DEF EnqueueReturns, NotifyOne
  <2>3. spc[t] = "push"
    BY <1>7 DEF EnqueueReturns, NotifyOne, Link
  <2>4. Fd4TypeOK'
    BY <1>0, <1>7, <2>1, <2>2, <2>3 DEF EnqueueReturns, Fd4TypeOK, Threads
  <2>5. Link'
    BY <2>1, <2>2, <2>3 DEF Link, Threads
  <2>6. Carried'
    BY <2>1, <2>2 DEF Carried, Item
  <2> QED
    BY <1>0, <2>4, <2>5, <2>6
<1>8. ASSUME NEW w \in Workers, StartItem(w) PROVE FInv'
  <2>0. w \in Threads /\ w # Owner /\ wpc[w] = "loop" /\ tasks # <<>>
    BY <1>8 DEF StartItem, TakeTask, Threads
  <2>1. /\ tasks \in Seq(Tasks)
        /\ Head(tasks) \in Tasks /\ Head(tasks)[2] = Level[Head(tasks)[1]]
    BY <1>t, <2>0 DEF TypeOK, Carried
  <2>2. \A i \in DOMAIN Tail(tasks) : i + 1 \in DOMAIN tasks /\ Tail(tasks)[i] = tasks[i + 1]
    BY <2>0, <2>1
  <2>3. /\ \A v \in Workers : wpc'[v] = IF v = w THEN "run" ELSE wpc[v]
        /\ \A v \in Workers : task'[v] = IF v = w THEN Head(tasks) ELSE task[v]
        /\ tasks' = Tail(tasks)
        /\ spc' = [spc EXCEPT ![w] = "scan"]
        /\ left' = [left EXCEPT ![w] = Entries(Head(tasks)[1])]
        /\ UNCHANGED <<epc, earg, dpc, subdirs, active, results, mpc, skipped, failed>>
    BY <1>t, <1>8 DEF StartItem, TakeTask, TypeOK
  <2>4. spc[w] = "off" /\ subdirs[w] = {} /\ epc[w] = "none"
    BY <2>0 DEF Link
  <2>5. Fd4TypeOK'
    BY <1>0, <2>0, <2>3 DEF Fd4TypeOK, Entries
  <2>6. Link'
    BY <2>0, <2>3, <2>4 DEF Link, Fd4TypeOK, Threads
  <2>7. Carried'
    <3>1. \A u \in Threads : left'[u] \cup subdirs'[u] \subseteq Entries(Item(u)[1]')
      BY <2>0, <2>3, <2>4 DEF Carried, Item, Fd4TypeOK, Threads
    <3>2. \A i \in DOMAIN tasks' : tasks'[i][2] = Level[tasks'[i][1]]
      BY <2>2, <2>3 DEF Carried
    <3>3. \A v \in Workers : wpc'[v] = "run" => task'[v][2] = Level[task'[v][1]]
      BY <2>1, <2>3 DEF Carried
    <3>4. \A u \in Threads : epc'[u] = "push" => earg'[u][2] = Level[earg'[u][1]]
      BY <2>3 DEF Carried
    <3> QED
      BY <3>1, <3>2, <3>3, <3>4 DEF Carried
  <2> QED
    BY <1>0, <2>5, <2>6, <2>7
<1>9. ASSUME NEW w \in Workers, FinishItem(w) PROVE FInv'
  <2>1. Fd4TypeOK'
    BY <1>0, <1>9 DEF FinishItem, Fd4TypeOK, searchVars
  <2>2. Link'
    BY <1>t, <1>9 DEF FinishItem, Finish, TypeOK, Link, searchVars
  <2>3. w # Owner /\ left[w] = {} /\ subdirs[w] = {}
    BY <1>9 DEF FinishItem, Link, Threads
  <2>4. \A u \in Threads : u # w => Item(u)' = Item(u)
    BY <1>t, <1>9, <2>3 DEF FinishItem, Finish, TypeOK, Item, Threads
  <2>5. Carried'
    BY <1>t, <1>9, <2>3, <2>4 DEF FinishItem, Finish, TypeOK, Carried, searchVars
  <2> QED
    BY <1>0, <2>1, <2>2, <2>5
<1>10. ASSUME NEW w \in Workers, Idle(w) \/ Wake(w) PROVE FInv'
  BY <1>0, <1>t, <1>10
     DEF Idle, Wake, ExitWorker, FindNothing, Park, SpuriousWake, TypeOK, Fd4TypeOK,
         Link, Carried, Item, searchVars
<1>11. ASSUME Main PROVE FInv'
  BY <1>0, <1>t, <1>11
     DEF Main, PollDone, PrintResults, DestroyPool, Dtor, DtorStop, DtorNotifyAll, DtorJoin,
         Waiters, TypeOK, Fd4TypeOK, Link, Carried, Item, searchVars, vars
<1>12. CASE UNCHANGED allVars
  BY <1>0, <1>12 DEF allVars, searchVars, vars, Fd4TypeOK, Link, Carried, Item
<1> QED
  BY <1>1, <1>2, <1>3, <1>4, <1>5, <1>6, <1>7, <1>8, <1>9, <1>10, <1>11, <1>12
     DEF Fd4Next, Scan, Spawn

-----------------------------------------------------------------------------
\* The sets ActiveCounts counts are finite.
LEMMA FiniteCounted ==
  /\ IsFiniteSet(Busy) /\ Cardinality(Busy) \in Nat
  /\ IsFiniteSet(Reserved) /\ Cardinality(Reserved) \in Nat
<1>1. IsFiniteSet(Threads)
  BY FS_AddElement DEF Threads
<1>2. Busy \subseteq Threads /\ Reserved \subseteq Threads
  BY DEF Busy, Reserved
<1> QED
  BY <1>1, <1>2, FS_Subset, FS_CardinalityType

\* A step that moves nobody into or out of the counted places keeps the
\* count (fd4.cpp:123-138, :160-162).
LEMMA CountKept ==
  ASSUME ActiveCounts, Busy' = Busy, Reserved' = Reserved, UNCHANGED <<tasks, active>>
  PROVE  ActiveCounts'
BY DEF ActiveCounts

\* Every step keeps the count: fetch_add reserves a child before it is
\* queued, and fetch_sub comes after the whole call (fd4.cpp:146-152, :164).
LEMMA StepCounts == FInv /\ ActiveCounts /\ [Fd4Next]_allVars => ActiveCounts'
<1> SUFFICES ASSUME FInv, ActiveCounts, [Fd4Next]_allVars PROVE ActiveCounts'
  OBVIOUS
<1>t. /\ Fd4TypeOK /\ TypeOK /\ MutexHeld /\ Link
      /\ spc \in [Threads -> {"off", "scan", "spawn", "enq", "push"}]
      /\ epc \in [Threads -> {"none", "push", "notify"}]
      /\ tasks \in Seq(Tasks)
  BY DEF FInv, IInv, Fd4TypeOK, TypeOK
<1> USE FiniteCounted
<1>1. ASSUME NEW t \in Threads, NEW n \in Nodes, SkipEntry(t, n) \/ VisitEntry(t, n)
      PROVE  ActiveCounts'
  <2>1. UNCHANGED <<spc, epc, tasks, active>>
    BY <1>1 DEF SkipEntry, VisitEntry, vars
  <2> QED
    BY <2>1, CountKept DEF Busy, Reserved
<1>2. ASSUME NEW t \in Threads, ScanFails(t) \/ ScanDone(t) PROVE ActiveCounts'
  <2>1. /\ spc[t] = "scan" /\ spc' = [spc EXCEPT ![t] = "spawn"]
        /\ UNCHANGED <<epc, tasks, active>>
    BY <1>2 DEF ScanFails, ScanDone, vars
  <2>2. Busy' = Busy /\ Reserved' = Reserved
    BY <1>t, <2>1 DEF Busy, Reserved
  <2> QED
    BY <2>1, <2>2, CountKept
<1>3. ASSUME NEW t \in Threads, CountChild(t) PROVE ActiveCounts'
  <2>1. epc[t] # "push"
    BY <1>t, <1>3 DEF CountChild, Link
  <2>2. Busy' = Busy /\ Reserved' = Reserved \cup {t} /\ t \notin Reserved
    BY <1>t, <1>3, <2>1 DEF CountChild, Busy, Reserved, vars
  <2>3. Cardinality(Reserved \cup {t}) = Cardinality(Reserved) + 1
    BY <2>2, FS_AddElement
  <2>4. active' = active + 1 /\ tasks' = tasks
    BY <1>3 DEF CountChild, vars
  <2> QED
    BY <1>t, <2>2, <2>3, <2>4 DEF ActiveCounts
<1>4. ASSUME NEW t \in Threads, NEW d \in Dirs, EnqueueChild(t, d) PROVE ActiveCounts'
  <2>1. /\ spc[t] = "enq" /\ spc' = [spc EXCEPT ![t] = "push"]
        /\ epc' = [epc EXCEPT ![t] = "push"] /\ UNCHANGED <<tasks, active>>
    BY <1>4 DEF EnqueueChild, EnqueueChecked
  <2>2. Busy' = Busy /\ Reserved' = Reserved
    BY <1>t, <2>1 DEF Busy, Reserved
  <2> QED
    BY <2>1, <2>2, CountKept
<1>5. ASSUME NEW t \in Threads, PushChild(t) PROVE ActiveCounts'
  <2>1. /\ epc[t] = "push" /\ epc' = [epc EXCEPT ![t] = "notify"]
        /\ tasks' = Append(tasks, earg[t]) /\ UNCHANGED <<spc, active>>
    BY <1>5 DEF PushChild, EnqueuePush, searchVars
  <2>2. spc[t] = "push"
    BY <1>t, <2>1 DEF Link
  <2>3. Busy' = Busy /\ Reserved' = Reserved \ {t} /\ t \in Reserved
    BY <1>t, <2>1, <2>2 DEF Busy, Reserved
  <2>4. Cardinality(Reserved \ {t}) = Cardinality(Reserved) - 1
    BY <2>3, FS_RemoveElement
  <2>5. Len(tasks') = Len(tasks) + 1
    BY <1>t, <2>1
  <2> QED
    BY <1>t, <2>1, <2>3, <2>4, <2>5 DEF ActiveCounts
<1>6. ASSUME NEW t \in Threads, EnqueueReturns(t) PROVE ActiveCounts'
  <2>1. /\ epc[t] = "notify" /\ epc' = [epc EXCEPT ![t] = "none"]
        /\ spc' = [spc EXCEPT ![t] = "spawn"] /\ UNCHANGED <<tasks, active>>
    BY <1>6 DEF EnqueueReturns, NotifyOne
  <2>2. spc[t] = "push"
    BY <1>t, <2>1 DEF Link
  <2>3. Busy' = Busy /\ Reserved' = Reserved
    BY <1>t, <2>1, <2>2 DEF Busy, Reserved
  <2> QED
    BY <2>1, <2>3, CountKept
<1>7. ASSUME NEW t \in Threads, Leave(t) PROVE ActiveCounts'
  <2>1. /\ spc[t] = "spawn" /\ spc' = [spc EXCEPT ![t] = "off"]
        /\ active' = active - 1 /\ UNCHANGED <<epc, tasks>>
    BY <1>7 DEF Leave, vars
  <2>2. Busy' = Busy \ {t} /\ t \in Busy /\ Reserved' = Reserved
    BY <1>t, <2>1 DEF Busy, Reserved
  <2>3. Cardinality(Busy \ {t}) = Cardinality(Busy) - 1
    BY <2>2, FS_RemoveElement
  <2> QED
    BY <1>t, <2>1, <2>2, <2>3 DEF ActiveCounts
<1>8. ASSUME NEW w \in Workers, StartItem(w) PROVE ActiveCounts'
  <2>1. /\ wpc[w] = "loop" /\ tasks # <<>> /\ tasks' = Tail(tasks) /\ w \in Threads
        /\ spc' = [spc EXCEPT ![w] = "scan"] /\ UNCHANGED <<epc, active>>
    BY <1>8 DEF StartItem, TakeTask, Threads
  <2>2. spc[w] = "off"
    BY <1>t, <2>1 DEF Link
  <2>3. Busy' = Busy \cup {w} /\ w \notin Busy /\ Reserved' = Reserved
    BY <1>t, <2>1, <2>2 DEF Busy, Reserved
  <2>4. Cardinality(Busy \cup {w}) = Cardinality(Busy) + 1
    BY <2>3, FS_AddElement
  <2>5. Len(tasks') = Len(tasks) - 1 /\ Len(tasks) \in Nat
    BY <1>t, <2>1
  <2> QED
    BY <1>t, <2>1, <2>3, <2>4, <2>5 DEF ActiveCounts
<1>9. ASSUME NEW w \in Workers, FinishItem(w) \/ Idle(w) \/ Wake(w) PROVE ActiveCounts'
  <2>1. UNCHANGED <<spc, epc, tasks, active>>
    BY <1>9 DEF FinishItem, Finish, Idle, ExitWorker, FindNothing, Park, Wake, SpuriousWake,
                searchVars
  <2> QED
    BY <2>1, CountKept DEF Busy, Reserved
<1>10. ASSUME Main \/ UNCHANGED allVars PROVE ActiveCounts'
  <2>1. UNCHANGED <<spc, epc, tasks, active>>
    BY <1>10 DEF Main, PollDone, PrintResults, DestroyPool, Dtor, DtorStop, DtorNotifyAll,
                 DtorJoin, vars, searchVars, allVars
  <2> QED
    BY <2>1, CountKept DEF Busy, Reserved
<1> QED
  BY <1>1, <1>2, <1>3, <1>4, <1>5, <1>6, <1>7, <1>8, <1>9, <1>10
     DEF Fd4Next, Scan, Spawn

-----------------------------------------------------------------------------
SInv == FInv /\ ActiveCounts /\ QuietAfterPoll

\* The count is a natural number, so a step that keeps it keeps the types
\* too (fd4.cpp:216-218 compares it with zero).
LEMMA StepSearchInv == FInv /\ ActiveCounts /\ [Fd4Next]_allVars => FInv' /\ ActiveCounts'
<1> SUFFICES ASSUME FInv, ActiveCounts, [Fd4Next]_allVars PROVE FInv' /\ ActiveCounts'
  OBVIOUS
<1>1. ActiveCounts'
  BY StepCounts
<1>2. TypeOK'
  BY StepIsPoolStep, StepInv DEF FInv, IInv
<1>3. Cardinality(Busy)' \in Nat /\ Cardinality(Reserved)' \in Nat
  <2>1. IsFiniteSet(Threads)
    BY FS_AddElement DEF Threads
  <2>2. Busy' \subseteq Threads /\ Reserved' \subseteq Threads
    BY DEF Busy, Reserved
  <2> QED
    BY <2>1, <2>2, FS_Subset, FS_CardinalityType
<1>4. Len(tasks') \in Nat
  BY <1>2 DEF TypeOK
<1>5. active' \in Nat
  BY <1>1, <1>3, <1>4 DEF ActiveCounts
<1> QED
  BY <1>1, <1>5, StepFInv

\* A count of zero means that nobody is left: once the poll loop has seen
\* it, no step of the search is enabled any more (fd4.cpp:216-220).
LEMMA StepQuiet == FInv /\ ActiveCounts /\ QuietAfterPoll /\ [Fd4Next]_allVars => QuietAfterPoll'
<1> SUFFICES ASSUME FInv, ActiveCounts, QuietAfterPoll, [Fd4Next]_allVars,
                    mpc' \in {"print", "leave"}
             PROVE  Busy' = {} /\ Reserved' = {} /\ tasks' = <<>>
  BY DEF QuietAfterPoll
<1>1. CASE PollDone
  <2>1. tasks \in Seq(Tasks) /\ active \in Nat /\ active <= 0
    BY <1>1 DEF FInv, Fd4TypeOK, TypeOK, PollDone
  <2>2. Cardinality(Busy) = 0 /\ Len(tasks) = 0 /\ Cardinality(Reserved) = 0
    BY <2>1, FiniteCounted DEF ActiveCounts
  <2>3. Busy = {} /\ Reserved = {} /\ tasks = <<>>
    BY <2>1, <2>2, FiniteCounted, FS_EmptySet
  <2> QED
    BY <1>1, <2>3 DEF PollDone, Busy, Reserved, vars
<1>2. ASSUME ~PollDone PROVE Busy' = {} /\ Reserved' = {} /\ tasks' = <<>>
  <2>1. mpc \in {"print", "leave"}
    BY <1>2 DEF Fd4Next, Scan, Spawn, SkipEntry, VisitEntry, ScanFails, ScanDone, CountChild,
       EnqueueChild, PushChild, EnqueueReturns, Leave, StartItem, FinishItem, Idle, Wake,
       Main, PrintResults, DestroyPool, searchVars, allVars
  <2>2. Busy = {} /\ Reserved = {} /\ tasks = <<>>
    BY <2>1 DEF QuietAfterPoll
  <2>3. \A t \in Threads : spc[t] = "off" /\ epc[t] = "none"
    BY <2>2 DEF Busy, FInv, Link
  <2>4. UNCHANGED <<spc, epc, tasks>>
    BY <1>2, <2>2, <2>3
       DEF Fd4Next, Scan, Spawn, SkipEntry, VisitEntry, ScanFails, ScanDone, CountChild,
           EnqueueChild, PushChild, EnqueuePush, EnqueueReturns, NotifyOne, Leave, StartItem,
           TakeTask, FinishItem, Finish, Idle, ExitWorker, FindNothing, Park, Wake,
           SpuriousWake, Main, PrintResults, DestroyPool, Dtor, DtorStop, DtorNotifyAll,
           DtorJoin, searchVars, allVars, vars
  <2> QED
    BY <2>2, <2>4 DEF Busy, Reserved
<1> QED
  BY <1>1, <1>2

\* main's call, the search's first, is the one thing counted at the start
\* (fd4.cpp:208-214).
LEMMA InitSearchInv == Fd4Init => SInv
<1> SUFFICES ASSUME Fd4Init PROVE SInv
  OBVIOUS
<1> USE DEF Fd4Init, Init
<1>1. IInv
  BY InitTypes DEF IInv, MutexHeld, Locals, SomebodyLeft, Threads
<1>2. Fd4TypeOK
  BY <1>1 DEF IInv, Fd4TypeOK, Entries, Threads
<1>3. Link /\ Carried
  BY DEF Link, Carried, Item, Threads
<1>4. ActiveCounts
  <2>1. Busy = {Owner} /\ Reserved = {} /\ Len(tasks) = 0
    BY DEF Busy, Reserved, Threads
  <2>2. Cardinality({Owner}) = 1 /\ Cardinality({}) = 0
    BY FS_Singleton, FS_EmptySet
  <2> QED
    BY <2>1, <2>2 DEF ActiveCounts
<1> QED
  BY <1>1, <1>2, <1>3, <1>4 DEF SInv, FInv, QuietAfterPoll

\* The invariant of the search.
THEOREM SearchInvariance == Fd4Spec => []SInv
<1>1. SInv /\ [Fd4Next]_allVars => SInv'
  BY StepSearchInv, StepQuiet DEF SInv
<1> QED
  BY <1>1, InitSearchInv, PTL DEF Fd4Spec

\* Type correctness of fd4's state.
THEOREM SearchTypeCorrect == Fd4Spec => []Fd4TypeOK
<1>1. SInv => Fd4TypeOK
  BY DEF SInv, FInv
<1> QED
  BY <1>1, SearchInvariance, PTL

\* active_tasks counts what is running, queued or about to be queued
\* (fd4.cpp:24-25, :146, :164).
THEOREM SearchCounts == Fd4Spec => []ActiveCounts
<1>1. SInv => ActiveCounts
  BY DEF SInv
<1> QED
  BY <1>1, SearchInvariance, PTL

\* When main leaves its polling loop no call of fd_search_threaded is
\* running, queued or on its way to the queue, and none will be
\* (fd4.cpp:216-232).
THEOREM SearchQuiet == Fd4Spec => []QuietAfterPoll
<1>1. SInv => QuietAfterPoll
  BY DEF SInv
<1> QED
  BY <1>1, SearchInvariance, PTL

\* The search is a client of the pool and nothing more: what is proved of
\* the pool holds of the search's pool (fd4.cpp:147, :208).
THEOREM SearchUsesPool == Fd4Spec => Spec
<1>1. Fd4Init => Init
  BY DEF Fd4Init
<1>2. SInv /\ [Fd4Next]_allVars => [Next]_vars
  BY StepIsPoolStep DEF SInv
<1> QED
  BY <1>1, <1>2, SearchInvariance, PTL DEF Fd4Spec, Spec
-----------------------------------------------------------------------------
(* The search reports what the recursive one does *)

\* Directories a thread found and has not put in the pool's queue yet.
Held(t) == subdirs[t] \cup {d \in Dirs : epc[t] = "push" /\ earg[t][1] = d}

Queued == {d \in Dirs : \E i \in DOMAIN tasks : tasks[i][1] = d}
Known  == Queued \cup {d \in Dirs : \E t \in Threads : d \in Held(t)}
Opened == {n \in Nodes : \E t \in Threads : n \in left[t]}

\* S is the set of directories some call was made for.
Explores(S) ==
  /\ Explored(S, Known, Opened, Found, skipped, failed)
  /\ \A t \in Busy : Item(t)[1] \in S
  /\ \A x \in submitted : x[1] \in S \cup Queued

\* No directory is in two places.
Apart ==
  /\ \A t, u \in Busy : Item(t)[1] = Item(u)[1] => t = u
  /\ \A t \in Busy : Held(t) \subseteq Entries(Item(t)[1])
  /\ \A t \in Threads : Held(t) \cap Queued = {}
  /\ \A t \in Threads : epc[t] = "push" => earg[t][1] \notin subdirs[t]
  /\ \A i, j \in DOMAIN tasks : tasks[i][1] = tasks[j][1] => i = j

Progress == Apart /\ \E S \in SUBSET Dirs : Explores(S)

\* Every call of enqueue carries a directory nobody has enqueued before.
EnqueuesFresh ==
  \A t \in Threads : spc[t] = "enq" => \A d \in subdirs[t] : Fresh(<<d, Item(t)[2] + 1>>)

\* A step that moves no directory and no entry.
Unmoved ==
  /\ \A t \in Threads : Held(t)' = Held(t)
  /\ UNCHANGED <<tasks, left, results, skipped, failed, submitted>>
  /\ \A t \in Busy' : t \in Busy /\ Item(t)' = Item(t)
  /\ \A t \in Threads : epc'[t] = "push" => earg'[t][1] \notin subdirs'[t]

\* Such a step keeps the progress made.
LEMMA UnmovedKeeps == Progress /\ Unmoved => Progress'
<1> SUFFICES ASSUME Progress, Unmoved PROVE Progress'
  OBVIOUS
<1>1. Queued' = Queued /\ Known' = Known /\ Opened' = Opened /\ Found' = Found
  BY DEF Unmoved, Queued, Known, Opened, Found
<1>2. Apart'
  <2>1. \A t \in Busy' : t \in Busy /\ Item(t)' = Item(t) /\ Held(t)' = Held(t)
    BY DEF Unmoved, Busy
  <2>2. \A t, u \in Busy' : Item(t)[1]' = Item(u)[1]' => t = u
    BY <2>1 DEF Progress, Apart
  <2>3. \A t \in Busy' : Held(t)' \subseteq Entries(Item(t)[1])'
    BY <2>1 DEF Progress, Apart
  <2>4. \A t \in Threads : Held(t)' \cap Queued' = {}
    BY <1>1 DEF Progress, Apart, Unmoved
  <2>5. \A i, j \in DOMAIN tasks' : tasks'[i][1] = tasks'[j][1] => i = j
    BY DEF Progress, Apart, Unmoved
  <2> QED
    BY <2>2, <2>3, <2>4, <2>5 DEF Apart, Unmoved
<1>3. PICK S \in SUBSET Dirs : Explores(S)
  BY DEF Progress
<1>4. Explores(S)'
  <2>1. Explored(S, Known', Opened', Found', skipped', failed')
    BY <1>1, <1>3 DEF Explores, Unmoved
  <2>2. \A t \in Busy' : Item(t)[1]' \in S
    BY <1>3 DEF Explores, Unmoved
  <2>3. \A x \in submitted' : x[1] \in S \cup Queued'
    BY <1>1, <1>3 DEF Explores, Unmoved
  <2> QED
    BY <2>1, <2>2, <2>3 DEF Explores
<1> QED
  BY <1>2, <1>4 DEF Progress

\* What one thread holds or has still to read no other thread does.
LEMMA ThreadsApart ==
  ASSUME FInv, Apart, NEW t \in Threads, NEW u \in Threads, t # u
  PROVE  /\ Held(t) \cap Held(u) = {}
         /\ left[t] \cap left[u] = {}
<1>1. ASSUME NEW v \in Threads
      PROVE  /\ v \in Busy => Held(v) \cup left[v] \subseteq Entries(Item(v)[1])
             /\ v \notin Busy => Held(v) = {} /\ left[v] = {}
  BY DEF FInv, Link, Carried, Apart, Held, Busy
<1>2. CASE t \in Busy /\ u \in Busy
  <2>1. Item(t)[1] # Item(u)[1]
    BY <1>2 DEF Apart
  <2>2. Entries(Item(t)[1]) \cap Entries(Item(u)[1]) = {}
    BY <2>1 DEF Entries
  <2> QED
    BY <1>1, <1>2, <2>2
<1> QED
  BY <1>1, <1>2

\* An entry that a thread has read is no longer open (fd4.cpp:123).
LEMMA ReadOne ==
  ASSUME FInv, Apart, NEW t \in Threads, NEW n \in left[t],
         left' = [left EXCEPT ![t] = @ \ {n}]
  PROVE  n \in Opened /\ Opened' = Opened \ {n}
<1>1. n \in Nodes /\ left \in [Threads -> SUBSET (Nodes \ {Root})]
  BY DEF FInv, Fd4TypeOK
<1>2. \A u \in Threads : u # t => n \notin left[u]
  BY ThreadsApart
<1> QED
  BY <1>1, <1>2 DEF Opened

\* continue after is_ignored (fd4.cpp:124-126).
LEMMA SkipProgress ==
  ASSUME FInv, Progress, NEW t \in Threads, NEW n \in Nodes, SkipEntry(t, n)
  PROVE  Progress'
<1>1. /\ n \in left[t] /\ left' = [left EXCEPT ![t] = @ \ {n}]
      /\ skipped' = skipped \cup {n}
      /\ UNCHANGED <<tasks, wpc, task, epc, earg, submitted, spc, subdirs, results, failed>>
  BY DEF SkipEntry, vars
<1>2. n \in Opened /\ Opened' = Opened \ {n}
  BY <1>1, ReadOne DEF Progress
<1>3. Queued' = Queued /\ Known' = Known /\ Found' = Found /\ Busy' = Busy
  BY <1>1 DEF Queued, Known, Held, Found, Busy
<1>4. PICK S \in SUBSET Dirs : Explores(S)
  BY DEF Progress
<1>5. Explored(S, Known', Opened', Found', skipped', failed')
  <2>1. Explored(S, Known, Opened \ {n}, Found, skipped \cup {n}, failed)
    BY <1>2, <1>4, ExploredSkip DEF Explores
  <2> QED
    BY <1>1, <1>2, <1>3, <2>1
<1>6. Explores(S)'
  BY <1>1, <1>3, <1>4, <1>5 DEF Explores, Item
<1>7. Apart'
  BY <1>1, <1>3 DEF Progress, Apart, Held, Item
<1> QED
  BY <1>6, <1>7 DEF Progress

\* An entry is reported, and held if it is to be searched (fd4.cpp:129-138).
LEMMA VisitProgress ==
  ASSUME FInv, Progress, NEW t \in Threads, NEW n \in Nodes, VisitEntry(t, n)
  PROVE  Progress'
<1> DEFINE C == {x \in {n} : n \in Dirs /\ DepthAllows(Level[parent[n]])}
           M == {x \in {n} : n \in Matching}
<1>1. /\ n \in left[t] /\ left' = [left EXCEPT ![t] = @ \ {n}]
      /\ results' = IF n \in Matching THEN Append(results, n) ELSE results
      /\ subdirs' = IF n \in Dirs /\ DepthAllows(Item(t)[2])
                    THEN [subdirs EXCEPT ![t] = @ \cup {n}]
                    ELSE subdirs
      /\ UNCHANGED <<tasks, wpc, task, epc, earg, submitted, spc, skipped, failed>>
      /\ spc[t] = "scan"
  BY DEF VisitEntry, vars
<1>2. n \in Opened /\ Opened' = Opened \ {n}
  BY <1>1, ReadOne DEF Progress
<1>3. Item(t)[2] = Level[parent[n]] /\ parent[n] = Item(t)[1] /\ n \in Entries(Item(t)[1])
  BY <1>1 DEF FInv, Link, Carried, Item, Threads, Entries
<1>4. subdirs \in [Threads -> SUBSET Dirs] /\ results \in Seq(Matching) /\ epc[t] # "push"
  BY <1>1 DEF FInv, Fd4TypeOK, Link
<1>5. subdirs' = [subdirs EXCEPT ![t] = @ \cup C] /\ C \subseteq {n} /\ C \subseteq Dirs
  BY <1>1, <1>3, <1>4
<1>6. Found' = Found \cup M
  <2>1. CASE n \in Matching
    <3>1. results' = Append(results, n) /\ M = {n}
      BY <1>1, <2>1
    <3>2. /\ DOMAIN results' = DOMAIN results \cup {Len(results) + 1}
          /\ results'[Len(results) + 1] = n
          /\ \A i \in DOMAIN results : results'[i] = results[i]
      BY <1>4, <3>1
    <3>3. Found' = {results'[i] : i \in DOMAIN results \cup {Len(results) + 1}}
      BY <3>2 DEF Found
    <3>4. Found' = Found \cup {n}
      BY <3>2, <3>3 DEF Found
    <3> QED
      BY <3>1, <3>4
  <2>2. CASE n \notin Matching
    BY <1>1, <2>2 DEF Found
  <2> QED
    BY <2>1, <2>2
<1>7. PICK S \in SUBSET Dirs : Explores(S)
  BY DEF Progress
<1>8. Explored(S, Known \cup C, Opened \ {n}, Found \cup M, skipped, failed) /\ n \notin Known
  <2>1. Explored(S, Known, Opened, Found, skipped, failed)
    BY <1>7 DEF Explores
  <2>2. Explored(S, Known \cup C, Opened \ {n}, Found \cup M, skipped, failed)
    BY <1>2, <2>1, ExploredVisit
  <2> QED
    BY <1>2, <2>1, <2>2 DEF Explored
<1> HIDE DEF C, M
<1>9. Queued' = Queued /\ Busy' = Busy /\ \A u \in Threads : Item(u)' = Item(u)
  BY <1>1 DEF Queued, Busy, Item
<1>10. \A u \in Threads : Held(u)' = IF u = t THEN Held(u) \cup C ELSE Held(u)
  BY <1>1, <1>4, <1>5 DEF Held
<1>11. Known' = Known \cup C
  BY <1>5, <1>9, <1>10 DEF Known
<1>12. Explores(S)'
  <2>1. Explored(S, Known', Opened', Found', skipped', failed')
    BY <1>1, <1>2, <1>6, <1>8, <1>11
  <2> QED
    BY <1>1, <1>7, <1>9, <2>1 DEF Explores, Busy
<1>13. Apart'
  <2>1. \A u, v \in Busy' : Item(u)[1]' = Item(v)[1]' => u = v
    BY <1>9 DEF Progress, Apart, Busy
  <2>2. \A u \in Busy' : Held(u)' \subseteq Entries(Item(u)[1])'
    BY <1>3, <1>5, <1>9, <1>10 DEF Progress, Apart, Busy
  <2>3. \A u \in Threads : Held(u)' \cap Queued' = {}
    BY <1>5, <1>8, <1>9, <1>10 DEF Progress, Apart, Known
  <2>4. \A u \in Threads : epc'[u] = "push" => earg'[u][1] \notin subdirs'[u]
    BY <1>1, <1>4, <1>5 DEF Progress, Apart
  <2> QED
    BY <1>1, <2>1, <2>2, <2>3, <2>4 DEF Progress, Apart
<1> QED
  BY <1>12, <1>13 DEF Progress

\* Whatever a thread whose directory throws had collected is given up
\* (fd4.cpp:160-162).
LEMMA FailProgress ==
  ASSUME FInv, Progress, NEW t \in Threads, ScanFails(t)
  PROVE  Progress'
<1> DEFINE d == Item(t)[1]
<1>1. /\ spc[t] = "scan" /\ spc' = [spc EXCEPT ![t] = "spawn"]
      /\ left' = [left EXCEPT ![t] = {}] /\ subdirs' = [subdirs EXCEPT ![t] = {}]
      /\ failed' = failed \cup {d}
      /\ UNCHANGED <<tasks, wpc, task, epc, earg, submitted, results, skipped>>
  BY DEF ScanFails, vars
<1>2. /\ spc \in [Threads -> {"off", "scan", "spawn", "enq", "push"}]
      /\ left \in [Threads -> SUBSET (Nodes \ {Root})]
      /\ subdirs \in [Threads -> SUBSET Dirs]
      /\ epc[t] # "push" /\ t \in Busy
  BY <1>1 DEF FInv, Fd4TypeOK, Link, Busy
<1>3. /\ Queued' = Queued /\ Busy' = Busy /\ Found' = Found
      /\ \A u \in Threads : Item(u)' = Item(u)
  BY <1>1, <1>2 DEF Queued, Busy, Item, Found
<1>4. \A u \in Threads : Held(u)' = IF u = t THEN {} ELSE Held(u)
  BY <1>1, <1>2 DEF Held
<1>5. PICK S \in SUBSET Dirs : Explores(S)
  BY DEF Progress
<1>6. /\ Known' \subseteq Known /\ Known \ Known' \subseteq Held(t)
      /\ Opened' \subseteq Opened /\ Opened \ Opened' \subseteq left[t]
  BY <1>1, <1>2, <1>3, <1>4 DEF Known, Opened
<1>7. Held(t) \cup left[t] \subseteq Entries(d)
  BY <1>2 DEF Progress, Apart, FInv, Carried
<1>8. d \in S /\ Explored(S, Known, Opened, Found, skipped, failed)
  BY <1>2, <1>5 DEF Explores
<1>9. Root \in S \cup Known'
  BY <1>1, <1>6, <1>7, <1>8 DEF Explored, Entries
<1> HIDE DEF d
<1>10. Explored(S, Known', Opened', Found, skipped, failed \cup {d})
  BY <1>6, <1>7, <1>8, <1>9, ExploredFail
<1>11. Explores(S)'
  <2>1. Explored(S, Known', Opened', Found', skipped', failed')
    BY <1>1, <1>3, <1>10
  <2> QED
    BY <1>1, <1>3, <1>5, <2>1 DEF Explores, Busy
<1>12. Apart'
  BY <1>1, <1>2, <1>3, <1>4 DEF Progress, Apart, Busy
<1> QED
  BY <1>11, <1>12 DEF Progress

\* Steps that change where a thread is and not what it holds.
LEMMA OtherProgress ==
  ASSUME FInv, Progress,
         \/ \E t \in Threads : \/ ScanDone(t) \/ CountChild(t) \/ Leave(t)
                               \/ EnqueueReturns(t)
                               \/ \E d \in Dirs : EnqueueChild(t, d)
         \/ \E w \in Workers : FinishItem(w) \/ Idle(w) \/ Wake(w)
         \/ Main
         \/ UNCHANGED allVars
  PROVE  Progress'
<1>t. /\ spc \in [Threads -> {"off", "scan", "spawn", "enq", "push"}]
      /\ epc \in [Threads -> {"none", "push", "notify"}]
      /\ earg \in [Threads -> Tasks \cup {NoTask}]
      /\ subdirs \in [Threads -> SUBSET Dirs]
      /\ \A u \in Threads : epc[u] = "push" => earg[u][1] \notin subdirs[u]
      /\ \A u \in Threads : spc[u] = "push" <=> epc[u] # "none"
      /\ wpc \in [Workers -> {"loop", "park", "wait", "run", "exit"}]
      /\ task \in [Workers -> Tasks \cup {NoTask}]
      /\ \A w \in Workers : spc[w] # "off" => wpc[w] = "run"
  BY DEF FInv, IInv, TypeOK, Fd4TypeOK, Link, Progress, Apart
<1>1. ASSUME NEW t \in Threads, ScanDone(t) \/ CountChild(t) \/ Leave(t) PROVE Unmoved
  <2>1. /\ spc[t] # "off"
        /\ \E x \in {"off", "scan", "spawn", "enq", "push"} : spc' = [spc EXCEPT ![t] = x]
        /\ UNCHANGED <<tasks, task, epc, earg, submitted, left, subdirs, results, skipped, failed>>
    BY <1>1 DEF ScanDone, CountChild, Leave, vars
  <2> QED
    BY <1>t, <2>1 DEF Unmoved, Held, Busy, Item
<1>2. ASSUME NEW t \in Threads, EnqueueReturns(t) PROVE Unmoved
  <2>1. /\ epc[t] = "notify" /\ epc' = [epc EXCEPT ![t] = "none"]
        /\ spc' = [spc EXCEPT ![t] = "spawn"]
        /\ UNCHANGED <<tasks, task, earg, submitted, left, subdirs, results, skipped, failed>>
    BY <1>2 DEF EnqueueReturns, NotifyOne
  <2> QED
    BY <1>t, <2>1 DEF Unmoved, Held, Busy, Item
<1>3. ASSUME NEW t \in Threads, NEW d \in Dirs, EnqueueChild(t, d) PROVE Unmoved
  <2> DEFINE x == <<d, Item(t)[2] + 1>>
  <2>1. x[1] = d
    OBVIOUS
  <2> HIDE DEF x
  <2>2. /\ spc[t] = "enq" /\ epc[t] = "none" /\ d \in subdirs[t]
        /\ epc' = [epc EXCEPT ![t] = "push"] /\ earg' = [earg EXCEPT ![t] = x]
        /\ subdirs' = [subdirs EXCEPT ![t] = @ \ {d}] /\ spc' = [spc EXCEPT ![t] = "push"]
        /\ UNCHANGED <<tasks, task, submitted, left, results, skipped, failed>>
    BY <1>3 DEF EnqueueChild, EnqueueChecked, x
  <2>3. \A u \in Threads : Held(u)' = Held(u)
    <3>1. ASSUME NEW u \in Threads, u # t PROVE Held(u)' = Held(u)
      BY <1>t, <2>2, <3>1 DEF Held
    <3>2. Held(t)' = Held(t)
      BY <1>t, <2>1, <2>2 DEF Held
    <3> QED
      BY <3>1, <3>2
  <2>4. \A u \in Busy' : u \in Busy /\ Item(u)' = Item(u)
    BY <1>t, <2>2 DEF Busy, Item
  <2>5. \A u \in Threads : epc'[u] = "push" => earg'[u][1] \notin subdirs'[u]
    BY <1>t, <2>1, <2>2
  <2> QED
    BY <2>2, <2>3, <2>4, <2>5 DEF Unmoved
<1>4. ASSUME NEW w \in Workers, FinishItem(w) PROVE Unmoved
  <2>1. /\ spc[w] = "off" /\ task' = [task EXCEPT ![w] = NoTask]
        /\ UNCHANGED <<tasks, epc, earg, submitted, spc, left, subdirs, results, skipped, failed>>
    BY <1>4 DEF FinishItem, Finish, searchVars
  <2> QED
    BY <1>t, <2>1 DEF Unmoved, Held, Busy, Item, Threads
<1>5. ASSUME \/ \E w \in Workers : Idle(w) \/ Wake(w)
             \/ Main \/ UNCHANGED allVars
      PROVE  Unmoved
  <2>1. UNCHANGED <<tasks, task, epc, earg, submitted, spc, left, subdirs, results, skipped, failed>>
    BY <1>5 DEF Idle, ExitWorker, FindNothing, Park, Wake, SpuriousWake, Main, PollDone,
       PrintResults, DestroyPool, Dtor, DtorStop, DtorNotifyAll, DtorJoin, searchVars, vars, allVars
  <2> QED
    BY <1>t, <2>1 DEF Unmoved, Held, Busy, Item
<1> QED
  BY <1>1, <1>2, <1>3, <1>4, <1>5, UnmovedKeeps

\* A directory goes from the thread that holds it into the queue
\* (threadpool.h:64-69).
LEMMA PushProgress ==
  ASSUME FInv, Progress, NEW t \in Threads, PushChild(t)
  PROVE  Progress'
<1> DEFINE d == earg[t][1]
<1>1. /\ epc[t] = "push" /\ tasks' = Append(tasks, earg[t])
      /\ submitted' = submitted \cup {earg[t]}
      /\ epc' = [epc EXCEPT ![t] = "notify"] /\ earg' = [earg EXCEPT ![t] = NoTask]
      /\ UNCHANGED <<wpc, task, spc, left, subdirs, results, skipped, failed>>
  BY DEF PushChild, EnqueuePush, searchVars
<1>2. /\ tasks \in Seq(Tasks) /\ earg[t] \in Tasks /\ d \in Dirs
      /\ epc \in [Threads -> {"none", "push", "notify"}]
      /\ earg \in [Threads -> Tasks \cup {NoTask}]
      /\ spc[t] = "push"
  BY <1>1 DEF FInv, IInv, TypeOK, Link
<1>3. /\ DOMAIN tasks' = DOMAIN tasks \cup {Len(tasks) + 1}
      /\ tasks'[Len(tasks) + 1] = earg[t]
      /\ \A i \in DOMAIN tasks : tasks'[i] = tasks[i]
  BY <1>1, <1>2
<1>4. d \in Held(t) /\ d \notin subdirs[t] /\ d \notin Queued
  BY <1>1, <1>2 DEF Progress, Apart, Held
<1>5. Held(t)' = Held(t) \ {d} /\ \A u \in Threads : u # t => Held(u)' = Held(u) /\ d \notin Held(u)
  <2>1. Held(t)' = Held(t) \ {d}
    BY <1>1, <1>2, <1>4 DEF Held
  <2>2. ASSUME NEW u \in Threads, u # t PROVE Held(u)' = Held(u) /\ d \notin Held(u)
    <3>1. Held(u)' = Held(u)
      BY <1>1, <1>2, <2>2 DEF Held
    <3>2. Held(t) \cap Held(u) = {}
      BY <2>2, ThreadsApart DEF Progress
    <3> QED
      BY <1>4, <3>1, <3>2
  <2> QED
    BY <2>1, <2>2
<1>6. Queued' = Queued \cup {d}
  <2>1. Queued' = {x \in Dirs : \E i \in DOMAIN tasks \cup {Len(tasks) + 1} : tasks'[i][1] = x}
    BY <1>3 DEF Queued
  <2> QED
    BY <1>2, <1>3, <2>1 DEF Queued
<1>7. /\ Opened' = Opened /\ Busy' = Busy /\ Found' = Found
      /\ \A u \in Threads : Item(u)' = Item(u)
  BY <1>1 DEF Opened, Busy, Found, Item
<1>8. \A x \in submitted' : x \in submitted \/ x[1] = d
  BY <1>1
<1> HIDE DEF d
<1>9. Known' = Known
  BY <1>2, <1>4, <1>5, <1>6 DEF Known
<1>10. PICK S \in SUBSET Dirs : Explores(S)
  BY DEF Progress
<1>11. Explores(S)'
  <2>1. Explored(S, Known', Opened', Found', skipped', failed')
    BY <1>1, <1>7, <1>9, <1>10 DEF Explores
  <2>2. \A x \in submitted' : x[1] \in S \cup Queued'
    BY <1>6, <1>8, <1>10 DEF Explores
  <2> QED
    BY <1>7, <1>10, <2>1, <2>2 DEF Explores, Busy
<1>12. Apart'
  <2>1. \A i, j \in DOMAIN tasks' : tasks'[i][1] = tasks'[j][1] => i = j
    <3>1. \A i \in DOMAIN tasks : tasks[i][1] # d
      <4>1. \A i \in DOMAIN tasks : tasks[i][1] = d => d \in Queued
        BY <1>2 DEF Queued
      <4> QED
        BY <1>4, <4>1
    <3>2. tasks'[Len(tasks) + 1][1] = d
      BY <1>3 DEF d
    <3>3. \A i, j \in DOMAIN tasks : tasks'[i][1] = tasks'[j][1] => i = j
      BY <1>3 DEF Progress, Apart
    <3>4. \A i \in DOMAIN tasks : tasks'[i][1] # d
      BY <1>3, <3>1
    <3> QED
      BY <1>3, <3>2, <3>3, <3>4
  <2>2. \A u \in Threads : Held(u)' \cap Queued' = {}
    BY <1>5, <1>6 DEF Progress, Apart
  <2>3. \A u \in Busy' : Held(u)' \subseteq Entries(Item(u)[1])'
    BY <1>5, <1>7 DEF Progress, Apart, Busy
  <2>4. \A u, v \in Busy' : Item(u)[1]' = Item(v)[1]' => u = v
    BY <1>7 DEF Progress, Apart, Busy
  <2>5. \A u \in Threads : epc'[u] = "push" => earg'[u][1] \notin subdirs'[u]
    BY <1>1, <1>2 DEF Progress, Apart
  <2> QED
    BY <2>1, <2>2, <2>3, <2>4, <2>5 DEF Apart
<1> QED
  BY <1>11, <1>12 DEF Progress

\* A worker starts on the directory that has been queued longest
\* (threadpool.h:33-34, fd4.cpp:123).
LEMMA StartProgress ==
  ASSUME FInv, Progress, NEW w \in Workers, StartItem(w)
  PROVE  Progress'
<1>0. PICK d : d = Head(tasks)[1]
  OBVIOUS
<1>1. /\ wpc[w] = "loop" /\ tasks # <<>> /\ tasks' = Tail(tasks)
      /\ task' = [task EXCEPT ![w] = Head(tasks)]
      /\ spc' = [spc EXCEPT ![w] = "scan"]
      /\ left' = [left EXCEPT ![w] = Entries(Head(tasks)[1])]
      /\ UNCHANGED <<epc, earg, submitted, subdirs, results, skipped, failed>>
  BY DEF StartItem, TakeTask
<1>2. /\ tasks \in Seq(Tasks) /\ Head(tasks) = tasks[1] /\ 1 \in DOMAIN tasks
      /\ task \in [Workers -> Tasks \cup {NoTask}]
      /\ spc \in [Threads -> {"off", "scan", "spawn", "enq", "push"}]
      /\ left \in [Threads -> SUBSET (Nodes \ {Root})]
      /\ w \in Threads /\ w # Owner /\ spc[w] = "off" /\ left[w] = {} /\ subdirs[w] = {}
      /\ epc[w] = "none" /\ tasks[1] \in Tasks
  <2>1. tasks \in Seq(Tasks)
    BY DEF FInv, IInv, TypeOK
  <2>2. Head(tasks) = tasks[1] /\ 1 \in DOMAIN tasks /\ tasks[1] \in Tasks
    BY <1>1, <2>1
  <2>3. w \in Threads /\ w # Owner
    BY DEF Threads
  <2>4. spc[w] = "off"
    BY <1>1, <2>3 DEF FInv, Link
  <2> QED
    BY <2>1, <2>2, <2>3, <2>4 DEF FInv, IInv, TypeOK, Fd4TypeOK, Link
<1>3. d \in Dirs /\ d = tasks[1][1]
  BY <1>0, <1>2
<1>4. /\ \A i \in DOMAIN Tail(tasks) :
           i + 1 \in DOMAIN tasks /\ i + 1 # 1 /\ Tail(tasks)[i] = tasks[i + 1]
      /\ \A i \in DOMAIN tasks : i # 1 =>
           i - 1 \in DOMAIN Tail(tasks) /\ Tail(tasks)[i - 1] = tasks[i]
  <2> DEFINE k == Len(tasks)
  <2>1. /\ k \in Nat \ {0} /\ DOMAIN tasks = 1 .. k /\ DOMAIN Tail(tasks) = 1 .. (k - 1)
        /\ \A i \in 1 .. (k - 1) : Tail(tasks)[i] = tasks[i + 1]
    BY <1>1, <1>2
  <2> HIDE DEF k
  <2>2. \A i \in 1 .. (k - 1) : i + 1 \in 1 .. k /\ i + 1 # 1
    BY <2>1
  <2>3. \A i \in 1 .. k : i # 1 => i - 1 \in 1 .. (k - 1) /\ (i - 1) + 1 = i
    BY <2>1
  <2>4. \A i \in 1 .. k : i # 1 => Tail(tasks)[i - 1] = tasks[i]
    BY <2>1, <2>3
  <2> QED
    BY <2>1, <2>2, <2>3, <2>4
<1>5. Queued' = Queued \ {d} /\ d \in Queued
  <2>1. d \in Queued
    BY <1>2, <1>3 DEF Queued
  <2>2. \A i \in DOMAIN tasks : i # 1 => tasks[i][1] # d
    BY <1>2, <1>3 DEF Progress, Apart
  <2>3. Queued' \subseteq Queued \ {d}
    BY <1>1, <1>4, <2>2 DEF Queued
  <2>4. ASSUME NEW x \in Queued \ {d} PROVE x \in Queued'
    <3>1. PICK i \in DOMAIN tasks : tasks[i][1] = x
      BY DEF Queued
    <3>2. i - 1 \in DOMAIN Tail(tasks) /\ Tail(tasks)[i - 1][1] = x
      BY <1>3, <1>4, <3>1
    <3> QED
      BY <1>1, <3>2 DEF Queued
  <2> QED
    BY <2>1, <2>3, <2>4
<1>6. \A u \in Threads : Held(u)' = Held(u) /\ d \notin Held(u)
  BY <1>1, <1>5 DEF Progress, Apart, Held
<1>7. /\ Busy' = Busy \cup {w} /\ w \notin Busy
      /\ \A u \in Threads : u # w => Item(u)' = Item(u)
      /\ Item(w)[1]' = d
      /\ Opened' = Opened \cup Entries(d)
      /\ Found' = Found
  <2>1. Busy' = Busy \cup {w} /\ w \notin Busy /\ Found' = Found
    BY <1>1, <1>2 DEF Busy, Found
  <2>2. \A u \in Threads : u # w => Item(u)' = Item(u)
    BY <1>1, <1>2 DEF Item, Threads
  <2>3. Item(w)[1]' = d
    BY <1>0, <1>1, <1>2 DEF Item
  <2>4. Opened' = Opened \cup Entries(d)
    BY <1>0, <1>1, <1>2 DEF Opened, Entries
  <2> QED
    BY <2>1, <2>2, <2>3, <2>4
<1>8. Known' = Known \ {d} /\ d \in Known
  BY <1>5, <1>6 DEF Known
<1>9. PICK S \in SUBSET Dirs : Explores(S)
  BY DEF Progress
<1>10. Explored(S \cup {d}, Known \ {d}, Opened \cup Entries(d), Found, skipped, failed) /\ d \notin S
  BY <1>8, <1>9, ExploredStart DEF Explores
<1>11. Explores(S \cup {d})'
  <2>1. Explored(S \cup {d}, Known', Opened', Found', skipped', failed')
    BY <1>1, <1>7, <1>8, <1>10
  <2>2. \A t \in Busy' : Item(t)[1]' \in S \cup {d}
    BY <1>7, <1>9 DEF Explores, Busy
  <2>3. \A x \in submitted' : x[1] \in (S \cup {d}) \cup Queued'
    BY <1>1, <1>5, <1>9 DEF Explores
  <2> QED
    BY <2>1, <2>2, <2>3 DEF Explores
<1>12. Apart'
  <2>1. \A u, v \in Busy' : Item(u)[1]' = Item(v)[1]' => u = v
    BY <1>7, <1>9, <1>10 DEF Explores, Progress, Apart, Busy
  <2>2. \A u \in Busy' : Held(u)' \subseteq Entries(Item(u)[1])'
    <3>1. Held(w) = {}
      BY <1>2 DEF Held
    <3> QED
      BY <1>6, <1>7, <3>1 DEF Progress, Apart, Busy
  <2>3. \A u \in Threads : Held(u)' \cap Queued' = {}
    BY <1>5, <1>6 DEF Progress, Apart
  <2>4. \A i, j \in DOMAIN tasks' : tasks'[i][1] = tasks'[j][1] => i = j
    BY <1>1, <1>4 DEF Progress, Apart
  <2> QED
    BY <1>1, <2>1, <2>2, <2>3, <2>4 DEF Progress, Apart
<1>13. S \cup {d} \in SUBSET Dirs
  BY <1>3
<1> QED
  BY <1>11, <1>12, <1>13 DEF Progress

\* Every step of the search keeps its directories apart and accounted for
\* (fd4.cpp:105-165, :204-232).
LEMMA StepProgress == FInv /\ Progress /\ [Fd4Next]_allVars => Progress'
<1> SUFFICES ASSUME FInv, Progress, [Fd4Next]_allVars PROVE Progress'
  OBVIOUS
<1>1. ASSUME NEW t \in Threads, NEW n \in Nodes, SkipEntry(t, n) \/ VisitEntry(t, n)
      PROVE  Progress'
  BY <1>1, SkipProgress, VisitProgress
<1>2. ASSUME NEW t \in Threads, ScanFails(t) \/ PushChild(t) PROVE Progress'
  BY <1>2, FailProgress, PushProgress
<1>3. ASSUME NEW w \in Workers, StartItem(w) PROVE Progress'
  BY <1>3, StartProgress
<1> QED
  BY <1>1, <1>2, <1>3, OtherProgress DEF Fd4Next, Scan, Spawn

\* main's own call is the one started, on the root (fd4.cpp:214).
LEMMA InitProgress == Fd4Init => Progress
<1> SUFFICES ASSUME Fd4Init PROVE Progress
  OBVIOUS
<1> USE DEF Fd4Init, Init
<1>1. /\ Queued = {} /\ Known = {} /\ Found = {} /\ Busy = {Owner}
      /\ Item(Owner) = <<Root, 0>> /\ Opened = Entries(Root)
      /\ \A t \in Threads : Held(t) = {}
  <2>1. \A t \in Threads : Held(t) = {}
    BY DEF Held
  <2>2. Queued = {} /\ Found = {} /\ Busy = {Owner} /\ Item(Owner) = <<Root, 0>>
    BY DEF Queued, Found, Busy, Item, Threads
  <2>3. Opened = Entries(Root)
    BY DEF Opened, Entries, Threads
  <2> QED
    BY <2>1, <2>2, <2>3 DEF Known
<1>2. Explored({Root}, {}, Entries(Root), {}, {}, {})
  BY DEF Explored, Entries
<1>3. Explores({Root})
  BY <1>1, <1>2 DEF Explores
<1>4. Apart
  <2>1. DOMAIN tasks = {} /\ \A t \in Threads : epc[t] # "push"
    OBVIOUS
  <2>2. \A t, u \in Busy : t = u
    BY <1>1
  <2>3. \A t \in Busy : t \in Threads
    BY DEF Busy
  <2> QED
    BY <1>1, <2>1, <2>2, <2>3 DEF Apart
<1> QED
  BY <1>3, <1>4 DEF Progress

\* The invariant behind the refinement.
THEOREM ProgressInvariance == Fd4Spec => []Progress
<1>1. SInv /\ Progress /\ [Fd4Next]_allVars => Progress'
  BY StepProgress DEF SInv
<1> QED
  BY <1>1, InitProgress, SearchInvariance, PTL DEF Fd4Spec

\* The pool's rule that a closure is enqueued at most once never holds the
\* search back: no directory reaches enqueue twice (fd4.cpp:146-152).
THEOREM DirectoriesEnqueuedOnce == Fd4Spec => []EnqueuesFresh
<1>1. SInv /\ Progress => EnqueuesFresh
  <2> SUFFICES ASSUME SInv, Progress, NEW t \in Threads, spc[t] = "enq", NEW d \in subdirs[t]
               PROVE  Fresh(<<d, Item(t)[2] + 1>>)
    BY DEF EnqueuesFresh
  <2>1. FInv /\ d \in Dirs /\ d \in Held(t) /\ d \in Known /\ epc[t] # "push"
    BY DEF SInv, FInv, Fd4TypeOK, Link, Held, Known
  <2> DEFINE x == <<d, Item(t)[2] + 1>>
  <2>2. x[1] = d /\ x # NoTask
    BY <2>1, ChildItem
  <2> HIDE DEF x
  <2>3. x \notin submitted
    <3>1. PICK S \in SUBSET Dirs : Explores(S)
      BY DEF Progress
    <3>2. d \notin S /\ d \notin Queued
      BY <2>1, <3>1 DEF Progress, Apart, Explores, Explored
    <3> QED
      BY <2>2, <3>1, <3>2 DEF Explores
  <2>4. \A u \in Threads : earg[u] # x
    <3> SUFFICES ASSUME NEW u \in Threads, earg[u] = x PROVE FALSE
      OBVIOUS
    <3>1. epc[u] = "push"
      BY <2>1, <2>2 DEF FInv, IInv, TypeOK
    <3>2. d \in Held(u) /\ u # t
      BY <2>1, <2>2, <3>1 DEF Held
    <3> QED
      BY <2>1, <3>2, ThreadsApart DEF Progress
  <2> QED
    BY <2>3, <2>4 DEF Fresh, x
<1> QED
  BY <1>1, SearchInvariance, ProgressInvariance, PTL

-----------------------------------------------------------------------------
(* The refinement *)

\* The abstract search has the same tree.
LEMMA SameReports ==
  ASSUME NEW sk, NEW fl
  PROVE  Search!Reported(sk, fl) = Reported(sk, fl)
BY DEF Search!Reported, Reported, Search!Searched, Searched, Search!ClosedUnderSearch,
       ClosedUnderSearch, Search!Entries, Entries, Search!DepthAllows, DepthAllows

\* A busy thread means that main is not past its polling loop (fd4.cpp:216-220).
LEMMA NotEnded ==
  ASSUME SInv, NEW t \in Threads, spc[t] = "scan"
  PROVE  ~ (mpc \in {"print", "leave"})
BY DEF SInv, QuietAfterPoll, Busy

\* A step that reports, skips, fails and ends nothing.
LEMMA Stutters ==
  ASSUME UNCHANGED <<results, skipped, failed, mpc>>
  PROVE  UNCHANGED Search!vars
BY DEF Search!vars

\* Each step of the threaded search is a step of the recursive search's
\* specification or changes nothing it sees (fd4.cpp:105-165, :204-232).
LEMMA StepSearch == SInv /\ Progress /\ [Fd4Next]_allVars => [Search!Next]_(Search!vars)
<1> SUFFICES ASSUME SInv, Progress, [Fd4Next]_allVars PROVE [Search!Next]_(Search!vars)
  OBVIOUS
<1>f. FInv
  BY DEF SInv
<1>p. PICK S \in SUBSET Dirs : Explored(S, Known, Opened, Found, skipped, failed)
  BY DEF Progress, Explores
<1>s. Search!Seen = Found
  BY DEF Search!Seen, Found
<1>1. ASSUME NEW t \in Threads, NEW n \in Nodes, SkipEntry(t, n)
      PROVE  Search!Skip(n)
  <2>1. /\ n \in left[t] /\ TRUE \in is_ignored /\ spc[t] = "scan"
        /\ skipped' = skipped \cup {n} /\ UNCHANGED <<results, failed, mpc>>
    BY <1>1 DEF SkipEntry
  <2>2. n \in Opened /\ n \notin Found
    BY <1>p, <2>1 DEF Opened, Explored
  <2> QED
    BY <1>s, <2>1, <2>2, NotEnded DEF Search!Skip, Search!is_ignored, is_ignored
<1>2. ASSUME NEW t \in Threads, NEW n \in Nodes, VisitEntry(t, n)
      PROVE  Search!Report(n) \/ UNCHANGED Search!vars
  <2>1. /\ n \in left[t] /\ spc[t] = "scan"
        /\ results' = IF n \in Matching THEN Append(results, n) ELSE results
        /\ UNCHANGED <<skipped, failed, mpc>>
    BY <1>2 DEF VisitEntry
  <2>2. CASE n \notin Matching
    BY <2>1, <2>2, Stutters
  <2>3. CASE n \in Matching
    <3>1. n \in Opened /\ n \notin Found
      BY <1>p, <2>1 DEF Opened, Explored
    <3>2. n \in Reported(skipped, {})
      BY <1>p, <2>3, <3>1, OpenIsReported
    <3>3. n \in Search!Reported(skipped, {})
      BY <3>2, SameReports
    <3> QED
      BY <1>s, <2>1, <2>3, <3>1, <3>3, NotEnded DEF Search!Report
  <2> QED
    BY <2>2, <2>3
<1>3. ASSUME NEW t \in Threads, ScanFails(t)
      PROVE  \E d \in Faulty : Search!Fail(d)
  <2>1. /\ spc[t] = "scan" /\ Item(t)[1] \in Faulty /\ failed' = failed \cup {Item(t)[1]}
        /\ UNCHANGED <<results, skipped, mpc>>
    BY <1>3 DEF ScanFails
  <2> QED
    BY <2>1, NotEnded DEF Search!Fail
<1>4. ASSUME PollDone PROVE Search!End
  <2>1. mpc = "poll" /\ mpc' = "print" /\ UNCHANGED <<results, skipped, failed>>
    BY <1>4 DEF PollDone
  <2>2. Busy = {} /\ Reserved = {} /\ tasks = <<>>
    <3>1. active \in Nat /\ active <= 0 /\ Len(tasks) \in Nat /\ tasks \in Seq(Tasks)
      BY <1>4, <1>f DEF FInv, Fd4TypeOK, IInv, TypeOK, PollDone
    <3>2. Cardinality(Busy) = 0 /\ Len(tasks) = 0 /\ Cardinality(Reserved) = 0
      BY <3>1, FiniteCounted DEF SInv, ActiveCounts
    <3> QED
      BY <3>1, <3>2, FiniteCounted, FS_EmptySet
  <2>3. \A t \in Threads : spc[t] = "off" /\ left[t] = {} /\ Held(t) = {}
    BY <1>f, <2>2 DEF Busy, FInv, Link, Held
  <2>4. Known = {} /\ Opened = {}
    BY <2>2, <2>3 DEF Known, Queued, Opened
  <2>5. Reported(skipped, failed) \subseteq Found
    BY <1>p, <2>4, AllIsFound
  <2>6. Search!Reported(skipped, failed) \subseteq Search!Seen
    BY <1>s, <2>5, SameReports
  <2> QED
    BY <2>1, <2>6 DEF Search!End
<1>5. ASSUME \/ \E t \in Threads : ScanDone(t) \/ Spawn(t)
             \/ \E w \in Workers : StartItem(w) \/ FinishItem(w) \/ Idle(w) \/ Wake(w)
             \/ DestroyPool \/ PrintResults \/ UNCHANGED allVars
      PROVE  UNCHANGED Search!vars
  <2>1. CASE PrintResults
    BY <2>1 DEF PrintResults, Search!vars
  <2>2. CASE \E t \in Threads : Leave(t)
    <3>1. PICK t \in Threads : Leave(t)
      BY <2>2
    <3>2. t \in Busy /\ mpc \in {"search", "poll"}
      <4>1. t \in Busy /\ mpc \in {"search", "poll", "print", "leave"}
        BY <1>f, <3>1 DEF Leave, Busy, FInv, Fd4TypeOK
      <4> QED
        BY <4>1 DEF SInv, QuietAfterPoll
    <3> QED
      BY <3>1, <3>2 DEF Leave, Search!vars
  <2>3. CASE UNCHANGED <<results, skipped, failed, mpc>>
    BY <2>3, Stutters
  <2> QED
    BY <1>5, <2>1, <2>2, <2>3
       DEF ScanDone, Spawn, CountChild, EnqueueChild, PushChild, EnqueueReturns, StartItem,
           FinishItem, Idle, Wake, DestroyPool, searchVars, allVars
<1> QED
  BY <1>1, <1>2, <1>3, <1>4, <1>5 DEF Fd4Next, Scan, Main, Search!Next

\* The pooled search reports what the recursive one would: each entry once,
\* only entries it would reach, and all of them before main goes on, but for
\* those in or below a directory that threw (fd4.cpp:105-165 against
\* fd.cpp:67-94).
THEOREM SearchImplements == Fd4Spec => ImplementsSearch
<1>1. Fd4Init => Search!Init
  BY DEF Fd4Init, Search!Init
<1> QED
  BY <1>1, StepSearch, SearchInvariance, ProgressInvariance, PTL
     DEF Fd4Spec, ImplementsSearch, Search!Spec
=============================================================================
