------------------------- MODULE EchoServer_proofs -------------------------
(* What holds of the echo server for every number of workers and clients.     *)
(* The server takes only steps the pool allows, so the pool's theorems hold   *)
(* in it; on top of them this module follows each connection from accept to   *)
(* the end of its handler.                                                    *)
EXTENDS EchoServer, ThreadPool_proofs, SequenceTheorems

\* How the acceptor and the handlers follow the pool's program counters; until
\* start has stored running_, nothing was accepted.
Linked ==
  /\ apc \in {"create", "listen", "store", "test", "accept", "hand", "queue", "closing"}
  /\ apc \in {"create", "listen", "store"} =>
       tasks = <<>> /\ \A w \in Workers : hpc[w] = "off"
  /\ accepted \in Clients \cup {NoTask}
  /\ accepted # NoTask => apc = "hand"
  /\ apc = "hand" => accepted \in Clients
  /\ epc[Owner] # "none" => apc = "queue"
  /\ dpc # "live" => apc = "closing"
  /\ \A w \in Workers : epc[w] = "none"
  /\ hpc \in [Workers -> {"off", "test", "recv", "send", "end"}]
  /\ \A w \in Workers : hpc[w] # "off" <=> wpc[w] = "run"

\* A client connects once: what waits in the backlog was never accepted, and
\* what the acceptor holds was never given to the pool.
Once ==
  /\ backlog \in Seq(Clients)
  /\ \A i, j \in DOMAIN backlog : backlog[i] = backlog[j] => i = j
  /\ \A i \in DOMAIN backlog :
       /\ backlog[i] \notin submitted \cup AtAcceptor
       /\ cpc[backlog[i]] # "out"
  /\ \A c \in submitted \cup AtAcceptor : cpc[c] # "out"
  /\ accepted \notin submitted
  /\ cpc \in [Clients -> {"out", "send", "recv", "left", "killed"}]

\* Where the open descriptors are, and how many handlers run.
Accounted ==
  up => /\ open = AtAcceptor \cup Queued \cup {task[w] : w \in Running}
        /\ active_connections_ = Cardinality(Running)

EInv == IInv /\ ExactlyOnePlace /\ Linked

USE PoolAssumption DEF Clients

\* A step of the server is a step of the pool or leaves the pool alone
\* (echoServer.h:17, :63-68, :90-108).
LEMMA StepIsPoolStep == Linked /\ [EchoNext]_allVars => [Next]_vars
<1> SUFFICES ASSUME Linked, [EchoNext]_allVars PROVE [Next]_vars
  OBVIOUS
<1>1. ASSUME Acceptor PROVE [Next]_vars
  <2>1. ASSUME Hand PROVE \E x \in Tasks : EnqueueChecked(Owner, x)
    BY <2>1 DEF Hand, Linked
  <2>2. Owner \in Threads
    BY DEF Threads
  <2> QED
    BY <1>1, <2>1, <2>2 DEF Acceptor, Create, Listen, Store, AcceptTest, Accept, HandPush, Handed,
       Next, Enqueue
<1>2. ASSUME Stop \/ AcceptFails \/ StopStore PROVE UNCHANGED vars
  BY <1>2 DEF Stop, StopClose, AcceptFails, StopStore
<1>3. ASSUME Closing PROVE Next
  BY <1>3 DEF Closing, Destroy, Next
<1>4. ASSUME NEW w \in Workers, Handler(w) \/ SigPipe(w) \/ Wake(w) PROVE [Next]_vars
  <2>1. ASSUME HandlerStart(w) \/ HandlerEnd(w) \/ Idle(w) \/ Wake(w)
        PROVE  WorkerStep(w) \/ Finish(w) \/ SpuriousWake(w)
    BY <2>1 DEF HandlerStart, HandlerEnd, Idle, Wake, WorkerStep
  <2>2. ASSUME \/ HandlerTest(w) \/ Recv(w) \/ RecvEnds(w) \/ Send(w) \/ SendGone(w)
               \/ SigPipe(w)
        PROVE  UNCHANGED vars
    BY <2>2 DEF HandlerTest, Recv, RecvEnds, Send, SendGone, SigPipe, HandlerGoes
  <2> QED
    BY <1>4, <2>1, <2>2 DEF Handler, Next
<1>5. ASSUME NEW c \in Clients, Client(c) \/ ClientKilled(c) PROVE UNCHANGED vars
  BY <1>5 DEF Client, Connect, ClientSend, ClientRecv, ClientFails, ClientKilled
<1>6. CASE UNCHANGED allVars
  BY <1>6 DEF allVars
<1> QED
  BY <1>1, <1>2, <1>3, <1>4, <1>5, <1>6 DEF EchoNext
-----------------------------------------------------------------------------
\* The server starts with nothing accepted (echoServer.h:17, :49-82).
LEMMA InitConnections == EchoInit => EInv /\ Once /\ Accounted
<1> SUFFICES ASSUME EchoInit PROVE EInv /\ Once /\ Accounted
  OBVIOUS
<1>1. Init /\ TypeOK
  BY InitTypes DEF EchoInit
<1>2. IInv /\ ExactlyOnePlace
  BY <1>1 DEF IInv, MutexHeld, Locals, SomebodyLeft, Init, Threads, ExactlyOnePlace, Running
<1>3. Linked
  BY <1>1 DEF EchoInit, Linked, Init, Threads
<1>4. Once
  BY <1>1 DEF EchoInit, Once, AtAcceptor, Init, Threads
<1>5. Accounted
  <2>1. Running = {}
    BY <1>1 DEF Init, Running
  <2> QED
    BY <1>1, <2>1, FS_EmptySet DEF EchoInit, Accounted, AtAcceptor, Queued, Init, Threads
<1> QED
  BY <1>2, <1>3, <1>4, <1>5 DEF EInv

\* The acceptor and the handlers follow the pool step by step
\* (echoServer.h:17, :83-109).
LEMMA StepLinked == TypeOK /\ Linked /\ Once /\ [EchoNext]_allVars => Linked'
<1> SUFFICES ASSUME TypeOK, Linked, Once, [EchoNext]_allVars PROVE Linked'
  OBVIOUS
<1> USE DEF TypeOK, Linked, Threads, vars, stopVars, acceptVars, handlerVars, kernelVars
<1>1. ASSUME Create \/ Listen \/ Store \/ AcceptTest PROVE Linked'
  BY <1>1 DEF Create, Listen, Store, AcceptTest
<1>2. ASSUME Accept PROVE Linked'
  <2>1. Head(backlog) \in Clients
    BY <1>2 DEF Accept, Once
  <2> QED
    BY <1>2, <2>1 DEF Accept
<1>3. ASSUME AcceptFails PROVE Linked'
  BY <1>3 DEF AcceptFails
<1>4. ASSUME Hand PROVE Linked'
  BY <1>4 DEF Hand, EnqueueChecked
<1>5. ASSUME HandPush PROVE Linked'
  BY <1>5 DEF HandPush, EnqueuePush, serverVars
<1>6. ASSUME Handed PROVE Linked'
  BY <1>6 DEF Handed, NotifyOne, Waiters
<1>7. ASSUME StopStore \/ StopClose PROVE Linked'
  BY <1>7 DEF StopStore, StopClose
<1>8. ASSUME Destroy PROVE Linked'
  BY <1>8 DEF Destroy, Dtor, DtorStop, DtorNotifyAll, DtorJoin, Waiters
<1>9. ASSUME NEW w \in Workers, HandlerStart(w) PROVE Linked'
  BY <1>9 DEF HandlerStart, TakeTask
<1>10. ASSUME NEW w \in Workers,
              HandlerTest(w) \/ Recv(w) \/ RecvEnds(w) \/ Send(w) \/ SendGone(w)
       PROVE  Linked'
  <2>1. PICK pc \in {"test", "recv", "send", "end"} : HandlerGoes(w, pc)
    BY <1>10 DEF HandlerTest, Recv, RecvEnds, Send, SendGone
  <2>2. hpc[w] # "off"
    BY <1>10 DEF HandlerTest, Recv, RecvEnds, Send, SendGone
  <2> QED
    BY <2>1, <2>2 DEF HandlerGoes
<1>11. ASSUME NEW w \in Workers, HandlerEnd(w) PROVE Linked'
  BY <1>11 DEF HandlerEnd, Finish
<1>12. ASSUME NEW w \in Workers, Idle(w) PROVE Linked'
  BY <1>12 DEF Idle, ExitWorker, FindNothing, Park, serverVars
<1>13. ASSUME NEW w \in Workers, Wake(w) \/ SigPipe(w) PROVE Linked'
  BY <1>13 DEF Wake, SpuriousWake, SigPipe, serverVars
<1>14. ASSUME NEW c \in Clients, Client(c) \/ ClientKilled(c) PROVE Linked'
  BY <1>14 DEF Client, Connect, ClientSend, ClientRecv, ClientFails, ClientKilled, serverVars
<1>15. CASE UNCHANGED allVars
  BY <1>15 DEF allVars, serverVars
<1> QED
  BY <1>1, <1>2, <1>3, <1>4, <1>5, <1>6, <1>7, <1>8, <1>9, <1>10, <1>11, <1>12,
     <1>13, <1>14, <1>15 DEF EchoNext, Acceptor, Stop, Closing, Handler

\* A connection comes to the acceptor, and then to the pool, once
\* (echoServer.h:90-104): the kernel hands out what it queued, and a client
\* that connected does not connect again (echoClient.h:15-33).
LEMMA StepOnce == TypeOK /\ Linked /\ Once /\ [EchoNext]_allVars => Once'
<1> SUFFICES ASSUME TypeOK, Linked, Once, [EchoNext]_allVars PROVE Once'
  OBVIOUS
<1> USE DEF Once, AtAcceptor, Threads, vars, stopVars, acceptVars, handlerVars, kernelVars
<1>e. <<>> \in Seq(Clients)
  OBVIOUS
<1>q. ASSUME backlog' \in {backlog, <<>>}, UNCHANGED <<submitted, accepted, earg, cpc>>
      PROVE  Once'
  <2>1. AtAcceptor' = AtAcceptor
    BY <1>q
  <2> HIDE DEF AtAcceptor
  <2>2. CASE backlog' = backlog
    BY <1>q, <2>1, <2>2
  <2>3. CASE backlog' = <<>>
    <3>1. DOMAIN backlog' = {}
      BY <2>3
    <3> QED
      BY <1>q, <1>e, <2>1, <2>3, <3>1
  <2> QED
    BY <1>q, <2>2, <2>3
<1>1. ASSUME Accept PROVE Once'
  <2>1. accepted = NoTask
    BY <1>1 DEF Accept, Linked
  <2>2. Head(backlog) \in Clients /\ Head(backlog) = backlog[1] /\ 1 \in DOMAIN backlog
    BY <1>1 DEF Accept
  <2>3. AtAcceptor' = AtAcceptor \cup {Head(backlog)}
    BY <1>1, <2>1, <2>2 DEF Accept
  <2>4. /\ Tail(backlog) \in Seq(Clients)
        /\ \A i \in DOMAIN Tail(backlog) :
             i + 1 \in DOMAIN backlog /\ Tail(backlog)[i] = backlog[i + 1] /\ i + 1 # 1
    BY <1>1 DEF Accept
  <2>5. CASE backlog' = <<>>
    BY <1>1, <2>2, <2>3, <2>5, <1>e DEF Accept, clientVars, callerVars
  <2>6. CASE backlog' = Tail(backlog)
    <3>1. \A i, j \in DOMAIN Tail(backlog) : Tail(backlog)[i] = Tail(backlog)[j] => i = j
      <4>1. SUFFICES ASSUME NEW i \in DOMAIN Tail(backlog), NEW j \in DOMAIN Tail(backlog),
                            Tail(backlog)[i] = Tail(backlog)[j]
                     PROVE  i = j
        OBVIOUS
      <4>2. i + 1 = j + 1
        BY <2>4, <4>1
      <4>3. i \in Nat /\ j \in Nat
        BY <2>4
      <4> QED
        BY <4>2, <4>3
    <3>2. \A i \in DOMAIN Tail(backlog) : Tail(backlog)[i] # Head(backlog)
      BY <2>2, <2>4
    <3> HIDE DEF AtAcceptor
    <3> QED
      BY <1>1, <2>2, <2>3, <2>4, <2>6, <3>1, <3>2 DEF Accept, clientVars, callerVars
  <2> QED
    BY <1>1, <2>5, <2>6 DEF Accept
<1>2. ASSUME NEW c \in Clients, Connect(c) PROVE Once'
  <2>1. AtAcceptor' = AtAcceptor /\ submitted' = submitted /\ accepted' = accepted
    BY <1>2 DEF Connect
  <2>2. /\ c \notin submitted \cup AtAcceptor
        /\ \A i \in DOMAIN backlog : backlog[i] # c
    BY <1>2 DEF Connect
  <2>3. cpc'[c] # "out" /\ \A d \in Clients : cpc[d] # "out" => cpc'[d] # "out"
    BY <1>2 DEF Connect
  <2>4. cpc' \in [Clients -> {"out", "send", "recv", "left", "killed"}]
    BY <1>2 DEF Connect
  <2>5. submitted \cup AtAcceptor \subseteq Clients
    BY DEF TypeOK, Linked
  <2> HIDE DEF AtAcceptor
  <2>6. CASE backlog' = backlog
    BY <2>1, <2>3, <2>4, <2>5, <2>6
  <2>7. CASE backlog' = Append(backlog, c)
    <3>1. /\ backlog' \in Seq(Clients)
          /\ \A i \in DOMAIN backlog' :
               \/ i \in DOMAIN backlog /\ backlog'[i] = backlog[i]
               \/ i = Len(backlog) + 1 /\ backlog'[i] = c
      BY <2>7
    <3> QED
      BY <2>1, <2>2, <2>3, <2>4, <2>5, <3>1
  <2> QED
    BY <1>2, <2>6, <2>7 DEF Connect
<1>3. ASSUME NEW c \in Clients,
             ClientSend(c) \/ ClientRecv(c) \/ ClientFails(c) \/ ClientKilled(c)
      PROVE  Once'
  <2>1. UNCHANGED <<backlog, submitted, accepted, earg>>
    BY <1>3 DEF ClientSend, ClientRecv, ClientFails, ClientKilled, serverVars
  <2>2. /\ cpc' \in [Clients -> {"out", "send", "recv", "left", "killed"}]
        /\ \A d \in Clients : cpc[d] # "out" => cpc'[d] # "out"
    BY <1>3 DEF ClientSend, ClientRecv, ClientFails, ClientKilled
  <2>3. submitted \cup AtAcceptor \subseteq Clients
    BY DEF TypeOK, Linked
  <2> QED
    BY <2>1, <2>2, <2>3
<1>4. ASSUME Hand PROVE Once'
  <2>1. epc[Owner] = "none" /\ earg[Owner] = NoTask /\ earg' = [earg EXCEPT ![Owner] = accepted]
    BY <1>4 DEF Hand, EnqueueChecked, TypeOK
  <2>2. AtAcceptor' = AtAcceptor /\ accepted' = NoTask /\ submitted' = submitted
    BY <1>4, <2>1 DEF Hand, EnqueueChecked, TypeOK
  <2>3. NoTask \notin submitted
    BY DEF TypeOK
  <2> HIDE DEF AtAcceptor
  <2> QED
    BY <1>4, <2>2, <2>3 DEF Hand, clientVars, callerVars
<1>5. ASSUME HandPush PROVE Once'
  <2>1. /\ epc[Owner] = "push" /\ earg[Owner] \in Clients /\ accepted = NoTask
        /\ earg[Owner] \in AtAcceptor
    BY <1>5 DEF HandPush, EnqueuePush, TypeOK, Linked
  <2>2. /\ submitted' = submitted \cup {earg[Owner]} /\ AtAcceptor' = {}
        /\ UNCHANGED <<backlog, accepted, cpc>>
    BY <1>5, <2>1 DEF HandPush, EnqueuePush, TypeOK, serverVars, clientVars, callerVars
  <2>3. NoTask \notin submitted
    BY DEF TypeOK
  <2> HIDE DEF AtAcceptor
  <2> QED
    BY <2>1, <2>2, <2>3
<1>6. ASSUME \/ Create \/ Listen \/ Store
             \/ AcceptTest \/ AcceptFails \/ Handed \/ StopStore \/ StopClose \/ Destroy
      PROVE  Once'
  <2>1. /\ backlog' \in {backlog, <<>>}
        /\ UNCHANGED <<submitted, accepted, earg, cpc>>
    BY <1>6 DEF Create, Listen, Store, AcceptTest, AcceptFails, Handed, NotifyOne, StopStore, StopClose, Destroy,
       Dtor, DtorStop, DtorNotifyAll, DtorJoin, clientVars, callerVars
  <2> QED
    BY <2>1, <1>q
<1>7. ASSUME NEW w \in Workers, Handler(w) \/ SigPipe(w) \/ Wake(w) PROVE Once'
  <2>1. /\ backlog' \in {backlog, <<>>}
        /\ UNCHANGED <<submitted, accepted, earg, cpc>>
    BY <1>7 DEF Handler, HandlerStart, TakeTask, HandlerTest, Recv, RecvEnds, Send, SendGone,
       HandlerGoes, HandlerEnd, Finish, Idle, ExitWorker, FindNothing, Park, Wake,
       SpuriousWake, SigPipe, serverVars, clientVars, callerVars
  <2> QED
    BY <2>1, <1>q
<1>8. CASE UNCHANGED allVars
  BY <1>8 DEF allVars, serverVars, clientVars, callerVars
<1> QED
  BY <1>1, <1>2, <1>3, <1>4, <1>5, <1>6, <1>7, <1>8
     DEF EchoNext, Acceptor, Stop, Closing, Client

-----------------------------------------------------------------------------
\* Workers are finite, so handlers are counted one by one.
LEMMA HandlersCounted ==
  /\ IsFiniteSet(Running) /\ Cardinality(Running) \in Nat
  /\ Cardinality({}) = 0
  /\ \A w \in Workers \ Running :
       Cardinality(Running \cup {w}) = Cardinality(Running) + 1
  /\ \A w \in Running : Cardinality(Running \ {w}) = Cardinality(Running) - 1
<1>1. IsFiniteSet(Running)
  BY FS_Subset DEF Running
<1> QED
  BY <1>1, FS_EmptySet, FS_CardinalityType, FS_AddElement, FS_RemoveElement

\* What a step of the server does to its descriptors it does to the places
\* that hold them (echoServer.h:17, :91-104, :25-47).
LEMMA StepAccounted ==
  EInv /\ Once /\ Accounted /\ [EchoNext]_allVars => Accounted'
<1> SUFFICES ASSUME EInv, Once, Accounted, [EchoNext]_allVars, up' PROVE Accounted'
  BY DEF Accounted
<1> USE DEF Threads, vars, stopVars, acceptVars, handlerVars, kernelVars
<1> DEFINE Held == {task[w] : w \in Running}
<1>i. TypeOK /\ Linked /\ ExactlyOnePlace
  BY DEF EInv, IInv
<1>q. ASSUME up, UNCHANGED <<tasks, accepted, earg, open, active_connections_>>,
             Running' = Running, \A w \in Running : task'[w] = task[w]
      PROVE  Accounted'
  <2>1. AtAcceptor' = AtAcceptor /\ Queued' = Queued /\ Held' = Held
    BY <1>q DEF AtAcceptor, Queued
  <2> QED
    BY <1>q, <2>1 DEF Accounted
<1>p. ASSUME up, UNCHANGED <<tasks, accepted, earg, open, active_connections_, task, wpc>>
      PROVE  Accounted'
  BY <1>p, <1>q DEF Running
<1>1. ASSUME up, Accept PROVE Accounted'
  <2>1. accepted = NoTask /\ Head(backlog) \in Clients
    BY <1>1, <1>i DEF Accept, Linked, Once
  <2>2. /\ AtAcceptor' = AtAcceptor \cup {Head(backlog)}
        /\ Queued' = Queued /\ Running' = Running /\ Held' = Held
    BY <1>1, <2>1 DEF Accept, AtAcceptor, Queued, Running
  <2> QED
    BY <1>1, <2>2 DEF Accounted, Accept
<1>2. ASSUME up, Hand PROVE Accounted'
  <2>1. /\ earg[Owner] = NoTask /\ earg' = [earg EXCEPT ![Owner] = accepted]
        /\ accepted' = NoTask /\ accepted \in Clients
    BY <1>2, <1>i DEF Hand, EnqueueChecked, TypeOK, Linked
  <2>2. /\ AtAcceptor' = AtAcceptor /\ Queued' = Queued
        /\ Running' = Running /\ Held' = Held
    BY <1>2, <2>1, <1>i DEF Hand, EnqueueChecked, AtAcceptor, Queued, Running, TypeOK
  <2> QED
    BY <1>2, <2>2 DEF Accounted, Hand
<1>3. ASSUME up, HandPush PROVE Accounted'
  <2>1. earg[Owner] \in Clients /\ accepted = NoTask /\ AtAcceptor = {earg[Owner]}
    BY <1>3, <1>i DEF HandPush, EnqueuePush, TypeOK, Linked, AtAcceptor
  <2>2. AtAcceptor' = {} /\ Running' = Running /\ Held' = Held
    BY <1>3, <2>1, <1>i DEF HandPush, EnqueuePush, TypeOK, AtAcceptor, Running, serverVars
  <2>3. Queued' = Queued \cup {earg[Owner]}
    <3>1. tasks' = Append(tasks, earg[Owner]) /\ tasks \in Seq(Tasks)
      BY <1>3, <1>i DEF HandPush, EnqueuePush, TypeOK
    <3> QED
      BY <3>1, <2>1 DEF Queued
  <2> QED
    BY <1>3, <2>1, <2>2, <2>3 DEF Accounted, HandPush, serverVars
<1>4. ASSUME up, Handed PROVE Accounted'
  <2>1. Running' = Running /\ UNCHANGED <<tasks, task, accepted, earg, open, active_connections_>>
    BY <1>4, <1>i DEF Handed, NotifyOne, Waiters, Running, TypeOK
  <2> QED
    BY <1>4, <2>1, <1>q
<1>5. ASSUME up, \/ Create \/ Listen \/ Store
                 \/ AcceptTest \/ AcceptFails \/ StopStore \/ StopClose
      PROVE  Accounted'
  BY <1>5, <1>p DEF Create, Listen, Store, AcceptTest, AcceptFails, StopStore, StopClose
<1>6. ASSUME up, Destroy PROVE Accounted'
  <2>1. Running' = Running /\ UNCHANGED <<tasks, task, accepted, earg, open, active_connections_>>
    BY <1>6, <1>i DEF Destroy, Dtor, DtorStop, DtorNotifyAll, DtorJoin, Waiters, Running, TypeOK
  <2> QED
    BY <1>6, <2>1, <1>q
<1>7. ASSUME up, NEW w \in Workers, HandlerStart(w) PROVE Accounted'
  <2>1. /\ w \in Workers \ Running /\ Running' = Running \cup {w}
        /\ active_connections_' = active_connections_ + 1
        /\ UNCHANGED <<accepted, earg, open>>
    BY <1>7, <1>i DEF HandlerStart, TakeTask, Running, TypeOK
  <2>2. Queued \cup Held = Queued' \cup Held'
    <3>1. /\ tasks \in Seq(Tasks) /\ tasks # <<>> /\ tasks' = Tail(tasks)
          /\ task' = [task EXCEPT ![w] = Head(tasks)] /\ w \in DOMAIN task
      BY <1>7, <1>i DEF HandlerStart, TakeTask, TypeOK
    <3>2. Held' = Held \cup {Head(tasks)}
      BY <2>1, <3>1
    <3>3. Queued = Queued' \cup {Head(tasks)}
      <4>1. \A i \in DOMAIN Tail(tasks) : i + 1 \in DOMAIN tasks /\ Tail(tasks)[i] = tasks[i + 1]
        BY <3>1
      <4>2. \A i \in DOMAIN tasks :
              \/ i = 1
              \/ i - 1 \in DOMAIN Tail(tasks) /\ tasks[i] = Tail(tasks)[i - 1]
        BY <3>1
      <4>3. 1 \in DOMAIN tasks /\ Head(tasks) = tasks[1]
        BY <3>1
      <4>4. Queued' = {Tail(tasks)[i] : i \in DOMAIN Tail(tasks)}
        BY <3>1 DEF Queued
      <4>5. ASSUME NEW i \in DOMAIN tasks PROVE tasks[i] \in Queued' \cup {Head(tasks)}
        BY <4>2, <4>3, <4>4
      <4>6. ASSUME NEW i \in DOMAIN Tail(tasks) PROVE Tail(tasks)[i] \in Queued
        BY <4>1 DEF Queued
      <4>7. Head(tasks) \in Queued
        BY <4>3 DEF Queued
      <4> QED
        BY <4>4, <4>5, <4>6, <4>7 DEF Queued
    <3> QED
      BY <3>2, <3>3
  <2>3. AtAcceptor' = AtAcceptor
    BY <2>1 DEF AtAcceptor
  <2> QED
    BY <1>7, <2>1, <2>2, <2>3, HandlersCounted DEF Accounted
<1>8. ASSUME up, NEW w \in Workers, HandlerEnd(w) PROVE Accounted'
  <2>1. /\ w \in Running /\ Running' = Running \ {w}
        /\ active_connections_' = active_connections_ - 1
        /\ open' = open \ {task[w]}
        /\ UNCHANGED <<accepted, earg, tasks>>
        /\ task' = [task EXCEPT ![w] = NoTask]
    BY <1>8, <1>i DEF HandlerEnd, Finish, Running, TypeOK
  <2>2. Held' = Held \ {task[w]}
    <3>1. \A v \in Running : v # w => task[v] # task[w] /\ task'[v] = task[v]
      BY <2>1, <1>i DEF ExactlyOnePlace, Running, TypeOK
    <3> QED
      BY <2>1, <3>1
  <2>3. AtAcceptor' = AtAcceptor /\ Queued' = Queued
    BY <2>1 DEF AtAcceptor, Queued
  <2>4. task[w] \notin Queued
    BY <2>1, <1>i DEF Queued, ExactlyOnePlace
  <2>5. task[w] \in submitted
    BY <2>1, <1>i DEF ExactlyOnePlace
  <2>6. task[w] \notin AtAcceptor
    BY <2>5, <1>i DEF AtAcceptor, Once, EInv, IInv, Locals, TypeOK
  <2> QED
    BY <1>8, <2>1, <2>2, <2>3, <2>4, <2>6, HandlersCounted DEF Accounted
<1>9. ASSUME up, NEW w \in Workers,
             \/ HandlerTest(w) \/ Recv(w) \/ RecvEnds(w) \/ Send(w) \/ SendGone(w)
      PROVE  Accounted'
  BY <1>9, <1>p DEF HandlerTest, Recv, RecvEnds, Send, SendGone, HandlerGoes
<1>10. ASSUME up, NEW w \in Workers, Idle(w) \/ Wake(w) PROVE Accounted'
  <2>1. Running' = Running /\ UNCHANGED <<tasks, task, accepted, earg, open, active_connections_>>
    BY <1>10, <1>i DEF Idle, ExitWorker, FindNothing, Park, Wake, SpuriousWake, Running,
       TypeOK, serverVars
  <2> QED
    BY <1>10, <2>1, <1>q
<1>11. ASSUME NEW w \in Workers, SigPipe(w) PROVE Accounted'
  BY <1>11 DEF SigPipe
<1>12. ASSUME NEW c \in Clients, Client(c) \/ ClientKilled(c) PROVE Accounted'
  <2>1. up /\ UNCHANGED <<tasks, accepted, earg, open, active_connections_, task, wpc>>
    BY <1>12 DEF Client, Connect, ClientSend, ClientRecv, ClientFails, ClientKilled, serverVars
  <2> QED
    BY <2>1, <1>p
<1>13. CASE UNCHANGED allVars
  BY <1>13, <1>p DEF allVars, serverVars
<1> QED
  BY <1>1, <1>2, <1>3, <1>4, <1>5, <1>6, <1>7, <1>8, <1>9, <1>10, <1>11, <1>12, <1>13
     DEF EchoNext, Acceptor, Stop, Closing, Handler

-----------------------------------------------------------------------------
\* Every step of the server keeps them (echoServer.h:17, :83-109).
LEMMA StepEcho ==
  EInv /\ Once /\ Accounted /\ [EchoNext]_allVars => EInv' /\ Once' /\ Accounted'
<1> SUFFICES ASSUME EInv, Once, Accounted, [EchoNext]_allVars
             PROVE  EInv' /\ Once' /\ Accounted'
  OBVIOUS
<1>1. [Next]_vars
  BY StepIsPoolStep DEF EInv
<1>2. IInv' /\ ExactlyOnePlace'
  BY <1>1, StepInv, StepPlaces DEF EInv
<1>3. Linked' /\ Once'
  BY StepLinked, StepOnce DEF EInv, IInv
<1> QED
  BY <1>2, <1>3, StepAccounted DEF EInv

\* The invariant of the echo server's connections (echoServer.h:17, :83-109).
THEOREM EchoInvariance == EchoSpec => [](EInv /\ Once /\ Accounted)
  BY InitConnections, StepEcho, PTL DEF EchoSpec

\* While the server lives every descriptor it accepted is with the acceptor,
\* queued, or with one handler, and the counter is the number of handlers,
\* whatever the pool's size and the number of clients (echoServer.h:17, :91-104).
THEOREM Connections == EchoSpec => []ConnectionsAccounted
<1>1. EInv /\ Once /\ Accounted => ConnectionsAccounted
  <2> SUFFICES ASSUME EInv, Once, Accounted, up PROVE ConnectionsAccounted
    BY DEF ConnectionsAccounted
  <2>i. TypeOK /\ Linked /\ ExactlyOnePlace /\ Locals /\ SomebodyLeft /\ MutexHeld
    BY DEF EInv, IInv
  <2>1. AtAcceptor \cap submitted = {}
    BY <2>i DEF AtAcceptor, Once, Locals, TypeOK, Threads
  <2>2. Queued \cup {task[w] : w \in Running} \subseteq submitted
    BY <2>i DEF ExactlyOnePlace, Queued
  <2>3. ASSUME Workers # {}, dpc = "dead" PROVE open = {} /\ active_connections_ = 0
    <3>1. Running = {} /\ tasks = <<>>
      BY <2>3, <2>i DEF Running, Locals, SomebodyLeft
    <3>2. AtAcceptor = {}
      BY <2>3, <2>i DEF AtAcceptor, Linked, MutexHeld, TypeOK, Threads
    <3>3. Queued = {}
      BY <3>1 DEF Queued
    <3> QED
      BY <3>1, <3>2, <3>3, FS_EmptySet DEF Accounted
  <2> QED
    BY <2>1, <2>2, <2>3 DEF Accounted, ConnectionsAccounted
<1> QED
  BY <1>1, EchoInvariance, PTL

\* The server uses its pool as the pool's own specification allows, so every
\* safety theorem of ThreadPool holds in it (echoServer.h:17, :83-109).
THEOREM EchoUsesPool == EchoSpec => Spec
<1>1. EchoInit => Init
  BY DEF EchoInit
<1>2. EInv /\ Once /\ Accounted /\ [EchoNext]_allVars => [Next]_vars
  BY StepIsPoolStep DEF EInv
<1> QED
  BY <1>1, <1>2, EchoInvariance, PTL DEF EchoSpec, Spec
-----------------------------------------------------------------------------
(* The bytes on the connections *)

\* A byte a client sent, by its position (echoClient.h:36-42).
Byte == Clients \X Nat

\* A slice of a client's stream has its length and its bytes in their order
\* (socket.h:126-157: what send and recv move).
LEMMA BytesSlice ==
  ASSUME NEW c \in Clients, NEW m \in Nat, NEW n \in Nat, m <= n
  PROVE  /\ Bytes(c, m, n) \in Seq(Byte) /\ Len(Bytes(c, m, n)) = n - m
         /\ \A i \in 1 .. n - m : Bytes(c, m, n)[i] = <<c, m + i>>
<1>1. n - m \in Nat /\ \A i \in 1 .. n - m : <<c, m + i>> \in Byte
  BY DEF Byte
<1> QED
  BY <1>1 DEF Bytes

\* An empty slice (socket.h:126-157).
LEMMA BytesEmpty == \A c, m : m \in Nat => Bytes(c, m, m) = <<>>
<1> SUFFICES ASSUME NEW c, NEW m \in Nat PROVE Bytes(c, m, m) = <<>>
  OBVIOUS
<1>1. 1 .. m - m = {}
  OBVIOUS
<1> QED
  BY <1>1 DEF Bytes

\* Slices that touch are one slice (socket.h:126-157).
LEMMA BytesJoin ==
  ASSUME NEW c \in Clients, NEW k \in Nat, NEW m \in Nat, NEW n \in Nat, k <= m, m <= n
  PROVE  Bytes(c, k, m) \o Bytes(c, m, n) = Bytes(c, k, n)
<1> DEFINE s == Bytes(c, k, m)
           t == Bytes(c, m, n)
           u == Bytes(c, k, n)
           v == s \o t
<1>0. /\ m - k \in Nat /\ n - m \in Nat /\ n - k \in Nat /\ k <= n
      /\ (m - k) + (n - m) = n - k
  OBVIOUS
<1>1. /\ s \in Seq(Byte) /\ Len(s) = m - k
      /\ \A i \in 1 .. m - k : s[i] = <<c, k + i>>
  BY BytesSlice
<1>2. /\ t \in Seq(Byte) /\ Len(t) = n - m
      /\ \A i \in 1 .. n - m : t[i] = <<c, m + i>>
  BY BytesSlice
<1>3. /\ u \in Seq(Byte) /\ Len(u) = n - k
      /\ \A i \in 1 .. n - k : u[i] = <<c, k + i>>
  BY <1>0, BytesSlice
<1> HIDE DEF s, t, u
<1>4. /\ v \in Seq(Byte)
      /\ Len(v) = (m - k) + (n - m)
      /\ \A i \in 1 .. (m - k) + (n - m) : v[i] = IF i <= m - k THEN s[i] ELSE t[i - (m - k)]
  <2>1. /\ v \in Seq(Byte)
        /\ Len(v) = Len(s) + Len(t)
        /\ \A i \in 1 .. Len(s) + Len(t) : v[i] = IF i <= Len(s) THEN s[i] ELSE t[i - Len(s)]
    BY <1>1, <1>2, ConcatProperties
  <2> HIDE DEF v
  <2> QED
    BY <2>1, <1>1, <1>2
<1> HIDE DEF v
<1>5. ASSUME NEW i \in 1 .. n - k PROVE v[i] = u[i]
  <2>1. CASE i <= m - k
    <3>1. i \in 1 .. m - k /\ i \in 1 .. (m - k) + (n - m)
      BY <1>0, <2>1
    <3> QED
      BY <1>1, <1>3, <1>4, <2>1, <3>1
  <2>2. CASE ~ (i <= m - k)
    <3>1. /\ i - (m - k) \in 1 .. n - m /\ m + (i - (m - k)) = k + i
          /\ i \in 1 .. (m - k) + (n - m)
      BY <1>0, <2>2
    <3>2. t[i - (m - k)] = <<c, k + i>>
      BY <3>1, <1>2
    <3>3. v[i] = t[i - (m - k)]
      BY <1>4, <2>2, <3>1
    <3> QED
      BY <3>2, <3>3, <1>3
  <2> QED
    BY <2>1, <2>2
<1>6. v = u
  <2>1. Len(v) = Len(u)
    BY <1>0, <1>3, <1>4
  <2>2. \A i \in 1 .. Len(v) : v[i] = u[i]
    BY <1>0, <1>4, <1>5
  <2> QED
    BY <2>1, <2>2, <1>3, <1>4, SeqEqual
<1> QED
  BY <1>6 DEF s, t, u, v

\* What one call moves and what it leaves (socket.h:126-157).
LEMMA Split ==
  ASSUME NEW S, NEW s \in Seq(S), NEW n \in 0 .. Len(s)
  PROVE  /\ Taken(s, n) \in Seq(S) /\ Len(Taken(s, n)) = n
         /\ Dropped(s, n) \in Seq(S) /\ Len(Dropped(s, n)) = Len(s) - n
         /\ \A i \in 1 .. n : Taken(s, n)[i] = s[i]
         /\ \A i \in 1 .. Len(s) - n : Dropped(s, n)[i] = s[n + i]
<1>1. Len(s) \in Nat /\ n \in Int /\ 1 \in Int /\ n + 1 \in Int /\ Len(s) \in Int
  BY LenProperties
<1>2. \A i \in 1 .. n : s[i] \in S
  BY <1>1
<1>3. \A i \in n + 1 .. Len(s) : s[i] \in S
  BY <1>1
<1>4. /\ Taken(s, n) \in Seq(S)
      /\ Len(Taken(s, n)) = IF 1 <= n THEN n - 1 + 1 ELSE 0
      /\ \A i \in 1 .. n - 1 + 1 : Taken(s, n)[i] = s[1 + i - 1]
  BY <1>1, <1>2, SubSeqProperties DEF Taken
<1>5. /\ Dropped(s, n) \in Seq(S)
      /\ Len(Dropped(s, n)) = IF n + 1 <= Len(s) THEN Len(s) - (n + 1) + 1 ELSE 0
      /\ \A i \in 1 .. Len(s) - (n + 1) + 1 : Dropped(s, n)[i] = s[(n + 1) + i - 1]
  <2> DEFINE t == SubSeq(s, n + 1, Len(s))
  <2>1. /\ t \in Seq(S)
        /\ Len(t) = IF n + 1 <= Len(s) THEN Len(s) - (n + 1) + 1 ELSE 0
        /\ \A i \in 1 .. Len(s) - (n + 1) + 1 : t[i] = s[(n + 1) + i - 1]
    BY <1>1, <1>3, SubSeqProperties
  <2> QED
    BY <2>1 DEF Dropped
<1>6. \A i \in 1 .. n : i \in 1 .. n - 1 + 1 /\ 1 + i - 1 = i
  BY <1>1
<1>7. \A i \in 1 .. Len(s) - n : i \in 1 .. Len(s) - (n + 1) + 1 /\ (n + 1) + i - 1 = n + i
  BY <1>1
<1>8. Len(Taken(s, n)) = n /\ \A i \in 1 .. n : Taken(s, n)[i] = s[i]
  BY <1>1, <1>4, <1>6
<1>9. Len(Dropped(s, n)) = Len(s) - n /\ \A i \in 1 .. Len(s) - n : Dropped(s, n)[i] = s[n + i]
  BY <1>1, <1>5, <1>7
<1> QED
  BY <1>4, <1>5, <1>8, <1>9

\* ... of a slice are slices (socket.h:126-157).
LEMMA BytesSplit ==
  ASSUME NEW c \in Clients, NEW s \in Seq(Byte), NEW m \in Nat, s = Bytes(c, m, m + Len(s)),
         NEW n \in 0 .. Len(s)
  PROVE  /\ Taken(s, n) = Bytes(c, m, m + n)
         /\ Dropped(s, n) = Bytes(c, m + n, m + Len(s))
<1> DEFINE l == Len(s)
           p == m + n
           q == m + l
           t == Bytes(c, m, p)
           u == Bytes(c, p, q)
           st == Taken(s, n)
           sd == Dropped(s, n)
<1>1. l \in Nat /\ n \in 0 .. l /\ s = Bytes(c, m, q) /\ Len(s) = l
  BY LenProperties
<1>2. /\ st \in Seq(Byte) /\ Len(st) = n
      /\ sd \in Seq(Byte) /\ Len(sd) = l - n
      /\ \A i \in 1 .. n : st[i] = s[i]
      /\ \A i \in 1 .. l - n : sd[i] = s[n + i]
  BY Split
<1> HIDE DEF l
<1>3. /\ p \in Nat /\ q \in Nat /\ m <= p /\ p <= q /\ m <= q
      /\ p - m = n /\ q - p = l - n /\ q - m = l
  BY <1>1
<1>4. /\ \A i \in 1 .. n : i \in 1 .. l
      /\ \A i \in 1 .. l - n : i \in Int /\ n + i \in 1 .. l /\ m + (n + i) = p + i
  BY <1>1
<1> HIDE DEF p, q
<1>5. \A i \in 1 .. l : s[i] = <<c, m + i>>
  <2>1. \A i \in 1 .. q - m : Bytes(c, m, q)[i] = <<c, m + i>>
    BY <1>3, BytesSlice
  <2> QED
    BY <2>1, <1>1, <1>3
<1>6. /\ t \in Seq(Byte) /\ Len(t) = n
      /\ \A i \in 1 .. n : t[i] = <<c, m + i>>
  BY <1>3, BytesSlice
<1>7. /\ u \in Seq(Byte) /\ Len(u) = l - n
      /\ \A i \in 1 .. l - n : u[i] = <<c, p + i>>
  <2>1. /\ u \in Seq(Byte) /\ Len(u) = q - p
        /\ \A i \in 1 .. q - p : u[i] = <<c, p + i>>
    BY <1>3, BytesSlice
  <2> HIDE DEF u
  <2> QED
    BY <2>1, <1>3
<1> HIDE DEF t, u, st, sd
<1>8. st = t
  <2>1. \A i \in 1 .. n : st[i] = t[i]
    BY <1>2, <1>4, <1>5, <1>6
  <2>2. Len(st) = Len(t) /\ \A i \in 1 .. Len(st) : st[i] = t[i]
    BY <2>1, <1>2, <1>6
  <2> QED
    BY <2>2, <1>2, <1>6, SeqEqual
<1>9. sd = u
  <2>1. ASSUME NEW i \in 1 .. l - n PROVE sd[i] = u[i]
    <3>1. sd[i] = s[n + i] /\ u[i] = <<c, p + i>>
      BY <1>2, <1>7
    <3>2. s[n + i] = <<c, m + (n + i)>> /\ m + (n + i) = p + i
      BY <1>4, <1>5
    <3> QED
      BY <3>1, <3>2
  <2>2. Len(sd) = Len(u) /\ \A i \in 1 .. Len(sd) : sd[i] = u[i]
    BY <2>1, <1>2, <1>7
  <2> QED
    BY <2>2, <1>2, <1>7, SeqEqual
<1> QED
  BY <1>8, <1>9 DEF st, sd, t, u, l, p, q

\* Bytes counted in messages (echoClient.h:36-60).
LEMMA Division ==
  ASSUME NEW s \in Nat, NEW z \in Nat \ {0}
  PROVE  /\ s \div z \in Nat /\ s % z \in 0 .. z - 1
         /\ s = (s \div z) * z + (s % z)
  OBVIOUS

\* What does not reach the next message has no more whole ones.
LEMMA Quotient ==
  ASSUME NEW z \in Nat \ {0}, NEW p \in Nat, NEW q \in Nat, NEW r \in 0 .. z - 1,
         p * z <= q * z + r
  PROVE  p <= q
<1> SUFFICES ASSUME p >= q + 1 PROVE FALSE
  OBVIOUS
<1>1. PICK d \in Nat : p = (q + 1) + d
  <2>1. p - (q + 1) \in Nat /\ p = (q + 1) + (p - (q + 1))
    OBVIOUS
  <2> QED
    BY <2>1
<1>2. d * z \in Nat /\ q * z \in Nat
  OBVIOUS
<1>3. p * z = q * z + z + d * z
  BY <1>1
<1> QED
  BY <1>2, <1>3

\* Until it is complete it is the same message (echoClient.h:36-42).
LEMMA SameMessage ==
  ASSUME NEW s \in Nat, NEW z \in Nat \ {0}, NEW n \in 1 .. z - (s % z), (s + n) % z # 0
  PROVE  (s + n) \div z = s \div z
<1> DEFINE q == s \div z
           r == s % z
           p == (s + n) \div z
           t == (s + n) % z
<1>1. q \in Nat /\ r \in 0 .. z - 1 /\ s = q * z + r
  BY Division
<1>2. p \in Nat /\ t \in 0 .. z - 1 /\ s + n = p * z + t
  <2>1. s + n \in Nat
    BY <1>1
  <2> QED
    BY <2>1, Division
<1>3. t # 0 /\ n \in 1 .. z - r
  OBVIOUS
<1> HIDE DEF q, r, p, t
<1>4. q * z \in Nat /\ p * z \in Nat /\ (q + 1) * z = q * z + z
  BY <1>1, <1>2
<1>5. p * z <= q * z + z - 1
  BY <1>1, <1>2, <1>3, <1>4
<1>6. p <= q
  <2>1. z - 1 \in 0 .. z - 1
    OBVIOUS
  <2>2. p * z <= q * z + (z - 1)
    BY <1>4, <1>5
  <2> QED
    BY <2>1, <2>2, <1>1, <1>2, Quotient
<1>7. q <= p
  <2>1. q * z <= p * z + t
    BY <1>1, <1>2, <1>3, <1>4
  <2> QED
    BY <2>1, <1>1, <1>2, Quotient
<1>8. p = q
  BY <1>1, <1>2, <1>6, <1>7
<1> QED
  BY <1>8 DEF p, q

\* The rest of a message does not reach past the last one.
LEMMA WithinLast ==
  ASSUME NEW s \in Nat, NEW z \in Nat \ {0}, NEW m \in Nat, s < m * z
  PROVE  s + (z - (s % z)) <= m * z
<1> DEFINE q == s \div z
           r == s % z
<1>1. q \in Nat /\ r \in 0 .. z - 1 /\ s = q * z + r
  BY Division
<1> HIDE DEF q, r
<1>2. q * z \in Nat /\ m * z \in Nat /\ (q + 1) * z = q * z + z
  BY <1>1
<1>3. ASSUME m <= q PROVE FALSE
  <2>1. PICK d \in Nat : q = m + d
    <3>1. q - m \in Nat /\ q = m + (q - m)
      BY <1>1, <1>3
    <3> QED
      BY <3>1
  <2>2. q * z = m * z + d * z /\ d * z \in Nat
    BY <2>1
  <2> QED
    BY <1>1, <1>2, <2>2
<1>4. PICK d \in Nat : m = (q + 1) + d
  <2>1. m - (q + 1) \in Nat /\ m = (q + 1) + (m - (q + 1))
    BY <1>1, <1>3
  <2> QED
    BY <2>1
<1>5. m * z = (q + 1) * z + d * z /\ d * z \in Nat
  BY <1>1, <1>4
<1>6. s + (z - r) <= m * z
  BY <1>1, <1>2, <1>5
<1> QED
  BY <1>6 DEF r

-----------------------------------------------------------------------------
\* The types of the wire; a buffer is full exactly while it is sent
\* (echoServer.h:33-43), and a dead process has no descriptor.
WireTypes ==
  /\ running_ \in BOOLEAN /\ fd \in {"none", "made", "listens"} /\ up \in BOOLEAN
  /\ stopper \in {"idle", "half", "done"}
  /\ buffer \in [Workers -> Seq(Byte)]
  /\ sent \in [Clients -> Nat]
  /\ got \in [Clients -> Seq(Byte)]
  /\ inbound \in [Clients -> Seq(Byte)]
  /\ outbound \in [Clients -> Seq(Byte)]
  /\ \A w \in Workers : hpc[w] = "send" <=> buffer[w] # <<>>
  /\ ~up => open = {} /\ backlog = <<>>

\* Where the client's stream stands at the server.
Mid(c) == Len(got[c]) + Len(outbound[c])

\* What a client read and what is under way to it is the start of its stream.
Reads ==
  \A c \in Clients :
    /\ got[c] = Bytes(c, 0, Len(got[c]))
    /\ outbound[c] = Bytes(c, Len(got[c]), Mid(c))
    /\ Mid(c) <= sent[c]

\* ... and goes on with what its handler holds and what the server has not read.
Flow(c, held) ==
  /\ held = Bytes(c, Mid(c), Mid(c) + Len(held))
  /\ inbound[c] = Bytes(c, Mid(c) + Len(held), sent[c])
  /\ Mid(c) + Len(held) + Len(inbound[c]) = sent[c]

Flows ==
  /\ \A w \in Running : Here(task[w]) /\ Peer(task[w]) => Flow(task[w], buffer[w])
  /\ \A c \in Clients :
       Here(c) /\ Peer(c) /\ (\A w \in Running : task[w] # c) => Flow(c, <<>>)

\* A client sends a message after it read the whole echo of the one before.
Turns ==
  \A c \in Clients :
    /\ sent[c] <= Messages * Size
    /\ cpc[c] = "out" => sent[c] = 0 /\ inbound[c] = <<>>
    /\ cpc[c] = "send" => /\ Len(got[c]) = (sent[c] \div Size) * Size
                          /\ sent[c] < Messages * Size
    /\ cpc[c] = "recv" => sent[c] % Size = 0

\* A client that left read its whole stream or was cut off from the server.
Leaves ==
  /\ up => \A w \in Running : cpc[task[w]] = "left" => buffer[w] = <<>>
  /\ \A c \in Clients : cpc[c] = "left" /\ Peer(c) => inbound[c] = <<>>

Wire == WireTypes /\ Reads /\ Flows /\ Turns /\ Leaves

\* A step that leaves the streams and their handlers as they are.
Quiet ==
  /\ UNCHANGED <<cpc, sent, got, inbound, outbound, buffer>>
  /\ Running' = Running /\ \A w \in Running : task'[w] = task[w]
  /\ \A c \in Clients : Peer(c)' => Peer(c)
  /\ up' => up

\* While the server lives each handler has a connection of its own, open, which
\* is not in the backlog.
LEMMA Handled ==
  EInv /\ Once /\ Accounted /\ up =>
    /\ \A w \in Running :
         /\ task[w] \in Clients /\ Peer(task[w]) /\ cpc[task[w]] # "out"
         /\ \A i \in DOMAIN backlog : backlog[i] # task[w]
    /\ \A v, w \in Running : task[v] = task[w] => v = w
<1> SUFFICES ASSUME EInv, Once, Accounted, up
             PROVE  /\ \A w \in Running :
                         /\ task[w] \in Clients /\ Peer(task[w]) /\ cpc[task[w]] # "out"
                         /\ \A i \in DOMAIN backlog : backlog[i] # task[w]
                    /\ \A v, w \in Running : task[v] = task[w] => v = w
  OBVIOUS
<1>1. TypeOK /\ ExactlyOnePlace
  BY DEF EInv, IInv
<1>2. \A w \in Running : task[w] \in open /\ task[w] \in submitted
  BY <1>1 DEF Accounted, ExactlyOnePlace
<1>3. \A w \in Running : task[w] \in Clients /\ Peer(task[w])
  BY <1>1, <1>2 DEF Peer, TypeOK
<1>4. \A w \in Running : cpc[task[w]] # "out" /\ \A i \in DOMAIN backlog : backlog[i] # task[w]
  BY <1>2 DEF Once
<1> QED
  BY <1>1, <1>3, <1>4 DEF ExactlyOnePlace

\* What is not quiet: a handler begins or ends, bytes move, a client comes or
\* goes.
LEMMA StepKinds ==
  EInv /\ Once /\ WireTypes /\ [EchoNext]_allVars =>
    \/ Quiet
    \/ up /\ \E w \in Workers : \/ HandlerStart(w) \/ HandlerEnd(w) \/ Recv(w)
                                \/ Send(w) \/ SendGone(w)
    \/ \E c \in Clients : Client(c) \/ ClientKilled(c)
<1> SUFFICES ASSUME EInv, Once, WireTypes, [EchoNext]_allVars
             PROVE  \/ Quiet
                    \/ up /\ \E w \in Workers : \/ HandlerStart(w) \/ HandlerEnd(w) \/ Recv(w)
                                                \/ Send(w) \/ SendGone(w)
                    \/ \E c \in Clients : Client(c) \/ ClientKilled(c)
  OBVIOUS
<1> USE DEF vars, stopVars, acceptVars, handlerVars, kernelVars, callerVars, wire, clientVars
<1>i. TypeOK /\ Linked
  BY DEF EInv, IInv
<1>q. ASSUME UNCHANGED <<cpc, sent, got, inbound, outbound, buffer, task>>,
             up, Running' = Running, open' \subseteq open, backlog' \in {backlog, <<>>}
      PROVE  Quiet
  <2>1. \A c \in Clients : c \in ToSet(backlog') => c \in ToSet(backlog)
    BY <1>q DEF ToSet
  <2> QED
    BY <1>q, <2>1 DEF Quiet, Peer
<1>1. ASSUME up, Accept PROVE Quiet
  <2>1. Head(backlog) = backlog[1] /\ 1 \in DOMAIN backlog
    BY <1>1 DEF Accept, Once
  <2>2. \A i \in DOMAIN Tail(backlog) : i + 1 \in DOMAIN backlog /\ Tail(backlog)[i] = backlog[i + 1]
    BY <1>1 DEF Accept, Once
  <2>3. \A c : c \in ToSet(backlog') => c \in ToSet(backlog)
    BY <1>1, <2>2 DEF Accept, ToSet
  <2>4. Head(backlog) \in ToSet(backlog)
    BY <2>1 DEF ToSet
  <2>5. open' = open \cup {Head(backlog)}
    BY <1>1 DEF Accept
  <2>6. \A c \in Clients : Peer(c)' => Peer(c)
    BY <2>3, <2>4, <2>5 DEF Peer
  <2> QED
    BY <1>1, <2>6 DEF Accept, Quiet, Running
<1>2. ASSUME up, \/ Create \/ Listen \/ Store
                 \/ AcceptTest \/ AcceptFails \/ Hand \/ HandPush
      PROVE  Quiet
  BY <1>2, <1>q DEF Create, Listen, Store, AcceptTest, AcceptFails, Hand, HandPush, EnqueueChecked, EnqueuePush,
     Running, serverVars
<1>3. ASSUME up, Handed PROVE Quiet
  BY <1>3, <1>q, <1>i DEF Handed, NotifyOne, Waiters, Running, TypeOK
<1>4. ASSUME up, StopStore \/ StopClose PROVE Quiet
  BY <1>4, <1>q DEF StopStore, StopClose, Running
<1>5. ASSUME up, Destroy PROVE Quiet
  BY <1>5, <1>q, <1>i DEF Destroy, Dtor, DtorStop, DtorNotifyAll, DtorJoin, Waiters,
     Running, TypeOK
<1>6. ASSUME up, NEW w \in Workers, HandlerTest(w) \/ RecvEnds(w) PROVE Quiet
  BY <1>6, <1>q DEF HandlerTest, RecvEnds, HandlerGoes, Running
<1>7. ASSUME up, NEW w \in Workers, Idle(w) \/ Wake(w) PROVE Quiet
  BY <1>7, <1>q, <1>i DEF Idle, ExitWorker, FindNothing, Park, Wake, SpuriousWake, Running,
     TypeOK, serverVars
<1>8. ASSUME up, NEW w \in Workers, SigPipe(w) PROVE Quiet
  BY <1>8, <1>q DEF SigPipe, Running
<1>9. CASE UNCHANGED allVars
  BY <1>9 DEF allVars, serverVars, Quiet, Running, Peer
<1> QED
  BY <1>1, <1>2, <1>3, <1>4, <1>5, <1>6, <1>7, <1>8, <1>9
     DEF EchoNext, Acceptor, Stop, Closing, Handler

\* The queues, the buffers and the counts keep their types.
LEMMA StepWireTypes ==
  EInv /\ Once /\ Accounted /\ WireTypes /\ [EchoNext]_allVars => WireTypes'
<1> SUFFICES ASSUME EInv, Once, Accounted, WireTypes, [EchoNext]_allVars PROVE WireTypes'
  OBVIOUS
<1> USE DEF WireTypes, vars, stopVars, acceptVars, handlerVars, kernelVars, callerVars, wire,
            clientVars, Clients
<1>i. TypeOK /\ Linked
  BY DEF EInv, IInv
<1>e. <<>> \in Seq(Byte)
  OBVIOUS
<1>q. ASSUME UNCHANGED <<buffer, sent, got, inbound, outbound>>,
             up => up', running_' \in BOOLEAN, fd' \in {"none", "made", "listens"}, up' \in BOOLEAN,
             stopper' \in {"idle", "half", "done"},
             \A w \in Workers : hpc'[w] = "send" <=> hpc[w] = "send",
             up' \/ (open' = {} /\ backlog' = <<>>)
      PROVE  WireTypes'
  BY <1>q
<1>1. ASSUME up, \/ Create \/ Listen \/ Store
                 \/ AcceptTest \/ Accept \/ AcceptFails \/ Hand \/ HandPush \/ Handed
                 \/ StopStore \/ StopClose \/ Destroy
      PROVE  WireTypes'
  BY <1>1, <1>q DEF Create, Listen, Store, AcceptTest, Accept, AcceptFails, Hand, HandPush, Handed, StopStore,
     StopClose, Destroy, serverVars
<1>2. ASSUME up, NEW w \in Workers, HandlerStart(w) \/ HandlerEnd(w) PROVE WireTypes'
  <2>1. hpc \in [Workers -> {"off", "test", "recv", "send", "end"}]
    BY <1>i DEF Linked
  <2>2. /\ \A v \in Workers : hpc'[v] = "send" <=> hpc[v] = "send"
        /\ UNCHANGED <<running_, fd, stopper, buffer, up, sent, got, inbound>>
    <3>1. CASE HandlerStart(w)
      <4>1. hpc[w] = "off"
        BY <3>1, <1>i DEF HandlerStart, TakeTask, Linked
      <4> QED
        BY <3>1, <2>1, <4>1 DEF HandlerStart
    <3>2. CASE HandlerEnd(w)
      BY <3>2, <2>1 DEF HandlerEnd
    <3> QED
      BY <1>2, <3>1, <3>2
  <2>3. outbound' \in [Clients -> Seq(Byte)]
    <3>1. CASE outbound' = outbound
      BY <3>1
    <3>2. CASE outbound' = [outbound EXCEPT ![task[w]] = <<>>]
      BY <3>2, <1>e
    <3> QED
      BY <1>2, <3>1, <3>2 DEF HandlerStart, HandlerEnd
  <2> QED
    BY <1>2, <2>2, <2>3
<1>3. ASSUME up, NEW w \in Workers, HandlerTest(w) \/ RecvEnds(w) PROVE WireTypes'
  <2>1. hpc \in [Workers -> {"off", "test", "recv", "send", "end"}]
    BY <1>i DEF Linked
  <2> QED
    BY <1>3, <1>q, <2>1 DEF HandlerTest, RecvEnds, HandlerGoes
<1>4. ASSUME up, NEW w \in Workers, Recv(w) \/ Send(w) \/ SendGone(w) PROVE WireTypes'
  <2>1. hpc \in [Workers -> {"off", "test", "recv", "send", "end"}]
    BY <1>i DEF Linked
  <2>2. task[w] \in Clients
    <3>1. hpc[w] # "off"
      BY <1>4 DEF Recv, Send, SendGone
    <3>2. wpc[w] = "run"
      BY <3>1, <1>i DEF Linked
    <3> QED
      BY <3>2, <1>i DEF TypeOK
  <2>3. UNCHANGED <<running_, fd, stopper, up, sent, got, open, backlog>>
    BY <1>4 DEF Recv, Send, SendGone, HandlerGoes
  <2> DEFINE c == task[w]
  <2> HIDE DEF c
  <2>4. CASE Recv(w)
    <3>1. PICK n \in 1 .. Len(inbound[c]) :
            /\ buffer' = [buffer EXCEPT ![w] = Taken(inbound[c], n)]
            /\ inbound' = [inbound EXCEPT ![c] = Dropped(@, n)]
      BY <2>4 DEF Recv, c
    <3>2. hpc' = [hpc EXCEPT ![w] = "send"] /\ outbound' = outbound
      BY <2>4 DEF Recv, HandlerGoes
    <3>3. inbound[c] \in Seq(Byte) /\ n \in 0 .. Len(inbound[c])
      BY <2>2 DEF c
    <3> DEFINE t == Taken(inbound[c], n)
               d == Dropped(inbound[c], n)
    <3>4. t \in Seq(Byte) /\ Len(t) = n /\ d \in Seq(Byte)
      BY <3>3, Split
    <3>5. buffer' = [buffer EXCEPT ![w] = t] /\ inbound' = [inbound EXCEPT ![c] = d]
      BY <3>1
    <3> HIDE DEF t, d
    <3>6. t # <<>>
      BY <3>4
    <3> QED
      BY <2>1, <2>3, <3>2, <3>4, <3>5, <3>6
  <2>5. CASE Send(w)
    <3>1. PICK n \in 1 .. Len(buffer[w]) :
            /\ outbound' = [outbound EXCEPT ![c] = @ \o Taken(buffer[w], n)]
            /\ buffer' = [buffer EXCEPT ![w] = Dropped(@, n)]
      BY <2>5 DEF Send, c
    <3>2. /\ hpc' = [hpc EXCEPT ![w] = IF buffer'[w] = <<>> THEN "test" ELSE "send"]
          /\ inbound' = inbound
      BY <2>5 DEF Send, HandlerGoes
    <3>3. buffer[w] \in Seq(Byte) /\ n \in 0 .. Len(buffer[w]) /\ c \in Clients
      BY <2>2 DEF c
    <3> DEFINE t == Taken(buffer[w], n)
               d == Dropped(buffer[w], n)
    <3>4. t \in Seq(Byte) /\ d \in Seq(Byte)
      BY <3>3, Split
    <3>5. outbound[c] \o t \in Seq(Byte)
      BY <3>3, <3>4, ConcatProperties
    <3>6. buffer' = [buffer EXCEPT ![w] = d] /\ outbound' = [outbound EXCEPT ![c] = outbound[c] \o t]
      BY <3>1
    <3> HIDE DEF t, d
    <3> DEFINE u == outbound[c] \o t
    <3>7. u \in Seq(Byte) /\ outbound' = [outbound EXCEPT ![c] = u]
      BY <3>5, <3>6
    <3> HIDE DEF u
    <3> QED
      BY <2>1, <2>3, <3>2, <3>4, <3>6, <3>7
  <2>6. CASE SendGone(w)
    <3>1. /\ buffer' = [buffer EXCEPT ![w] = <<>>]
          /\ UNCHANGED <<inbound, outbound>>
      BY <2>6 DEF SendGone
    <3>2. PICK pc \in {"test", "end"} : hpc' = [hpc EXCEPT ![w] = pc]
      BY <2>6 DEF SendGone, HandlerGoes
    <3> QED
      BY <2>1, <2>3, <3>1, <3>2, <1>e
  <2> QED
    BY <1>4, <2>4, <2>5, <2>6
<1>5. ASSUME up, NEW w \in Workers, Idle(w) \/ Wake(w) \/ SigPipe(w) PROVE WireTypes'
  BY <1>5 DEF Idle, Wake, SigPipe, serverVars
<1>6. ASSUME NEW c \in Clients, Connect(c) PROVE WireTypes'
  <2>1. up \/ ~Listening
    BY DEF Listening
  <2> QED
    BY <1>6, <2>1 DEF Connect
<1>7. ASSUME NEW c \in Clients, ClientSend(c) PROVE WireTypes'
  <2>1. /\ UNCHANGED <<running_, fd, stopper, buffer, hpc, up, open, backlog, got, outbound>>
        /\ sent[c] \in Nat
    BY <1>7 DEF ClientSend, serverVars
  <2>2. PICK n \in 1 .. Size - (sent[c] % Size) :
          /\ sent' = [sent EXCEPT ![c] = @ + n]
          /\ inbound' = IF Peer(c)
                          THEN [inbound EXCEPT ![c] = @ \o Bytes(c, sent[c], sent[c] + n)]
                          ELSE inbound
    BY <1>7 DEF ClientSend
  <2>3. Bytes(c, sent[c], sent[c] + n) \in Seq(Byte)
    <3>1. sent[c] + n \in Nat /\ sent[c] <= sent[c] + n
      BY <2>1
    <3> QED
      BY <2>1, <3>1, BytesSlice
  <2> DEFINE u == inbound[c] \o Bytes(c, sent[c], sent[c] + n)
  <2>4. u \in Seq(Byte)
    BY <2>3, ConcatProperties
  <2>5. inbound' = IF Peer(c) THEN [inbound EXCEPT ![c] = u] ELSE inbound
    BY <2>2
  <2> HIDE DEF u
  <2>6. inbound' \in [Clients -> Seq(Byte)]
    BY <2>4, <2>5
  <2>7. sent' \in [Clients -> Nat]
    BY <2>1, <2>2
  <2> QED
    BY <2>1, <2>6, <2>7
<1>8. ASSUME NEW c \in Clients, ClientRecv(c) PROVE WireTypes'
  <2>1. UNCHANGED <<running_, fd, stopper, buffer, hpc, up, open, backlog, sent, inbound>>
    BY <1>8 DEF ClientRecv, serverVars
  <2>2. PICK n \in 1 .. Len(outbound[c]) :
          /\ got' = [got EXCEPT ![c] = @ \o Taken(outbound[c], n)]
          /\ outbound' = [outbound EXCEPT ![c] = Dropped(@, n)]
    BY <1>8 DEF ClientRecv
  <2> DEFINE t == Taken(outbound[c], n)
             d == Dropped(outbound[c], n)
             u == got[c] \o t
  <2>3. t \in Seq(Byte) /\ d \in Seq(Byte)
    <3>1. outbound[c] \in Seq(Byte) /\ n \in 0 .. Len(outbound[c])
      OBVIOUS
    <3> QED
      BY <3>1, Split
  <2>4. got' = [got EXCEPT ![c] = u] /\ outbound' = [outbound EXCEPT ![c] = d]
    BY <2>2
  <2> HIDE DEF t, d
  <2>5. u \in Seq(Byte)
    BY <2>3, ConcatProperties
  <2> HIDE DEF u
  <2> QED
    BY <2>1, <2>3, <2>4, <2>5
<1>9. ASSUME NEW c \in Clients, ClientFails(c) \/ ClientKilled(c) PROVE WireTypes'
  <2>1. /\ UNCHANGED <<running_, fd, stopper, buffer, hpc, up, open, backlog, sent, got>>
        /\ inbound' \in {inbound, [inbound EXCEPT ![c] = <<>>]}
        /\ outbound' \in {outbound, [outbound EXCEPT ![c] = <<>>]}
    BY <1>9 DEF ClientFails, ClientKilled, serverVars
  <2>2. /\ [inbound EXCEPT ![c] = <<>>] \in [Clients -> Seq(Byte)]
        /\ [outbound EXCEPT ![c] = <<>>] \in [Clients -> Seq(Byte)]
    BY <1>e
  <2>3. inbound' \in [Clients -> Seq(Byte)] /\ outbound' \in [Clients -> Seq(Byte)]
    BY <2>1, <2>2
  <2> QED
    BY <2>1, <2>3
<1>10. CASE UNCHANGED allVars
  BY <1>10 DEF allVars, serverVars
<1> QED
  BY <1>1, <1>2, <1>3, <1>4, <1>5, <1>6, <1>7, <1>8, <1>9, <1>10
     DEF EchoNext, Acceptor, Stop, Closing, Handler, Client

\* The stream of every client stays whole: each step moves its bytes in order
\* from one place to the next (echoServer.h:30-47, echoClient.h:42-49).
LEMMA StepStreams ==
  EInv /\ Once /\ Accounted /\ Wire /\ WireTypes' /\ Once' /\ [EchoNext]_allVars =>
    Reads' /\ Flows'
<1> SUFFICES ASSUME EInv, Once, Accounted, Wire, WireTypes', Once', [EchoNext]_allVars
             PROVE  Reads' /\ Flows'
  OBVIOUS
<1> USE DEF vars, stopVars, acceptVars, handlerVars, kernelVars, callerVars, wire,
            clientVars, Clients
<1>i. TypeOK /\ Linked /\ ExactlyOnePlace /\ WireTypes /\ Reads /\ Flows /\ Turns /\ Leaves
  BY DEF EInv, IInv, Wire
<1>r. \A w \in Running : w \in Workers /\ task[w] \in Clients
  BY <1>i DEF Running, TypeOK
<1>e. Len(<<>>) = 0
  OBVIOUS
<1>t. /\ \A c \in Clients :
           /\ got[c] \in Seq(Byte) /\ Len(got[c]) \in Nat
           /\ outbound[c] \in Seq(Byte) /\ Len(outbound[c]) \in Nat
           /\ inbound[c] \in Seq(Byte) /\ Len(inbound[c]) \in Nat
           /\ sent[c] \in Nat
           /\ Mid(c) = Len(got[c]) + Len(outbound[c]) /\ Mid(c) \in Nat
      /\ \A w \in Workers : buffer[w] \in Seq(Byte) /\ Len(buffer[w]) \in Nat
  BY <1>i, LenProperties DEF WireTypes, Mid
<1>w. /\ got \in [Clients -> Seq(Byte)] /\ outbound \in [Clients -> Seq(Byte)]
      /\ inbound \in [Clients -> Seq(Byte)] /\ buffer \in [Workers -> Seq(Byte)]
      /\ sent \in [Clients -> Nat]
  BY <1>i DEF WireTypes
<1>1. ASSUME Quiet PROVE Reads' /\ Flows'
  <2>1. Reads'
    BY <1>1, <1>i DEF Quiet, Reads, Mid
  <2>2. \A c \in Clients : c \in open' \/ c \in ToSet(backlog') => Peer(c)
    BY <1>1 DEF Quiet, Peer
  <2>3. UNCHANGED <<cpc, sent, got, inbound, outbound, buffer>> /\ Running' = Running
    BY <1>1 DEF Quiet
  <2>4. \A w \in Running : task'[w] = task[w]
    BY <1>1 DEF Quiet
  <2>5. Flows'
    <3>1. ASSUME NEW w \in Running, Here(task[w]), task[w] \in open' \/ task[w] \in ToSet(backlog')
          PROVE  Flow(task[w], buffer[w])
      BY <3>1, <1>i, <1>r, <2>2 DEF Flows
    <3>2. ASSUME NEW c \in Clients, Here(c), c \in open' \/ c \in ToSet(backlog'),
                 \A w \in Running : task[w] # c
          PROVE  Flow(c, <<>>)
      BY <3>2, <1>i, <2>2 DEF Flows
    <3>3. ASSUME NEW w \in Running', Here(task[w])', Peer(task[w])'
          PROVE  Flow(task[w], buffer[w])'
      <4>1. w \in Running /\ task'[w] = task[w]
        BY <2>3, <2>4
      <4>2. Here(task[w]) /\ (task[w] \in open' \/ task[w] \in ToSet(backlog'))
        BY <3>3, <2>3, <4>1 DEF Here, Peer
      <4>3. Flow(task[w], buffer[w])
        BY <3>1, <4>1, <4>2
      <4> QED
        BY <2>3, <4>1, <4>3 DEF Flow, Mid
    <3>4. ASSUME NEW c \in Clients, Here(c)', Peer(c)', \A w \in Running' : task'[w] # c
          PROVE  Flow(c, <<>>)'
      <4>1. Flow(c, <<>>)
        BY <3>2, <3>4, <2>3, <2>4 DEF Here, Peer
      <4> QED
        BY <2>3, <4>1 DEF Flow, Mid
    <3> QED
      BY <3>3, <3>4 DEF Flows
  <2> QED
    BY <2>1, <2>5
<1>2. ASSUME up, NEW w \in Workers, HandlerStart(w) PROVE Reads' /\ Flows'
  <2>1. /\ UNCHANGED <<cpc, sent, got, inbound, outbound, buffer, open, backlog>>
        /\ Running' = Running \cup {w} /\ task' = [task EXCEPT ![w] = Head(tasks)]
        /\ w \notin Running
    BY <1>2, <1>i DEF HandlerStart, TakeTask, Running, TypeOK
  <2>2. buffer[w] = <<>>
    BY <1>2, <1>i DEF HandlerStart, TakeTask, WireTypes, Linked
  <2>3. Head(tasks) \in Clients /\ \A v \in Running : task[v] # Head(tasks)
    <3>1. 1 \in DOMAIN tasks /\ Head(tasks) = tasks[1]
      BY <1>2, <1>i DEF HandlerStart, TakeTask, TypeOK
    <3> QED
      BY <3>1, <1>i DEF ExactlyOnePlace, TypeOK
  <2>4. \A v \in Running' : \/ v \in Running /\ task'[v] = task[v]
                            \/ v = w /\ task'[v] = Head(tasks)
    BY <2>1, <1>i DEF TypeOK
  <2>5. Reads'
    BY <2>1, <1>i DEF Reads, Mid
  <2>6. Here(Head(tasks)) /\ Peer(Head(tasks)) => Flow(Head(tasks), buffer[w])
    BY <2>2, <2>3, <1>i DEF Flows
  <2>7. \A v \in Running' :
          Here(task[v])' /\ (task'[v] \in open \/ task'[v] \in ToSet(backlog)) =>
             Flow(task[v], buffer[v])'
    BY <2>1, <2>4, <2>6, <1>i DEF Flows, Flow, Mid, Here, Peer
  <2>8. \A c \in Clients :
          (\A v \in Running' : task'[v] # c) => (\A v \in Running : task[v] # c)
    <3>1. \A v \in Running : v \in Running' /\ task'[v] = task[v]
      BY <2>1, <1>i DEF TypeOK
    <3> QED
      BY <3>1
  <2>9. Flows'
    BY <2>1, <2>7, <2>8, <1>i DEF Flows, Flow, Mid, Here, Peer
  <2> QED
    BY <2>5, <2>9
\* A step that touches one stream.
<1>f. ASSUME NEW c \in Clients,
             \A d \in Clients \ {c} : /\ got'[d] = got[d] /\ outbound'[d] = outbound[d]
                                      /\ inbound'[d] = inbound[d] /\ sent'[d] = sent[d]
                                      /\ cpc'[d] = cpc[d],
             \A d \in Clients \ {c} : d \in open' \/ d \in ToSet(backlog') => Peer(d),
             \A w \in Running' :
               task'[w] # c => w \in Running /\ task'[w] = task[w] /\ buffer'[w] = buffer[w],
             \A w \in Running : task[w] # c => w \in Running' /\ task'[w] = task[w],
             got'[c] = Bytes(c, 0, Len(got'[c])),
             outbound'[c] = Bytes(c, Len(got'[c]), Mid(c)'),
             Mid(c)' <= sent'[c],
             \A w \in Running' : task'[w] = c /\ Here(c)' /\ Peer(c)' => Flow(c, buffer[w])',
             Here(c)' /\ Peer(c)' /\ (\A w \in Running' : task'[w] # c) => Flow(c, <<>>)'
      PROVE  Reads' /\ Flows'
  <2>1. Reads'
    <3>1. ASSUME NEW d \in Clients \ {c}
          PROVE  /\ got'[d] = Bytes(d, 0, Len(got'[d]))
                 /\ outbound'[d] = Bytes(d, Len(got'[d]), Mid(d)')
                 /\ Mid(d)' <= sent'[d]
      BY <1>f, <1>i DEF Reads, Mid
    <3> QED
      BY <1>f, <3>1 DEF Reads
  <2>2. ASSUME NEW w \in Running', Here(task[w])', Peer(task[w])'
        PROVE  Flow(task[w], buffer[w])'
    <3>1. CASE task'[w] = c
      BY <1>f, <2>2, <3>1 DEF Flow, Mid, Here, Peer
    <3>2. CASE task'[w] # c
      <4>1. w \in Running /\ task'[w] = task[w] /\ buffer'[w] = buffer[w]
        BY <1>f, <3>2
      <4>2. task[w] \in Clients \ {c}
        BY <1>r, <3>2, <4>1
      <4>3. Here(task[w]) /\ Peer(task[w])
        BY <1>f, <2>2, <4>1, <4>2 DEF Here, Peer
      <4>4. Flow(task[w], buffer[w])
        BY <1>i, <4>1, <4>3 DEF Flows
      <4>5. /\ got'[task[w]] = got[task[w]] /\ outbound'[task[w]] = outbound[task[w]]
            /\ inbound'[task[w]] = inbound[task[w]] /\ sent'[task[w]] = sent[task[w]]
        BY <1>f, <4>2
      <4> QED
        BY <4>1, <4>4, <4>5 DEF Flow, Mid
    <3> QED
      BY <3>1, <3>2
  <2>3. ASSUME NEW d \in Clients, Here(d)', Peer(d)', \A w \in Running' : task'[w] # d
        PROVE  Flow(d, <<>>)'
    <3>1. CASE d = c
      BY <1>f, <2>3, <3>1 DEF Flow, Mid, Here, Peer
    <3>2. CASE d # c
      <4>1. \A w \in Running : task[w] # d
        BY <1>f, <2>3, <3>2
      <4>2. Here(d) /\ Peer(d)
        BY <1>f, <2>3, <3>2 DEF Here, Peer
      <4>3. Flow(d, <<>>)
        BY <1>i, <4>1, <4>2 DEF Flows
      <4>4. /\ got'[d] = got[d] /\ outbound'[d] = outbound[d]
            /\ inbound'[d] = inbound[d] /\ sent'[d] = sent[d]
        BY <1>f, <3>2
      <4> QED
        BY <4>3, <4>4 DEF Flow, Mid
    <3> QED
      BY <3>1, <3>2
  <2> QED
    BY <2>1, <2>2, <2>3 DEF Flows
\* ... and leaves the handlers where they are.
<1>g. ASSUME NEW c \in Clients,
             \A d \in Clients \ {c} : /\ got'[d] = got[d] /\ outbound'[d] = outbound[d]
                                      /\ inbound'[d] = inbound[d] /\ sent'[d] = sent[d]
                                      /\ cpc'[d] = cpc[d],
             UNCHANGED <<open, task, wpc>>,
             \A d \in Clients \ {c} : d \in ToSet(backlog') => Peer(d),
             \A w \in Running : task[w] # c => buffer'[w] = buffer[w],
             got'[c] = Bytes(c, 0, Len(got'[c])),
             outbound'[c] = Bytes(c, Len(got'[c]), Mid(c)'),
             Mid(c)' <= sent'[c],
             \A w \in Running : task[w] = c /\ Here(c)' /\ Peer(c)' => Flow(c, buffer[w])',
             Here(c)' /\ Peer(c)' /\ (\A w \in Running : task[w] # c) => Flow(c, <<>>)'
      PROVE  Reads' /\ Flows'
  <2>1. Running' = Running /\ task' = task
    BY <1>g DEF Running
  <2>2. \A d \in Clients \ {c} : d \in open' \/ d \in ToSet(backlog') => Peer(d)
    BY <1>g DEF Peer
  <2> QED
    BY <1>f, <1>g, <2>1, <2>2
<1>3. ASSUME up, NEW w \in Workers, HandlerEnd(w) PROVE Reads' /\ Flows'
  <2>0. w \in Running /\ task[w] \in Clients
    BY <1>3, <1>i DEF HandlerEnd, Finish, Running, TypeOK
  <2>1. PICK c \in Clients : c = task[w]
    BY <2>0
  <2>2. /\ Running' = Running \ {w} /\ open' = open \ {c}
        /\ task' = [task EXCEPT ![w] = NoTask]
        /\ UNCHANGED <<got, inbound, sent, cpc, buffer, backlog>>
    BY <2>1, <1>3, <1>i DEF HandlerEnd, Finish, Running, TypeOK
  <2>3. outbound' = outbound \/ outbound' = [outbound EXCEPT ![c] = <<>>]
    BY <2>1, <1>3 DEF HandlerEnd
  <2>4. \A v \in Running : v # w => task[v] # c /\ task'[v] = task[v]
    BY <2>0, <2>1, <2>2, <1>i DEF ExactlyOnePlace, Running, TypeOK
  <2>5. ~(c \in open' \/ c \in ToSet(backlog'))
    BY <2>0, <2>1, <2>2, <1>3, Handled DEF ToSet
  <2>6. outbound'[c] = outbound[c] \/ outbound'[c] = <<>>
    BY <2>1, <2>3, <1>i DEF WireTypes
  <2>7. /\ \A d \in Clients \ {c} : outbound'[d] = outbound[d]
        /\ outbound'[c] = Bytes(c, Len(got'[c]), Mid(c)') /\ Mid(c)' <= sent'[c]
    <3>1. \A d \in Clients \ {c} : outbound'[d] = outbound[d]
      BY <2>1, <2>3, <1>i DEF WireTypes
    <3>2. CASE outbound'[c] = outbound[c]
      BY <2>1, <2>2, <3>1, <3>2, <1>i DEF Reads, Mid
    <3>3. CASE outbound'[c] = <<>>
      <4>1. Mid(c)' = Len(got[c]) /\ Mid(c)' <= sent[c]
        <5>1. Len(outbound'[c]) = 0
          BY <3>3, <1>e
        <5>2. Mid(c)' = Len(got[c]) + 0
          BY <2>2, <5>1 DEF Mid
        <5>3. Mid(c) <= sent[c]
          BY <1>i DEF Reads
        <5>4. /\ Len(got[c]) \in Nat /\ Len(outbound[c]) \in Nat /\ sent[c] \in Nat
              /\ Mid(c) = Len(got[c]) + Len(outbound[c])
          BY <1>t
        <5> QED
          BY <5>2, <5>3, <5>4, <1>w
      <4>2. Bytes(c, Len(got[c]), Len(got[c])) = <<>>
        BY <2>1, <1>t, BytesEmpty
      <4> QED
        BY <2>2, <3>1, <3>3, <4>1, <4>2
    <3> QED
      BY <2>6, <3>2, <3>3
  <2>8. got'[c] = Bytes(c, 0, Len(got'[c]))
    BY <2>1, <2>2, <1>i DEF Reads
  <2>9. ~Peer(c)'
    BY <2>5 DEF Peer
  <2>10. \A d \in Clients \ {c} : d \in open' \/ d \in ToSet(backlog') => Peer(d)
    BY <2>2 DEF Peer
  <2>11. \A v \in Running' : v \in Running /\ task'[v] = task[v]
    BY <2>2, <2>4
  <2>12. \A v \in Running : task[v] # c => v \in Running' /\ task'[v] = task[v]
    BY <2>1, <2>2, <2>4
  <2> QED
    BY <2>1, <2>2, <2>7, <2>8, <2>9, <2>10, <2>11, <2>12, <1>f
\* A handler is with an open connection, and no other handler has it.
<1>h. ASSUME up, NEW w \in Workers, hpc[w] # "off"
      PROVE  /\ w \in Running /\ task[w] \in Clients /\ Peer(task[w])
             /\ \A v \in Running : task[v] = task[w] => v = w
  <2>1. w \in Running
    BY <1>h, <1>i DEF Running, Linked
  <2> QED
    BY <1>h, <2>1, Handled
<1>4. ASSUME up, NEW w \in Workers, Recv(w) PROVE Reads' /\ Flows'
  <2>0. /\ w \in Running /\ task[w] \in Clients /\ Peer(task[w])
        /\ \A v \in Running : task[v] = task[w] => v = w
    BY <1>4, <1>h DEF Recv
  <2>1. PICK c \in Clients : c = task[w]
    BY <2>0
  <2>2. PICK n \in 1 .. Len(inbound[c]) :
          /\ buffer' = [buffer EXCEPT ![w] = Taken(inbound[c], n)]
          /\ inbound' = [inbound EXCEPT ![c] = Dropped(@, n)]
    BY <1>4, <2>1 DEF Recv
  <2>3. UNCHANGED <<got, outbound, sent, cpc, open, backlog, task, wpc>>
    BY <1>4 DEF Recv, HandlerGoes
  <2>4. buffer[w] = <<>>
    BY <1>4, <1>i DEF Recv, WireTypes
  <2> DEFINE s == inbound[c]
             t == Taken(s, n)
             d == Dropped(s, n)
             m == Mid(c)
  <2>5. /\ buffer'[w] = t /\ \A v \in Workers \ {w} : buffer'[v] = buffer[v]
        /\ inbound'[c] = d /\ \A x \in Clients \ {c} : inbound'[x] = inbound[x]
    BY <2>2, <1>i DEF WireTypes
  <2>6. s \in Seq(Byte) /\ Len(s) \in Nat /\ n \in 0 .. Len(s) /\ m \in Nat
    <3>1. inbound[c] \in Seq(Byte) /\ Len(inbound[c]) \in Nat /\ Mid(c) \in Nat
      BY <1>t
    <3> QED
      BY <3>1
  <2>7. Len(t) = n /\ Len(d) = Len(s) - n
    <3> HIDE DEF s
    <3> QED
      BY <2>6, Split
  <2>8. ASSUME Here(c)
        PROVE  t = Bytes(c, m, m + n) /\ d = Bytes(c, m + n, sent[c]) /\ m + Len(s) = sent[c]
    <3>1. Flow(c, <<>>)
      BY <2>0, <2>1, <2>4, <2>8, <1>i DEF Flows
    <3>2. s = Bytes(c, m, sent[c]) /\ m + Len(s) = sent[c]
      <4>1. s = Bytes(c, m + 0, sent[c]) /\ m + 0 + Len(s) = sent[c]
        BY <3>1, <1>e DEF Flow
      <4>2. m + 0 = m
        BY <2>6
      <4> QED
        BY <4>1, <4>2
    <3>3. s = Bytes(c, m, m + Len(s))
      BY <3>2
    <3>4. t = Bytes(c, m, m + n) /\ d = Bytes(c, m + n, m + Len(s))
      BY <2>6, <3>3, BytesSplit
    <3> QED
      BY <3>2, <3>4
  <2>9. got'[c] = Bytes(c, 0, Len(got'[c])) /\ Mid(c)' = m
        /\ outbound'[c] = Bytes(c, Len(got'[c]), Mid(c)') /\ Mid(c)' <= sent'[c]
    BY <2>3, <1>i DEF Reads, Mid
  <2> HIDE DEF s, t, d, m
  <2>10. ASSUME Here(c)' PROVE Flow(c, buffer[w])'
    <3>1. Here(c)
      BY <2>3, <2>10 DEF Here
    <3>2. m + n + (Len(s) - n) = sent[c]
      BY <2>6, <2>8, <3>1
    <3> QED
      BY <2>3, <2>5, <2>7, <2>8, <2>9, <3>1, <3>2 DEF Flow
  <2>11. \A v \in Running : task[v] # c => buffer'[v] = buffer[v]
    BY <2>1, <2>5, <1>r
  <2>12. \A v \in Running : task[v] = c => v = w
    BY <2>0, <2>1
  <2>13. \A x \in Clients \ {c} : x \in ToSet(backlog') => Peer(x)
    BY <2>3 DEF Peer
  <2>14. ~ \A v \in Running : task[v] # c
    BY <2>0, <2>1
  <2> QED
    BY <2>3, <2>5, <2>9, <2>10, <2>11, <2>12, <2>13, <2>14, <1>g
<1>5. ASSUME up, NEW w \in Workers, Send(w) PROVE Reads' /\ Flows'
  <2>0. /\ w \in Running /\ task[w] \in Clients /\ Peer(task[w])
        /\ \A v \in Running : task[v] = task[w] => v = w
    BY <1>5, <1>h DEF Send
  <2>1. PICK c \in Clients : c = task[w]
    BY <2>0
  <2>2. PICK n \in 1 .. Len(buffer[w]) :
          /\ outbound' = [outbound EXCEPT ![c] = @ \o Taken(buffer[w], n)]
          /\ buffer' = [buffer EXCEPT ![w] = Dropped(@, n)]
    BY <1>5, <2>1 DEF Send
  <2>3. UNCHANGED <<got, inbound, sent, cpc, open, backlog, task, wpc>> /\ Here(c)
    BY <1>5, <2>1 DEF Send, HandlerGoes
  <2> DEFINE s == buffer[w]
             t == Taken(s, n)
             d == Dropped(s, n)
             m == Mid(c)
             g == Len(got[c])
             u == outbound[c] \o t
  <2>4. /\ buffer'[w] = d /\ \A v \in Workers \ {w} : buffer'[v] = buffer[v]
        /\ outbound'[c] = u /\ \A x \in Clients \ {c} : outbound'[x] = outbound[x]
    BY <2>2, <1>i DEF WireTypes
  <2>5. /\ s \in Seq(Byte) /\ Len(s) \in Nat /\ n \in 0 .. Len(s) /\ m \in Nat /\ g \in Nat
        /\ g <= m
    <3>1. /\ buffer[w] \in Seq(Byte) /\ Len(buffer[w]) \in Nat
          /\ Len(got[c]) \in Nat /\ Len(outbound[c]) \in Nat
          /\ Mid(c) = Len(got[c]) + Len(outbound[c])
      BY <1>t
    <3> QED
      BY <3>1, <1>w
  <2>6. t \in Seq(Byte) /\ Len(t) = n /\ Len(d) = Len(s) - n
    <3> HIDE DEF s
    <3> QED
      BY <2>5, Split
  <2>7. s = Bytes(c, m, m + Len(s)) /\ inbound[c] = Bytes(c, m + Len(s), sent[c])
        /\ m + Len(s) + Len(inbound[c]) = sent[c]
    BY <2>0, <2>1, <2>3, <1>i DEF Flows, Flow
  <2>8. t = Bytes(c, m, m + n) /\ d = Bytes(c, m + n, m + Len(s))
    BY <2>5, <2>7, BytesSplit
  <2>9. outbound[c] = Bytes(c, g, m) /\ got[c] = Bytes(c, 0, g)
    BY <1>i DEF Reads
  <2> HIDE DEF s, d, m, g
  <2>10. Len(u) = Len(outbound[c]) + n
    <3>1. outbound[c] \in Seq(Byte)
      BY <1>t
    <3> HIDE DEF t
    <3> QED
      BY <2>6, <3>1, ConcatProperties
  <2> HIDE DEF t
  <2>11. u = Bytes(c, g, m + n)
    <3> DEFINE p == m + n
    <3>1. p \in Nat /\ m <= p
      BY <2>5
    <3>2. t = Bytes(c, m, p)
      BY <2>8
    <3> HIDE DEF p
    <3>3. Bytes(c, g, m) \o Bytes(c, m, p) = Bytes(c, g, p)
      BY <3>1, <2>5, BytesJoin
    <3>4. u = Bytes(c, g, p)
      BY <3>2, <3>3, <2>9
    <3> QED
      BY <3>4 DEF p
  <2> HIDE DEF u
  <2>12. Mid(c)' = m + n /\ Len(got'[c]) = g
    <3>1. /\ Len(got[c]) \in Nat /\ Len(outbound[c]) \in Nat
          /\ Mid(c) = Len(got[c]) + Len(outbound[c])
      BY <1>t
    <3>2. Mid(c)' = Len(got[c]) + (Len(outbound[c]) + n)
      BY <2>3, <2>4, <2>10 DEF Mid
    <3> QED
      BY <2>3, <2>5, <3>1, <3>2, <1>w DEF m, g
  <2>13. m + n <= sent[c] /\ (m + n) + (Len(s) - n) = m + Len(s)
    BY <2>5, <2>7, <1>t
  <2>14. got'[c] = Bytes(c, 0, Len(got'[c])) /\ Mid(c)' <= sent'[c]
         /\ outbound'[c] = Bytes(c, Len(got'[c]), Mid(c)')
    BY <2>3, <2>4, <2>9, <2>11, <2>12, <2>13
  <2>15. Flow(c, buffer[w])'
    BY <2>3, <2>4, <2>6, <2>7, <2>8, <2>12, <2>13 DEF Flow
  <2>16. \A v \in Running : task[v] # c => buffer'[v] = buffer[v]
    BY <2>1, <2>4, <1>r
  <2>17. \A v \in Running : task[v] = c => v = w
    BY <2>0, <2>1
  <2>18. \A x \in Clients \ {c} : x \in ToSet(backlog') => Peer(x)
    BY <2>3 DEF Peer
  <2>19. ~ \A v \in Running : task[v] # c
    BY <2>0, <2>1
  <2> QED
    BY <2>3, <2>4, <2>14, <2>15, <2>16, <2>17, <2>18, <2>19, <1>g
<1>6. ASSUME up, NEW w \in Workers, SendGone(w) PROVE Reads' /\ Flows'
  <2>0. /\ w \in Running /\ task[w] \in Clients
        /\ \A v \in Running : task[v] = task[w] => v = w
    BY <1>6, <1>h DEF SendGone
  <2>1. PICK c \in Clients : c = task[w]
    BY <2>0
  <2>2. /\ UNCHANGED <<got, inbound, outbound, sent, cpc, open, backlog, task, wpc>>
        /\ buffer' = [buffer EXCEPT ![w] = <<>>] /\ ~Here(c)
    BY <1>6, <2>1 DEF SendGone, HandlerGoes
  <2>3. ~Here(c)'
    BY <2>2 DEF Here
  <2>4. got'[c] = Bytes(c, 0, Len(got'[c])) /\ Mid(c)' <= sent'[c]
        /\ outbound'[c] = Bytes(c, Len(got'[c]), Mid(c)')
    BY <2>2, <1>i DEF Reads, Mid
  <2>5. \A v \in Running : task[v] # c => buffer'[v] = buffer[v]
    BY <2>1, <2>2, <1>r, <1>i DEF WireTypes
  <2>6. \A x \in Clients \ {c} : x \in ToSet(backlog') => Peer(x)
    BY <2>2 DEF Peer
  <2> QED
    BY <2>2, <2>3, <2>4, <2>5, <2>6, <1>g
<1>7. ASSUME NEW c \in Clients, Connect(c) PROVE Reads' /\ Flows'
  <2>1. /\ UNCHANGED <<got, inbound, outbound, sent, buffer, open, task, wpc, up>>
        /\ \A d \in Clients \ {c} : cpc'[d] = cpc[d]
        /\ cpc[c] = "out" /\ cpc'[c] = IF Listening THEN "send" ELSE "left"
        /\ backlog' = IF Listening THEN Append(backlog, c) ELSE backlog
    BY <1>7 DEF Connect, Once
  <2>2. sent[c] = 0 /\ inbound[c] = <<>> /\ Mid(c) <= 0
    BY <2>1, <1>i DEF Turns, Reads
  <2>3. Mid(c) = 0 /\ Mid(c)' = 0
    <3>1. Mid(c) \in Nat
      BY <1>t
    <3> QED
      <4>1. Mid(c)' = Mid(c)
        BY <2>1 DEF Mid
      <4> QED
        BY <2>2, <3>1, <4>1
  <2>4. Flow(c, <<>>)'
    <3>1. Bytes(c, 0, 0) = <<>>
      BY BytesEmpty
    <3>2. Mid(c)' + Len(<<>>) = 0 /\ sent'[c] = 0 /\ inbound'[c] = <<>>
      BY <2>1, <2>2, <2>3, <1>e
    <3> QED
      BY <2>3, <3>1, <3>2 DEF Flow
  <2>5. Here(c)' => up
    BY <2>1 DEF Here, Listening
  <2>6. up => \A w \in Running : task[w] # c
    BY <2>1, Handled
  <2>7. \A d \in Clients \ {c} : d \in ToSet(backlog') => Peer(d)
    <3>1. CASE backlog' = backlog
      BY <3>1 DEF Peer
    <3>2. CASE backlog' = Append(backlog, c)
      <4>1. backlog \in Seq(Clients)
        BY DEF Once
      <4>2. \A i \in DOMAIN backlog' :
              \/ i \in DOMAIN backlog /\ backlog'[i] = backlog[i]
              \/ backlog'[i] = c
        BY <3>2, <4>1
      <4> QED
        BY <4>2 DEF Peer, ToSet
    <3> QED
      BY <2>1, <3>1, <3>2
  <2>8. got'[c] = Bytes(c, 0, Len(got'[c])) /\ Mid(c)' <= sent'[c]
        /\ outbound'[c] = Bytes(c, Len(got'[c]), Mid(c)')
    BY <2>1, <1>i DEF Reads, Mid
  <2> QED
    BY <2>1, <2>4, <2>5, <2>6, <2>7, <2>8, <1>g
<1>8. ASSUME NEW c \in Clients, ClientSend(c) PROVE Reads' /\ Flows'
  <2>1. /\ UNCHANGED <<got, outbound, buffer, open, backlog, task, wpc>> /\ Here(c)
        /\ \A d \in Clients \ {c} : cpc'[d] = cpc[d]
    BY <1>8 DEF ClientSend, serverVars, Once, Here
  <2>2. PICK n \in 1 .. Size - (sent[c] % Size) :
          /\ sent' = [sent EXCEPT ![c] = @ + n]
          /\ inbound' = IF Peer(c)
                          THEN [inbound EXCEPT ![c] = @ \o Bytes(c, sent[c], sent[c] + n)]
                          ELSE inbound
    BY <1>8 DEF ClientSend
  <2> DEFINE p == sent[c]
             q == p + n
             b == Bytes(c, p, q)
             s == inbound[c]
             u == s \o b
             m == Mid(c)
  <2>3. p \in Nat /\ q \in Nat /\ p <= q /\ n \in Int /\ q - p = n
    BY <1>w
  <2>4. /\ \A d \in Clients \ {c} : sent'[d] = sent[d] /\ inbound'[d] = inbound[d]
        /\ sent'[c] = q /\ (Peer(c) => inbound'[c] = u)
    BY <2>2, <1>w
  <2>5. s \in Seq(Byte) /\ Len(s) \in Nat /\ m \in Nat
    BY <1>t
  <2>6. Mid(c)' = m
    BY <2>1 DEF Mid
  <2> HIDE DEF p, q, m
  <2>7. b \in Seq(Byte) /\ Len(b) = n
    BY <2>3, BytesSlice
  <2> HIDE DEF b, s
  <2>8. Len(u) = Len(s) + n
    BY <2>5, <2>7, ConcatProperties
  <2> HIDE DEF u
  <2>9. ASSUME Peer(c), NEW h, Flow(c, h), Len(h) \in Nat
        PROVE  /\ h = Bytes(c, m, m + Len(h))
               /\ inbound'[c] = Bytes(c, m + Len(h), q)
               /\ m + Len(h) + Len(inbound'[c]) = q
    <3> DEFINE k == m + Len(h)
    <3>1. h = Bytes(c, m, k) /\ s = Bytes(c, k, p) /\ k + Len(s) = p
      BY <2>9 DEF Flow, m, s, p
    <3>2. k \in Nat /\ k <= p
      BY <2>5, <2>9, <3>1
    <3> HIDE DEF k
    <3>3. Bytes(c, k, p) \o Bytes(c, p, q) = Bytes(c, k, q)
      BY <3>2, <2>3, BytesJoin
    <3>4. u = Bytes(c, k, q)
      BY <3>1, <3>3 DEF u, b
    <3>5. k + Len(u) = q
      BY <2>3, <2>5, <2>8, <3>1, <3>2
    <3> QED
      BY <2>4, <2>9, <3>1, <3>4, <3>5 DEF k
  <2>10. ASSUME NEW w \in Running, task[w] = c, Peer(c)' PROVE Flow(c, buffer[w])'
    <3>1. Peer(c) /\ w \in Workers
      BY <2>1, <2>10 DEF Peer, Running
    <3>2. Flow(c, buffer[w])
      BY <2>1, <2>10, <3>1, <1>i DEF Flows
    <3>3. Len(buffer[w]) \in Nat
      BY <3>1, <1>t
    <3> QED
      BY <2>1, <2>4, <2>6, <2>9, <3>1, <3>2, <3>3 DEF Flow
  <2>11. ASSUME \A w \in Running : task[w] # c, Peer(c)' PROVE Flow(c, <<>>)'
    <3>1. Peer(c)
      BY <2>1, <2>11 DEF Peer
    <3>2. Flow(c, <<>>)
      BY <2>1, <2>11, <3>1, <1>i DEF Flows
    <3> QED
      BY <2>4, <2>6, <2>9, <3>1, <3>2, <1>e DEF Flow
  <2>12. /\ got'[c] = Bytes(c, 0, Len(got'[c])) /\ Mid(c)' <= sent'[c]
         /\ outbound'[c] = Bytes(c, Len(got'[c]), Mid(c)')
    <3>1. /\ got[c] = Bytes(c, 0, Len(got[c])) /\ m <= p
          /\ outbound[c] = Bytes(c, Len(got[c]), m)
      BY <1>i DEF Reads, m, p
    <3>2. m <= q
      BY <2>3, <2>5, <3>1
    <3> QED
      BY <2>1, <2>4, <2>6, <3>1, <3>2
  <2>13. \A d \in Clients \ {c} : d \in ToSet(backlog') => Peer(d)
    BY <2>1 DEF Peer
  <2> QED
    BY <2>1, <2>4, <2>10, <2>11, <2>12, <2>13, <1>g
<1>9. ASSUME NEW c \in Clients, ClientRecv(c) PROVE Reads' /\ Flows'
  <2>1. /\ UNCHANGED <<sent, inbound, buffer, open, backlog, task, wpc>> /\ Here(c)
        /\ \A d \in Clients \ {c} : cpc'[d] = cpc[d]
    BY <1>9 DEF ClientRecv, serverVars, Once, Here
  <2>2. PICK n \in 1 .. Len(outbound[c]) :
          /\ got' = [got EXCEPT ![c] = @ \o Taken(outbound[c], n)]
          /\ outbound' = [outbound EXCEPT ![c] = Dropped(@, n)]
    BY <1>9 DEF ClientRecv
  <2> DEFINE g == Len(got[c])
             s == outbound[c]
             t == Taken(s, n)
             d == Dropped(s, n)
             u == got[c] \o t
             m == Mid(c)
             p == g + n
  <2>3. /\ \A x \in Clients \ {c} : got'[x] = got[x] /\ outbound'[x] = outbound[x]
        /\ got'[c] = u /\ outbound'[c] = d
    BY <2>2, <1>w
  <2>4. /\ s \in Seq(Byte) /\ Len(s) \in Nat /\ n \in 0 .. Len(s) /\ m \in Nat /\ g \in Nat
        /\ m = g + Len(s) /\ p \in Nat /\ p <= m /\ g <= p /\ p + (Len(s) - n) = m
    <3>1. /\ outbound[c] \in Seq(Byte) /\ Len(outbound[c]) \in Nat
          /\ Len(got[c]) \in Nat /\ Mid(c) = Len(got[c]) + Len(outbound[c])
      BY <1>t
    <3> QED
      BY <3>1, <1>w
  <2>5. got[c] = Bytes(c, 0, g) /\ s = Bytes(c, g, m) /\ m <= sent[c] /\ got[c] \in Seq(Byte)
    BY <1>i, <1>w DEF Reads
  <2> HIDE DEF g, s, m
  <2>6. t \in Seq(Byte) /\ Len(t) = n /\ Len(d) = Len(s) - n
    <3>1. s \in Seq(Byte) /\ n \in 0 .. Len(s)
      BY <2>4
    <3>2. /\ Taken(s, n) \in Seq(Byte) /\ Len(Taken(s, n)) = n
          /\ Len(Dropped(s, n)) = Len(s) - n
      BY <3>1, Split
    <3> QED
      BY <3>2
  <2>7. t = Bytes(c, g, p) /\ d = Bytes(c, p, m)
    BY <2>4, <2>5, BytesSplit
  <2> HIDE DEF t, d
  <2>8. Len(u) = p
    BY <2>5, <2>6, ConcatProperties DEF g
  <2> HIDE DEF p
  <2>9. Bytes(c, 0, g) \o Bytes(c, g, p) = Bytes(c, 0, p)
    <3>1. 0 \in Nat /\ g \in Nat /\ p \in Nat /\ 0 <= g /\ g <= p
      BY <2>4
    <3> QED
      BY <3>1, BytesJoin
  <2>10. u = Bytes(c, 0, p)
    BY <2>5, <2>7, <2>9
  <2> HIDE DEF u
  <2>11. Mid(c)' = m
    BY <2>3, <2>4, <2>6, <2>8 DEF Mid
  <2>12. /\ got'[c] = Bytes(c, 0, Len(got'[c])) /\ Mid(c)' <= sent'[c]
         /\ outbound'[c] = Bytes(c, Len(got'[c]), Mid(c)')
    BY <2>1, <2>3, <2>5, <2>7, <2>8, <2>10, <2>11
  <2>13. ASSUME NEW w \in Running, task[w] = c, Peer(c)' PROVE Flow(c, buffer[w])'
    <3>1. Peer(c)
      BY <2>1, <2>13 DEF Peer
    <3>2. Flow(c, buffer[w])
      BY <2>1, <2>13, <3>1, <1>i DEF Flows
    <3> QED
      BY <2>1, <2>11, <3>2 DEF Flow, m
  <2>14. ASSUME \A w \in Running : task[w] # c, Peer(c)' PROVE Flow(c, <<>>)'
    <3>1. Peer(c)
      BY <2>1, <2>14 DEF Peer
    <3>2. Flow(c, <<>>)
      BY <2>1, <2>14, <3>1, <1>i DEF Flows
    <3> QED
      BY <2>1, <2>11, <3>2 DEF Flow, m
  <2>15. \A x \in Clients \ {c} : x \in ToSet(backlog') => Peer(x)
    BY <2>1 DEF Peer
  <2> QED
    BY <2>1, <2>3, <2>12, <2>13, <2>14, <2>15, <1>g
<1>10. ASSUME NEW c \in Clients, ClientFails(c) \/ ClientKilled(c) PROVE Reads' /\ Flows'
  <2>1. /\ UNCHANGED <<sent, got, buffer, open, backlog, task, wpc>>
        /\ \A d \in Clients \ {c} : /\ cpc'[d] = cpc[d] /\ inbound'[d] = inbound[d]
                                    /\ outbound'[d] = outbound[d]
        /\ cpc'[c] \in {"left", "killed"}
        /\ outbound'[c] = outbound[c] \/ outbound'[c] = <<>>
    BY <1>10, <1>w DEF ClientFails, ClientKilled, serverVars, Once
  <2>2. ~Here(c)'
    BY <2>1 DEF Here
  <2>3. /\ got'[c] = Bytes(c, 0, Len(got'[c])) /\ Mid(c)' <= sent'[c]
        /\ outbound'[c] = Bytes(c, Len(got'[c]), Mid(c)')
    <3>1. CASE outbound'[c] = outbound[c]
      BY <2>1, <3>1, <1>i DEF Reads, Mid
    <3>2. CASE outbound'[c] = <<>>
      <4>1. Mid(c)' = Len(got[c]) + 0
        BY <2>1, <3>2, <1>e DEF Mid
      <4>2. /\ Len(got[c]) \in Nat /\ Len(outbound[c]) \in Nat /\ sent[c] \in Nat
            /\ Mid(c) = Len(got[c]) + Len(outbound[c])
        BY <1>t
      <4>3. Mid(c)' = Len(got[c]) /\ Mid(c)' <= sent[c]
        <5>1. Mid(c) <= sent[c]
          BY <1>i DEF Reads
        <5> QED
          BY <4>1, <4>2, <5>1, <1>w
      <4>4. Bytes(c, Len(got[c]), Len(got[c])) = <<>>
        BY <4>2, BytesEmpty
      <4>5. got[c] = Bytes(c, 0, Len(got[c]))
        BY <1>i DEF Reads
      <4> QED
        BY <2>1, <3>2, <4>3, <4>4, <4>5
    <3> QED
      BY <2>1, <3>1, <3>2
  <2>4. \A x \in Clients \ {c} : x \in ToSet(backlog') => Peer(x)
    BY <2>1 DEF Peer
  <2> QED
    BY <2>1, <2>2, <2>3, <2>4, <1>g
<1> QED
  BY <1>1, <1>2, <1>3, <1>4, <1>5, <1>6, <1>7, <1>8, <1>9, <1>10, <1>i, StepKinds DEF Client

\* A client sends its messages one at a time, and waits for the whole echo of
\* one before the next (echoClient.h:36-60).
LEMMA StepTurns ==
  EInv /\ Once /\ Accounted /\ Wire /\ Reads' /\ WireTypes' /\ [EchoNext]_allVars => Turns'
<1> SUFFICES ASSUME EInv, Once, Accounted, Wire, Reads', WireTypes', [EchoNext]_allVars
             PROVE  Turns'
  OBVIOUS
<1> USE DEF vars, stopVars, acceptVars, handlerVars, kernelVars, callerVars, wire,
            clientVars, Clients
<1>i. TypeOK /\ Linked /\ WireTypes /\ Reads /\ Turns
  BY DEF EInv, IInv, Wire
<1>s. Messages \in Nat \ {0} /\ Size \in Nat \ {0}
  BY EchoAssumption
<1>w. /\ got \in [Clients -> Seq(Byte)] /\ outbound \in [Clients -> Seq(Byte)]
      /\ inbound \in [Clients -> Seq(Byte)] /\ buffer \in [Workers -> Seq(Byte)]
      /\ sent \in [Clients -> Nat]
      /\ cpc \in [Clients -> {"out", "send", "recv", "left", "killed"}]
  BY <1>i DEF WireTypes, Once
<1>q. ASSUME UNCHANGED <<cpc, sent, got>>,
             \A d \in Clients : cpc[d] = "out" => inbound'[d] = inbound[d]
      PROVE  Turns'
  BY <1>i, <1>q DEF Turns
<1>f. ASSUME NEW c \in Clients,
             \A d \in Clients \ {c} : /\ got'[d] = got[d] /\ sent'[d] = sent[d]
                                      /\ inbound'[d] = inbound[d] /\ cpc'[d] = cpc[d],
             sent'[c] <= Messages * Size, cpc'[c] # "out",
             cpc'[c] = "send" => /\ Len(got'[c]) = (sent'[c] \div Size) * Size
                                 /\ sent'[c] < Messages * Size,
             cpc'[c] = "recv" => sent'[c] % Size = 0
      PROVE  Turns'
  <2>1. ASSUME NEW d \in Clients \ {c}
        PROVE  /\ sent'[d] <= Messages * Size
               /\ cpc'[d] = "out" => sent'[d] = 0 /\ inbound'[d] = <<>>
               /\ cpc'[d] = "send" => /\ Len(got'[d]) = (sent'[d] \div Size) * Size
                                      /\ sent'[d] < Messages * Size
               /\ cpc'[d] = "recv" => sent'[d] % Size = 0
    BY <1>f, <1>i DEF Turns
  <2> QED
    BY <1>f, <2>1 DEF Turns
<1>1. ASSUME Quiet PROVE Turns'
  BY <1>1, <1>q DEF Quiet
<1>2. ASSUME up, NEW w \in Workers, HandlerStart(w) \/ HandlerEnd(w) \/ Send(w) \/ SendGone(w)
      PROVE  Turns'
  BY <1>2, <1>q DEF HandlerStart, HandlerEnd, Send, SendGone, HandlerGoes
<1>3. ASSUME up, NEW w \in Workers, Recv(w) PROVE Turns'
  <2>1. w \in Running
    BY <1>3, <1>i DEF Recv, Running, Linked
  <2>2. cpc[task[w]] # "out"
    BY <1>3, <2>1, Handled
  <2>3. \A d \in Clients : d # task[w] => inbound'[d] = inbound[d]
    BY <1>3, <1>w DEF Recv
  <2> QED
    BY <1>3, <1>q, <2>2, <2>3 DEF Recv, HandlerGoes
<1>4. ASSUME NEW c \in Clients, Connect(c) PROVE Turns'
  <2>1. /\ UNCHANGED <<got, inbound, sent>>
        /\ \A d \in Clients \ {c} : cpc'[d] = cpc[d]
        /\ cpc[c] = "out" /\ cpc'[c] \in {"send", "left"}
    BY <1>4, <1>w DEF Connect
  <2>2. sent[c] = 0 /\ Mid(c) <= 0
    BY <2>1, <1>i DEF Turns, Reads
  <2>3. Len(got[c]) = 0
    <3>1. Len(got[c]) \in Nat /\ Len(outbound[c]) \in Nat
      BY <1>w, LenProperties
    <3> QED
      BY <2>2, <3>1, <1>w DEF Mid
  <2>4. 0 \div Size = 0 /\ 0 * Size = 0
    BY <1>s
  <2>5. 0 < Messages * Size /\ 0 <= Messages * Size
    BY <1>s
  <2>6. Len(got[c]) = (sent[c] \div Size) * Size
    BY <2>2, <2>3, <2>4
  <2>7. sent[c] < Messages * Size /\ sent[c] <= Messages * Size
    BY <2>2, <2>5
  <2> QED
    BY <2>1, <2>6, <2>7, <1>f
<1>5. ASSUME NEW c \in Clients, ClientSend(c) PROVE Turns'
  <2>1. PICK n \in 1 .. Size - (sent[c] % Size) : sent' = [sent EXCEPT ![c] = @ + n]
    BY <1>5 DEF ClientSend
  <2>2. /\ got' = got /\ cpc[c] = "send"
        /\ \A d \in Clients \ {c} : inbound'[d] = inbound[d] /\ cpc'[d] = cpc[d]
        /\ cpc'[c] = IF sent'[c] % Size = 0 THEN "recv" ELSE "send"
    BY <1>5, <1>w DEF ClientSend
  <2> DEFINE p == sent[c]
             q == sent'[c]
             z == Size
             top == Messages * z
  <2>3. /\ p \in Nat /\ q = p + n /\ n \in 1 .. z - (p % z) /\ z \in Nat \ {0}
        /\ \A d \in Clients \ {c} : sent'[d] = sent[d]
    BY <2>1, <1>w, <1>s
  <2>4. p < top /\ Len(got[c]) = (p \div z) * z
    BY <2>2, <1>i DEF Turns
  <2> HIDE DEF p, q, z
  <2>5. p + (z - (p % z)) <= top
    BY <2>3, <2>4, <1>s, WithinLast
  <2>6. p % z \in Int /\ top \in Int /\ n \in Int
    BY <2>3, <1>s
  <2> HIDE DEF top
  <2>7. q <= top
    <3>1. n <= z - (p % z)
      BY <2>3
    <3> DEFINE r == p % z
    <3>2. p + (z - r) <= top /\ n <= z - r /\ r \in Int
      BY <2>5, <2>6, <3>1
    <3> HIDE DEF r
    <3> QED
      BY <2>3, <2>6, <3>2
  <2>8. ASSUME q % z # 0 PROVE Len(got'[c]) = (q \div z) * z /\ q < top
    <3>1. q \div z = p \div z
      BY <2>3, <2>8, SameMessage
    <3>2. q # top
      <4>1. top % z = 0
        BY <2>3, <1>s DEF top
      <4> QED
        BY <2>8, <4>1
    <3>3. q < top
      BY <2>3, <2>6, <2>7, <3>2
    <3> QED
      BY <2>2, <2>4, <3>1, <3>3
  <2> QED
    BY <2>2, <2>3, <2>7, <2>8, <1>f DEF q, z, top
<1>6. ASSUME NEW c \in Clients, ClientRecv(c) PROVE Turns'
  <2>1. /\ sent' = sent /\ inbound' = inbound /\ cpc[c] = "recv"
        /\ \A d \in Clients \ {c} : cpc'[d] = cpc[d] /\ got'[d] = got[d]
    BY <1>6, <1>w DEF ClientRecv
  <2>2. cpc'[c] = CASE Len(got'[c]) < sent[c] -> "recv"
                    [] Len(got'[c]) = Messages * Size -> "left"
                    [] OTHER -> "send"
    BY <1>6, <1>w DEF ClientRecv
  <2> DEFINE g == Len(got'[c])
             p == sent[c]
             z == Size
             top == Messages * z
  <2>3. g \in Nat /\ g <= p /\ p \in Nat /\ p <= top /\ p % z = 0
    <3>1. g \in Nat /\ Len(outbound'[c]) \in Nat
      BY LenProperties DEF WireTypes
    <3>2. Mid(c)' <= sent'[c] /\ Mid(c)' = Len(got'[c]) + Len(outbound'[c])
      BY DEF Reads, Mid
    <3>3. got' \in [Clients -> Seq(Byte)] /\ outbound' \in [Clients -> Seq(Byte)]
      BY DEF WireTypes
    <3>4. g <= p
      BY <2>1, <3>1, <3>2, <3>3, <1>w
    <3> QED
      BY <2>1, <3>1, <3>4, <1>i, <1>w DEF Turns
  <2>4. z \in Nat \ {0}
    BY <1>s
  <2>5. top \in Nat
    BY <1>s
  <2> HIDE DEF g, p, z, top
  <2>6. cpc'[c] = CASE g < p -> "recv" [] g = top -> "left" [] OTHER -> "send"
    BY <2>2 DEF g, p, z, top
  <2>7. cpc'[c] \in {"recv", "left", "send"} /\ (cpc'[c] = "send" => g = p /\ g # top)
    BY <2>3, <2>5, <2>6
  <2>8. p = (p \div z) * z
    <3>1. p = (p \div z) * z + (p % z) /\ p \div z \in Nat
      BY <2>3, <2>4, Division
    <3> DEFINE k == (p \div z) * z
    <3>2. k \in Nat /\ p = k + 0
      BY <2>3, <2>4, <3>1
    <3> HIDE DEF k
    <3>3. p = k
      BY <3>2
    <3> QED
      BY <3>3 DEF k
  <2>9. cpc'[c] = "send" => g = (p \div z) * z /\ p < top
    <3>1. cpc'[c] = "send" => p < top
      BY <2>3, <2>5, <2>7
    <3> QED
      BY <2>7, <2>8, <3>1
  <2> QED
    BY <2>1, <2>3, <2>7, <2>9, <1>f DEF g, p, z, top
<1>7. ASSUME NEW c \in Clients, ClientFails(c) \/ ClientKilled(c) PROVE Turns'
  <2>1. /\ UNCHANGED <<sent, got>> /\ cpc'[c] \in {"left", "killed"}
        /\ \A d \in Clients \ {c} : cpc'[d] = cpc[d] /\ inbound'[d] = inbound[d]
    BY <1>7, <1>w DEF ClientFails, ClientKilled
  <2> QED
    BY <2>1, <1>f, <1>i DEF Turns
<1> QED
  BY <1>1, <1>2, <1>3, <1>4, <1>5, <1>6, <1>7, <1>i, StepKinds DEF Client

\* A client that left read its whole echo, or was cut off: nothing of its
\* stream is at the server (echoClient.h:42-49, echoServer.h:30-47).
LEMMA StepLeaves ==
  EInv /\ Once /\ Accounted /\ Wire /\ Reads' /\ WireTypes' /\ [EchoNext]_allVars => Leaves'
<1> SUFFICES ASSUME EInv, Once, Accounted, Wire, Reads', WireTypes', [EchoNext]_allVars
             PROVE  Leaves'
  OBVIOUS
<1> USE DEF vars, stopVars, acceptVars, handlerVars, kernelVars, callerVars, wire,
            clientVars, Clients
<1>i. TypeOK /\ Linked /\ WireTypes /\ Reads /\ Flows /\ Turns /\ Leaves
  BY DEF EInv, IInv, Wire
<1>w. /\ got \in [Clients -> Seq(Byte)] /\ outbound \in [Clients -> Seq(Byte)]
      /\ inbound \in [Clients -> Seq(Byte)] /\ buffer \in [Workers -> Seq(Byte)]
      /\ sent \in [Clients -> Nat]
      /\ cpc \in [Clients -> {"out", "send", "recv", "left", "killed"}]
  BY <1>i DEF WireTypes, Once
<1>r. \A w \in Running : w \in Workers /\ task[w] \in Clients
  BY <1>i DEF Running, TypeOK
<1>h. ASSUME up, NEW w \in Workers, hpc[w] # "off" PROVE w \in Running /\ Peer(task[w])
  <2>1. w \in Running
    BY <1>h, <1>i DEF Running, Linked
  <2> QED
    BY <1>h, <2>1, Handled
<1>1. ASSUME Quiet PROVE Leaves'
  <2>1. \A c \in Clients : c \in open' \/ c \in ToSet(backlog') => Peer(c)
    BY <1>1 DEF Quiet, Peer
  <2>2. /\ UNCHANGED <<cpc, inbound, buffer>> /\ Running' = Running /\ (up' => up)
        /\ \A w \in Running : task'[w] = task[w]
    BY <1>1 DEF Quiet
  <2>3. ASSUME up', NEW w \in Running', cpc'[task'[w]] = "left" PROVE buffer'[w] = <<>>
    BY <2>2, <2>3, <1>i DEF Leaves
  <2>4. ASSUME NEW c \in Clients, cpc'[c] = "left", Peer(c)' PROVE inbound'[c] = <<>>
    BY <2>1, <2>2, <2>4, <1>i DEF Leaves, Peer
  <2> QED
    BY <2>3, <2>4 DEF Leaves
<1>2. ASSUME up, NEW w \in Workers, HandlerStart(w) PROVE Leaves'
  <2>1. /\ UNCHANGED <<cpc, inbound, buffer, open, backlog>>
        /\ \A v \in Running' : v = w \/ (v \in Running /\ task'[v] = task[v])
    BY <1>2, <1>i DEF HandlerStart, TakeTask, Running, TypeOK
  <2>2. buffer[w] = <<>>
    BY <1>2, <1>i DEF HandlerStart, TakeTask, WireTypes, Linked
  <2> QED
    BY <1>2, <2>1, <2>2, <1>i DEF Leaves, Peer
<1>3. ASSUME up, NEW w \in Workers, HandlerEnd(w) PROVE Leaves'
  <2>1. /\ UNCHANGED <<cpc, inbound, buffer, backlog>> /\ open' \subseteq open
        /\ \A v \in Running' : v \in Running /\ task'[v] = task[v]
    BY <1>3, <1>i DEF HandlerEnd, Finish, Running, TypeOK
  <2> QED
    BY <1>3, <2>1, <1>i DEF Leaves, Peer
<1>4. ASSUME up, NEW w \in Workers, Recv(w) PROVE Leaves'
  <2>1. /\ w \in Running /\ Peer(task[w]) /\ task[w] \in Clients
    BY <1>4, <1>h, <1>r DEF Recv
  <2>2. inbound[task[w]] # <<>>
    BY <1>4 DEF Recv
  <2>3. cpc[task[w]] # "left"
    BY <2>1, <2>2, <1>i DEF Leaves
  <2>4. UNCHANGED <<cpc, open, backlog, task, wpc, up>>
    BY <1>4 DEF Recv, HandlerGoes
  <2>5. /\ \A v \in Workers : v # w => buffer'[v] = buffer[v]
        /\ \A d \in Clients : d # task[w] => inbound'[d] = inbound[d]
    BY <1>4, <1>w DEF Recv
  <2>6. Running' = Running
    BY <2>4 DEF Running
  <2>7. ASSUME up', NEW v \in Running', cpc'[task'[v]] = "left" PROVE buffer'[v] = <<>>
    <3>1. v # w /\ v \in Workers
      BY <2>3, <2>4, <2>6, <2>7, <1>r
    <3> QED
      BY <2>4, <2>5, <2>6, <2>7, <3>1, <1>i DEF Leaves
  <2>8. ASSUME NEW c \in Clients, cpc'[c] = "left", Peer(c)' PROVE inbound'[c] = <<>>
    <3>1. c # task[w]
      BY <2>3, <2>4, <2>8
    <3> QED
      BY <2>4, <2>5, <2>8, <3>1, <1>i DEF Leaves, Peer
  <2> QED
    BY <2>7, <2>8 DEF Leaves
<1>5. ASSUME up, NEW w \in Workers, Send(w) \/ SendGone(w) PROVE Leaves'
  <2>1. UNCHANGED <<cpc, open, backlog, task, wpc, up, inbound>>
    BY <1>5 DEF Send, SendGone, HandlerGoes
  <2>2. /\ \A v \in Workers : v # w => buffer'[v] = buffer[v]
        /\ cpc[task[w]] = "left" => buffer'[w] = <<>>
    BY <1>5, <1>w DEF Send, SendGone, Here
  <2>3. Running' = Running
    BY <2>1 DEF Running
  <2>4. ASSUME up', NEW v \in Running', cpc'[task'[v]] = "left" PROVE buffer'[v] = <<>>
    BY <2>1, <2>2, <2>3, <2>4, <1>i, <1>r DEF Leaves
  <2>5. ASSUME NEW c \in Clients, cpc'[c] = "left", Peer(c)' PROVE inbound'[c] = <<>>
    BY <2>1, <2>5, <1>i DEF Leaves, Peer
  <2> QED
    BY <2>4, <2>5 DEF Leaves
\* A client comes to its end.
<1>f. ASSUME NEW c \in Clients, UNCHANGED <<open, task, wpc, buffer, up>>,
             \A d \in Clients \ {c} : cpc'[d] = cpc[d] /\ inbound'[d] = inbound[d],
             \A d \in Clients \ {c} : d \in ToSet(backlog') => Peer(d),
             cpc'[c] = "left" /\ Peer(c)' => inbound'[c] = <<>>,
             cpc'[c] = "left" /\ up => \A w \in Running : task[w] = c => buffer[w] = <<>>
      PROVE  Leaves'
  <2>1. Running' = Running
    BY <1>f DEF Running
  <2>2. ASSUME up', NEW v \in Running', cpc'[task'[v]] = "left" PROVE buffer'[v] = <<>>
    <3>1. v \in Running /\ task'[v] = task[v] /\ task[v] \in Clients /\ buffer'[v] = buffer[v] /\ up
      BY <2>1, <2>2, <1>f, <1>r
    <3>2. CASE task[v] = c
      BY <2>2, <3>1, <3>2, <1>f
    <3>3. CASE task[v] # c
      BY <2>2, <3>1, <3>3, <1>f, <1>i DEF Leaves
    <3> QED
      BY <3>2, <3>3
  <2>3. ASSUME NEW d \in Clients \ {c}, cpc'[d] = "left", Peer(d)' PROVE inbound'[d] = <<>>
    <3>1. Peer(d)
      BY <2>3, <1>f DEF Peer
    <3> QED
      BY <2>3, <3>1, <1>f, <1>i DEF Leaves
  <2> QED
    BY <2>2, <2>3, <1>f DEF Leaves
<1>6. ASSUME NEW c \in Clients, Connect(c) PROVE Leaves'
  <2>1. /\ UNCHANGED <<inbound, buffer, open, task, wpc, up>>
        /\ \A d \in Clients \ {c} : cpc'[d] = cpc[d]
        /\ cpc[c] = "out"
        /\ backlog' = Append(backlog, c) \/ backlog' = backlog
    BY <1>6, <1>w DEF Connect
  <2>2. inbound[c] = <<>>
    BY <2>1, <1>i DEF Turns
  <2>3. up => \A w \in Running : task[w] # c
    BY <2>1, Handled
  <2>4. \A d \in Clients \ {c} : d \in ToSet(backlog') => Peer(d)
    <3>1. CASE backlog' = backlog
      BY <3>1 DEF Peer
    <3>2. CASE backlog' = Append(backlog, c)
      <4>1. backlog \in Seq(Clients)
        BY DEF Once
      <4>2. \A i \in DOMAIN backlog' :
              \/ i \in DOMAIN backlog /\ backlog'[i] = backlog[i]
              \/ backlog'[i] = c
        BY <3>2, <4>1
      <4> QED
        BY <4>2 DEF Peer, ToSet
    <3> QED
      BY <2>1, <3>1, <3>2
  <2> QED
    BY <2>1, <2>2, <2>3, <2>4, <1>f
<1>7. ASSUME NEW c \in Clients, ClientSend(c) PROVE Leaves'
  <2>1. /\ UNCHANGED <<buffer, open, backlog, task, wpc, up>>
        /\ \A d \in Clients \ {c} : cpc'[d] = cpc[d] /\ inbound'[d] = inbound[d]
        /\ cpc'[c] # "left"
    BY <1>7, <1>w DEF ClientSend, serverVars
  <2> QED
    BY <2>1, <1>f DEF Peer
<1>8. ASSUME NEW c \in Clients, ClientRecv(c) PROVE Leaves'
  <2>1. /\ UNCHANGED <<buffer, open, backlog, task, wpc, up, inbound, sent>>
        /\ \A d \in Clients \ {c} : cpc'[d] = cpc[d] /\ inbound'[d] = inbound[d]
        /\ Here(c)
    BY <1>8, <1>w DEF ClientRecv, serverVars, Here
  <2>2. cpc'[c] = CASE Len(got'[c]) < sent[c] -> "recv"
                    [] Len(got'[c]) = Messages * Size -> "left"
                    [] OTHER -> "send"
    BY <1>8, <1>w DEF ClientRecv
  <2>3. PICK n \in 1 .. Len(outbound[c]) :
          /\ got' = [got EXCEPT ![c] = @ \o Taken(outbound[c], n)]
    BY <1>8 DEF ClientRecv
  <2> DEFINE g == Len(got'[c])
             p == sent[c]
             top == Messages * Size
             m == Mid(c)
  <2>4. g <= m
    <3> DEFINE s == outbound[c]
               t == Taken(s, n)
               u == got[c] \o t
    <3>1. s \in Seq(Byte) /\ Len(s) \in Nat /\ got[c] \in Seq(Byte) /\ Len(got[c]) \in Nat
          /\ Mid(c) = Len(got[c]) + Len(s)
      BY <1>w, LenProperties DEF Mid
    <3>2. n \in 0 .. Len(s) /\ n \in Int
      BY <3>1
    <3>3. got'[c] = u
      BY <2>3, <1>w
    <3> HIDE DEF s
    <3>4. t \in Seq(Byte) /\ Len(t) = n
      BY <3>1, <3>2, Split
    <3> HIDE DEF t
    <3>5. Len(u) = Len(got[c]) + n
      BY <3>1, <3>4, ConcatProperties
    <3> HIDE DEF u
    <3> QED
      BY <3>1, <3>2, <3>3, <3>5, <1>w
  <2>5. /\ m \in Nat /\ p \in Nat /\ m <= p /\ p <= top /\ top \in Nat /\ g \in Nat
    <3>1. Len(got[c]) \in Nat /\ Len(outbound[c]) \in Nat /\ Len(got'[c]) \in Nat
      BY <1>w, LenProperties DEF WireTypes
    <3>2. m \in Nat
      BY <3>1, <1>w DEF Mid
    <3> QED
      BY <3>1, <3>2, <1>w, <1>i, EchoAssumption DEF Reads, Turns
  <2> HIDE DEF g, p, m, top
  <2>6. cpc'[c] = CASE g < p -> "recv" [] g = top -> "left" [] OTHER -> "send"
    BY <2>2 DEF g, p, top
  <2>7. cpc'[c] = "left" => m = p
    BY <2>4, <2>5, <2>6
  <2>8. ASSUME NEW h \in Seq(Byte), Flow(c, h), m = p PROVE h = <<>> /\ inbound[c] = <<>>
    <3> DEFINE i == inbound[c]
    <3>1. m + Len(h) + Len(i) = p
      BY <2>8 DEF Flow, m, p
    <3>2. i \in Seq(Byte)
      BY <1>w
    <3> HIDE DEF i
    <3>3. Len(h) \in Nat /\ Len(i) \in Nat
      BY <3>2, LenProperties
    <3>4. Len(h) = 0 /\ Len(i) = 0
      BY <2>5, <2>8, <3>1, <3>3
    <3>5. h = <<>> /\ i = <<>>
      BY <3>2, <3>4
    <3> QED
      BY <3>5 DEF i
  <2>9. ASSUME NEW w \in Running, task[w] = c, Peer(c), m = p
        PROVE  buffer[w] = <<>> /\ inbound[c] = <<>>
    <3>1. Flow(c, buffer[w]) /\ buffer[w] \in Seq(Byte)
      BY <2>1, <2>9, <1>i, <1>r, <1>w DEF Flows
    <3> QED
      BY <3>1, <2>8, <2>9
  <2>10. ASSUME Peer(c), m = p PROVE inbound[c] = <<>>
    <3>1. CASE \E w \in Running : task[w] = c
      BY <2>9, <2>10, <3>1
    <3>2. CASE \A w \in Running : task[w] # c
      <4>1. Flow(c, <<>>) /\ <<>> \in Seq(Byte)
        BY <2>1, <2>10, <3>2, <1>i DEF Flows
      <4> QED
        BY <4>1, <2>8, <2>10
    <3> QED
      BY <3>1, <3>2
  <2>11. up => \A w \in Running : task[w] = c => Peer(c)
    BY Handled
  <2>12. cpc'[c] = "left" /\ up => \A w \in Running : task[w] = c => buffer[w] = <<>>
    BY <2>7, <2>9, <2>11
  <2>13. cpc'[c] = "left" /\ Peer(c)' => inbound'[c] = <<>>
    BY <2>1, <2>7, <2>10 DEF Peer
  <2> QED
    BY <2>1, <2>12, <2>13, <1>f DEF Peer
<1>9. ASSUME NEW c \in Clients, ClientFails(c) PROVE Leaves'
  <2>1. /\ UNCHANGED <<buffer, open, backlog, task, wpc, up, inbound>> /\ ~Peer(c)
        /\ \A d \in Clients \ {c} : cpc'[d] = cpc[d]
    BY <1>9, <1>w DEF ClientFails, serverVars
  <2>2. up => \A w \in Running : task[w] # c
    BY <2>1, Handled
  <2> QED
    BY <2>1, <2>2, <1>f DEF Peer
<1>10. ASSUME NEW c \in Clients, ClientKilled(c) PROVE Leaves'
  <2>1. /\ UNCHANGED <<buffer, open, backlog, task, wpc, up>> /\ cpc'[c] = "killed"
        /\ \A d \in Clients \ {c} : cpc'[d] = cpc[d] /\ inbound'[d] = inbound[d]
    BY <1>10, <1>w DEF ClientKilled, serverVars
  <2> QED
    BY <2>1, <1>f DEF Peer
<1> QED
  BY <1>1, <1>2, <1>3, <1>4, <1>5, <1>6, <1>7, <1>8, <1>9, <1>10, <1>i, StepKinds DEF Client

\* A handler ends early, or a SIGPIPE comes, only through a client that died
\* (echoServer.h:30-47).
LEMMA StepServes ==
  EInv /\ Once /\ Accounted /\ Wire /\ ServesToTheEnd /\ [EchoNext]_allVars =>
    ServesToTheEnd'
<1> SUFFICES ASSUME EInv, Once, Accounted, Wire, ServesToTheEnd, [EchoNext]_allVars
             PROVE  ServesToTheEnd'
  OBVIOUS
<1> USE DEF vars, stopVars, acceptVars, handlerVars, kernelVars, callerVars, wire,
            clientVars, Clients
<1>i. TypeOK /\ Linked /\ WireTypes /\ Leaves
  BY DEF EInv, IInv, Wire
<1>w. /\ hpc \in [Workers -> {"off", "test", "recv", "send", "end"}]
      /\ cpc \in [Clients -> {"out", "send", "recv", "left", "killed"}]
      /\ task \in [Workers -> Tasks \cup {NoTask}]
  BY <1>i DEF Linked, Once, TypeOK
<1>h. ASSUME up, NEW w \in Workers, hpc[w] # "off"
      PROVE  w \in Running /\ task[w] \in Clients /\ cpc[task[w]] # "out"
  <2>1. w \in Running
    BY <1>h, <1>i DEF Running, Linked
  <2> QED
    BY <1>h, <2>1, Handled
<1>u. ASSUME UNCHANGED <<cpc, up>>, running_' => running_,
             \A w \in Workers : hpc'[w] = "end" /\ running_' =>
                 ~Here(task'[w]) \/ (hpc[w] = "end" /\ task'[w] = task[w])
      PROVE  ServesToTheEnd'
  BY <1>u DEF ServesToTheEnd, Here
<1>1. ASSUME up, \/ Create \/ Listen
                 \/ AcceptTest \/ Accept \/ AcceptFails \/ Hand \/ HandPush \/ Handed
                 \/ StopStore \/ StopClose \/ Destroy
      PROVE  ServesToTheEnd'
  <2>1. UNCHANGED <<cpc, up, hpc>>
    BY <1>1 DEF Create, Listen, AcceptTest, Accept, AcceptFails, Hand, HandPush, Handed, StopStore, StopClose,
       Destroy, serverVars
  <2>2. task' = task
    BY <1>1 DEF Create, Listen, AcceptTest, Accept, AcceptFails, Hand, HandPush, Handed, EnqueueChecked,
       EnqueuePush, NotifyOne, StopStore, StopClose, Destroy, Dtor, DtorStop, DtorNotifyAll,
       DtorJoin
  <2>3. running_' => running_
    BY <1>1 DEF Create, Listen, AcceptTest, Accept, AcceptFails, Hand, HandPush, Handed, StopStore, StopClose,
       Destroy, serverVars
  <2> QED
    BY <2>1, <2>2, <2>3, <1>u
<1>2. ASSUME up, NEW w \in Workers, HandlerStart(w) PROVE ServesToTheEnd'
  BY <1>2, <1>u, <1>w DEF HandlerStart, TakeTask
<1>3. ASSUME up, NEW w \in Workers, HandlerEnd(w) PROVE ServesToTheEnd'
  BY <1>3, <1>u, <1>w DEF HandlerEnd, Finish
<1>4. ASSUME up, NEW w \in Workers, HandlerTest(w) PROVE ServesToTheEnd'
  BY <1>4, <1>u, <1>w DEF HandlerTest, HandlerGoes
<1>5. ASSUME up, NEW w \in Workers, RecvEnds(w) \/ SendGone(w) PROVE ServesToTheEnd'
  <2>1. /\ UNCHANGED <<cpc, up, running_, task>> /\ ~Here(task[w])
        /\ \A v \in Workers : v # w => hpc'[v] = hpc[v]
    BY <1>5, <1>w DEF RecvEnds, SendGone, HandlerGoes
  <2> QED
    BY <2>1, <1>u
<1>6. ASSUME up, NEW w \in Workers, Recv(w) \/ Send(w) PROVE ServesToTheEnd'
  <2>1. /\ UNCHANGED <<cpc, up, running_, task>> /\ hpc'[w] # "end"
        /\ \A v \in Workers : v # w => hpc'[v] = hpc[v]
    BY <1>6, <1>w DEF Recv, Send, HandlerGoes
  <2> QED
    BY <2>1, <1>u
<1>7. ASSUME up, NEW w \in Workers, Idle(w) \/ Wake(w) PROVE ServesToTheEnd'
  <2>1. UNCHANGED <<cpc, up, running_, hpc, task>>
    BY <1>7 DEF Idle, ExitWorker, FindNothing, Park, Wake, SpuriousWake, serverVars
  <2> QED
    BY <2>1, <1>u
<1>8. ASSUME up, NEW w \in Workers, SigPipe(w) PROVE ServesToTheEnd'
  <2>1. UNCHANGED <<hpc, task, cpc, running_>> /\ hpc[w] = "send" /\ ~Here(task[w])
    BY <1>8 DEF SigPipe
  <2>2. w \in Running /\ task[w] \in Clients /\ cpc[task[w]] # "out"
    BY <1>8, <1>h, <2>1
  <2>3. cpc[task[w]] # "left"
    BY <1>8, <2>1, <2>2, <1>i DEF Leaves, WireTypes
  <2>4. cpc[task[w]] = "killed"
    BY <2>1, <2>2, <2>3, <1>w DEF Here
  <2> QED
    BY <2>1, <2>2, <2>4 DEF ServesToTheEnd, Here
<1>9. ASSUME NEW c \in Clients, Client(c) \/ ClientKilled(c) PROVE ServesToTheEnd'
  <2>1. UNCHANGED <<hpc, task, running_, up>>
    BY <1>9 DEF Client, Connect, ClientSend, ClientRecv, ClientFails, ClientKilled, serverVars
  <2>2. \A d \in Clients :
          /\ cpc'[d] \in {"send", "recv"} =>
               cpc[d] \in {"send", "recv"} \/ (cpc[d] = "out" /\ up)
          /\ cpc[d] = "killed" => cpc'[d] = "killed"
    BY <1>9, <1>w DEF Client, Connect, ClientSend, ClientRecv, ClientFails, ClientKilled,
       Listening, Here
  <2>3. ASSUME NEW w \in Workers, hpc[w] = "end", running_, cpc'[task[w]] \in {"send", "recv"}
        PROVE  FALSE
    <3>1. task[w] \in Clients
      BY <2>3, <1>i DEF Linked, TypeOK
    <3>2. ~Here(task[w])
      BY <2>3 DEF ServesToTheEnd
    <3>3. cpc[task[w]] = "out" /\ up
      BY <2>2, <2>3, <3>1, <3>2 DEF Here
    <3> QED
      BY <1>h, <2>3, <3>3
  <2> QED
    BY <2>1, <2>2, <2>3 DEF ServesToTheEnd, Here
<1>10. CASE UNCHANGED allVars
  BY <1>10, <1>u DEF allVars, serverVars
<1>11. ASSUME Store PROVE ServesToTheEnd'
  BY <1>11, <1>i DEF Store, Linked, ServesToTheEnd, Here
<1> QED
  BY <1>1, <1>2, <1>3, <1>4, <1>5, <1>6, <1>7, <1>8, <1>9, <1>10, <1>11
     DEF EchoNext, Acceptor, Stop, Closing, Handler

-----------------------------------------------------------------------------
\* No byte is under way when the server starts.
LEMMA InitWire == EchoInit => Wire /\ ServesToTheEnd
<1> SUFFICES ASSUME EchoInit PROVE Wire /\ ServesToTheEnd
  OBVIOUS
<1>1. /\ hpc = [w \in Workers |-> "off"] /\ buffer = [w \in Workers |-> <<>>]
      /\ sent = [c \in Clients |-> 0] /\ got = [c \in Clients |-> <<>>]
      /\ inbound = [c \in Clients |-> <<>>] /\ outbound = [c \in Clients |-> <<>>]
      /\ cpc = [c \in Clients |-> "out"] /\ up
      /\ wpc = [w \in Workers |-> "loop"]
  BY DEF EchoInit, Init
<1>2. <<>> \in Seq(Byte) /\ Len(<<>>) = 0
  OBVIOUS
<1>3. WireTypes
  <2>1. /\ running_ \in BOOLEAN /\ fd \in {"none", "made", "listens"} /\ up \in BOOLEAN
        /\ stopper \in {"idle", "half", "done"}
    BY DEF EchoInit
  <2>2. buffer \in [Workers -> Seq(Byte)] /\ sent \in [Clients -> Nat]
    BY <1>1, <1>2
  <2>3. /\ got \in [Clients -> Seq(Byte)] /\ inbound \in [Clients -> Seq(Byte)]
        /\ outbound \in [Clients -> Seq(Byte)]
    BY <1>1, <1>2
  <2>4. \A w \in Workers : hpc[w] = "send" <=> buffer[w] # <<>>
    BY <1>1
  <2> QED
    BY <1>1, <2>1, <2>2, <2>3, <2>4 DEF WireTypes
<1>4. \A c \in Clients : Len(got[c]) = 0 /\ Len(outbound[c]) = 0
  BY <1>1, <1>2
<1>5. \A c \in Clients : Mid(c) = 0
  <2>1. 0 + 0 = 0
    OBVIOUS
  <2> QED
    BY <1>4, <2>1 DEF Mid
<1>6. Reads
  <2>1. \A c : Bytes(c, 0, 0) = <<>>
    BY BytesEmpty
  <2>2. \A c \in Clients : got[c] = <<>> /\ outbound[c] = <<>> /\ sent[c] = 0
    BY <1>1
  <2> QED
    BY <1>4, <1>5, <2>1, <2>2 DEF Reads
<1>7. Flows /\ Leaves
  BY <1>1 DEF Flows, Leaves, Here, Running
<1>8. Turns
  <2>1. 0 <= Messages * Size
    BY EchoAssumption
  <2> QED
    BY <1>1, <2>1 DEF Turns
<1>9. ServesToTheEnd
  BY <1>1 DEF ServesToTheEnd
<1> QED
  BY <1>3, <1>6, <1>7, <1>8, <1>9 DEF Wire

\* The invariant of the connections and of the bytes on them.
THEOREM WireInvariance ==
  EchoSpec => [](EInv /\ Once /\ Accounted /\ Wire /\ ServesToTheEnd)
<1> DEFINE All == EInv /\ Once /\ Accounted /\ Wire /\ ServesToTheEnd
<1>1. EchoInit => All
  BY InitConnections, InitWire
<1>2. All /\ [EchoNext]_allVars => All'
  <2> SUFFICES ASSUME EInv, Once, Accounted, Wire, ServesToTheEnd, [EchoNext]_allVars
               PROVE  All'
    OBVIOUS
  <2>1. EInv' /\ Once' /\ Accounted'
    BY StepEcho
  <2>2. WireTypes'
    BY StepWireTypes DEF Wire
  <2>3. Reads' /\ Flows'
    BY <2>1, <2>2, StepStreams
  <2>4. Turns' /\ Leaves'
    BY <2>2, <2>3, StepTurns, StepLeaves
  <2> QED
    BY <2>1, <2>2, <2>3, <2>4, StepServes DEF Wire
<1> QED
  BY <1>1, <1>2, PTL DEF EchoSpec

\* The echo is exact, for any number of workers, clients, messages and bytes,
\* however sends and receives cut it: what a client has read, what is under way
\* to it, what the handler holds and what is under way to the server are its
\* bytes, in order (socket.h:126-157, echoServer.h:30-47, echoClient.h:42-49).
THEOREM EchoIsExact == EchoSpec => []EchoExact
<1>1. EInv /\ Once /\ Accounted /\ Wire => EchoExact
  <2> SUFFICES ASSUME EInv, Once, Accounted, Wire PROVE EchoExact
    OBVIOUS
  <2>i. TypeOK /\ Linked /\ WireTypes /\ Reads /\ Flows /\ Turns
    BY DEF EInv, IInv, Wire
  <2>1. EchoTypeOK
    <3>1. accepted = NoTask <=> apc # "hand"
      BY <2>i, PoolAssumption DEF Linked, Clients
    <3> QED
      BY <2>i, <3>1 DEF EchoTypeOK, Linked, WireTypes, Once
  <2>2. ASSUME NEW c \in Clients, NEW h \in Seq(Byte), Flow(c, h)
        PROVE  got[c] \o outbound[c] \o h \o inbound[c] = Bytes(c, 0, sent[c])
    <3> DEFINE g == Len(got[c])
               m == Mid(c)
               k == m + Len(h)
               p == sent[c]
    <3>1. /\ got[c] = Bytes(c, 0, g) /\ outbound[c] = Bytes(c, g, m)
          /\ h = Bytes(c, m, k) /\ inbound[c] = Bytes(c, k, p) /\ k + Len(inbound[c]) = p
      BY <2>2, <2>i DEF Reads, Flow
    <3>2. /\ g \in Nat /\ Len(outbound[c]) \in Nat /\ Len(h) \in Nat /\ Len(inbound[c]) \in Nat
          /\ p \in Nat
      BY <2>i, LenProperties DEF WireTypes
    <3>3. m \in Nat /\ g <= m
      BY <3>2, <2>i DEF Mid, WireTypes
    <3> HIDE DEF g, m
    <3>4. k \in Nat /\ m <= k /\ k <= p
      <4> DEFINE a == Len(h)
                 b == Len(inbound[c])
      <4>1. a \in Nat /\ b \in Nat /\ (m + a) + b = p
        BY <3>1, <3>2
      <4> HIDE DEF a, b, p
      <4>2. m + a \in Nat /\ m <= m + a /\ m + a <= p
        BY <3>3, <4>1
      <4> QED
        BY <4>2 DEF a
    <3> HIDE DEF k, p
    <3>5. Bytes(c, 0, g) \o Bytes(c, g, m) = Bytes(c, 0, m)
      <4>1. 0 \in Nat /\ 0 <= g
        BY <3>2
      <4> QED
        BY <4>1, <3>2, <3>3, BytesJoin
    <3>6. Bytes(c, 0, m) \o Bytes(c, m, k) = Bytes(c, 0, k)
      <4>1. 0 \in Nat /\ 0 <= m
        BY <3>3
      <4> QED
        BY <4>1, <3>3, <3>4, BytesJoin
    <3>7. Bytes(c, 0, k) \o Bytes(c, k, p) = Bytes(c, 0, p)
      <4>1. 0 \in Nat /\ 0 <= k
        BY <3>4
      <4> QED
        BY <4>1, <3>2, <3>4, BytesJoin
    <3> QED
      BY <3>1, <3>5, <3>6, <3>7 DEF p
  <2>3. ASSUME NEW c \in Clients, Here(c), Peer(c)
        PROVE  LET held == IF \E w \in Running : task[w] = c
                             THEN buffer[CHOOSE w \in Running : task[w] = c] ELSE <<>>
               IN  got[c] \o outbound[c] \o held \o inbound[c] = Bytes(c, 0, sent[c])
    <3>1. CASE \E w \in Running : task[w] = c
      <4> DEFINE v == CHOOSE w \in Running : task[w] = c
      <4>1. v \in Running /\ task[v] = c
        BY <3>1
      <4> HIDE DEF v
      <4>2. buffer[v] \in Seq(Byte)
        BY <4>1, <2>i DEF WireTypes, Running
      <4>3. Flow(c, buffer[v])
        BY <2>3, <4>1, <2>i DEF Flows
      <4>4. got[c] \o outbound[c] \o buffer[v] \o inbound[c] = Bytes(c, 0, sent[c])
        BY <4>2, <4>3, <2>2
      <4> QED
        BY <3>1, <4>4 DEF v
    <3>2. CASE ~ \E w \in Running : task[w] = c
      <4>1. Flow(c, <<>>) /\ <<>> \in Seq(Byte)
        BY <2>3, <3>2, <2>i DEF Flows
      <4>2. got[c] \o outbound[c] \o <<>> \o inbound[c] = Bytes(c, 0, sent[c])
        BY <4>1, <2>2
      <4> QED
        BY <3>2, <4>2
    <3> QED
      BY <3>1, <3>2
  <2> QED
    BY <2>1, <2>3, <2>i DEF EchoExact, Reads, Turns
<1> QED
  BY <1>1, WireInvariance, PTL

\* A handler serves its client to the end: it closes a connection while the
\* server runs only when the client is gone, and only a client that was killed
\* turns an echo into a SIGPIPE (echoServer.h:31-47).
THEOREM Serves == EchoSpec => []ServesToTheEnd
  BY WireInvariance, PTL
=============================================================================
