----------------------------- MODULE EchoServer -----------------------------
(* net/echoServer.h, echoClient.h and socket.h (copies in net/main2.cpp): an  *)
(* echo server whose acceptor, the thread that calls start, hands each        *)
(* connection to ThreadPool, and clients that send messages and wait for      *)
(* their echo.  A task of the pool is a connection: the closure holds its     *)
(* Socket.  A connection has the name of its client.  Every step of the pool  *)
(* is taken together with what the server does in it.  The kernel is          *)
(* external: a TCP connection is two FIFO queues of bytes, a byte is          *)
(* <<client, position>>, and recv and send may move any part of what is asked.*)
EXTENDS Integers, ThreadPool, SequencesExt

CONSTANTS
  Messages,   \* messages each client sends (run_client_test: three)
  Size,       \* bytes of a message, less than the client's buffer
  RecvMax,    \* bytes one recv of the server takes at most (1023)
  Mortal      \* the clients that may be killed or fall silent: a bound

ASSUME EchoAssumption ==
  /\ Messages \in Nat \ {0} /\ Size \in Nat \ {0}
  /\ RecvMax \in Nat \ {0}
  /\ Mortal \subseteq Tasks

VARIABLES
  running_,    \* std::atomic<bool>
  fd,          \* the descriptor in server_socket_: none, made, listens
  apc,         \* the acceptor: create, listen, store, test, accept, hand, queue,
               \* closing
  accepted,    \* the connection it has not handed over yet
  stopper,     \* another thread in stop(): idle, half (running_ stored), done
  backlog,     \* connections the kernel made and accept has not returned
  hpc,         \* each worker in handle_client: off, test, recv, send, end
  buffer,      \* what it received and has still to send
  active_connections_,
  open,        \* connections whose server-side descriptor is open
  up,          \* the server's process lives
  cpc,         \* each client: out, send, recv, left, killed
  sent,        \* bytes it has sent
  got,         \* bytes it has received
  inbound,     \* bytes on their way to the server
  outbound     \* bytes on their way to the client

stopVars == <<running_, fd, stopper>>
acceptVars == <<apc, accepted>>
handlerVars == <<hpc, buffer, active_connections_>>
kernelVars == <<backlog, open, up>>
callerVars == <<cpc, sent, got>>
wire == <<inbound, outbound>>
clientVars == <<callerVars, wire>>
serverVars == <<stopVars, acceptVars, handlerVars, kernelVars>>
allVars == <<vars, serverVars, clientVars>>

Clients == Tasks
Here(c) == cpc[c] \in {"send", "recv"}
Peer(c) == c \in open \/ c \in ToSet(backlog)
Listening == up /\ (fd = "listens" \/ apc = "accept")
Bytes(c, m, n) == [i \in 1 .. n - m |-> <<c, m + i>>]
Dropped(s, n) == SubSeq(s, n + 1, Len(s))
Taken(s, n) == SubSeq(s, 1, n)

\* start is about to be called, once, as run_server does.
EchoInit ==
  /\ Init
  /\ running_ = FALSE /\ fd = "none" /\ apc = "create"
  /\ accepted = NoTask /\ stopper = "idle" /\ backlog = <<>>
  /\ hpc = [w \in Workers |-> "off"]
  /\ buffer = [w \in Workers |-> <<>>]
  /\ active_connections_ = 0 /\ open = {} /\ up = TRUE
  /\ cpc = [c \in Clients |-> "out"]
  /\ sent = [c \in Clients |-> 0]
  /\ got = [c \in Clients |-> <<>>]
  /\ inbound = [c \in Clients |-> <<>>]
  /\ outbound = [c \in Clients |-> <<>>]

-----------------------------------------------------------------------------
(* start: the socket, and the accept loop *)

Create ==
  /\ apc = "create"
  /\ \/ fd' = "made" /\ apc' = "listen"
     \/ fd' = fd /\ apc' = "closing"
  /\ UNCHANGED <<vars, running_, stopper, accepted, handlerVars, kernelVars, clientVars>>

\* bind and listen: each may fail, and does when stop has closed the descriptor.
Listen ==
  /\ apc = "listen"
  /\ \/ fd # "none" /\ fd' = "listens" /\ apc' = "store"
     \/ fd' = fd /\ apc' = "closing"
  /\ UNCHANGED <<vars, running_, stopper, accepted, handlerVars, kernelVars, clientVars>>

\* running_.store(true), whatever stop() stored there meanwhile.
Store ==
  /\ apc = "store"
  /\ running_' = TRUE /\ apc' = "test"
  /\ UNCHANGED <<vars, fd, stopper, accepted, handlerVars, kernelVars, clientVars>>

\* plausible bug: for (;;) in place of while (running_.load())
Mutant_AcceptTest ==
  /\ apc = "test"
  /\ apc' = IF fd # "none" THEN "accept" ELSE "test"
  /\ UNCHANGED <<vars, stopVars, accepted, handlerVars, kernelVars, clientVars>>

\* An accept on a closed Socket returns an invalid one at once: continue.
AcceptTest ==
  /\ apc = "test"
  /\ apc' = CASE ~running_                 -> "closing"
              [] running_ /\ fd # "none" -> "accept"
              [] OTHER                    -> "test"
  /\ UNCHANGED <<vars, stopVars, accepted, handlerVars, kernelVars, clientVars>>

\* The call in progress keeps the listening socket alive after another thread
\* closed its descriptor; when it returns, what is left of the backlog is reset.
Accept ==
  /\ apc = "accept" /\ backlog # <<>>
  /\ accepted' = Head(backlog)
  /\ open' = open \cup {Head(backlog)}
  /\ backlog' = IF fd # "none" THEN Tail(backlog) ELSE <<>>
  /\ apc' = "hand"
  /\ UNCHANGED <<vars, stopVars, handlerVars, up, clientVars>>

\* "Failed to accept connection": continue.
AcceptFails ==
  /\ apc = "accept"
  /\ backlog' = IF fd # "none" THEN backlog ELSE <<>>
  /\ apc' = "test"
  /\ UNCHANGED <<vars, stopVars, accepted, handlerVars, open, up, clientVars>>

\* enqueue of the closure that holds the connection: the pool's three steps.
Hand ==
  /\ apc = "hand" /\ EnqueueChecked(Owner, accepted)
  /\ apc' = "queue" /\ accepted' = NoTask
  /\ UNCHANGED <<stopVars, handlerVars, kernelVars, clientVars>>

HandPush == EnqueuePush(Owner) /\ UNCHANGED <<serverVars, clientVars>>

Handed ==
  /\ NotifyOne(Owner)
  /\ apc' = "test"
  /\ UNCHANGED <<stopVars, accepted, handlerVars, kernelVars, clientVars>>

-----------------------------------------------------------------------------
(* stop, by another thread and by ~EchoServer *)

StopStore ==
  /\ stopper = "idle" /\ apc # "closing"
  /\ running_' = FALSE /\ stopper' = "half"
  /\ UNCHANGED <<vars, fd, acceptVars, handlerVars, kernelVars, clientVars>>

\* close wakes nobody: accept and recv go on waiting.
StopClose ==
  /\ stopper = "half"
  /\ stopper' = "done" /\ fd' = "none"
  /\ backlog' = IF apc = "accept" THEN backlog ELSE <<>>
  /\ UNCHANGED <<vars, running_, acceptVars, handlerVars, open, up, clientVars>>

\* ~EchoServer: stop(), then the members die, thread_pool_ among them; the
\* thread that called stop() has returned from it.
Destroy ==
  /\ apc = "closing" /\ stopper # "half"
  /\ Dtor
  /\ fd' = "none" /\ backlog' = <<>> /\ running_' = FALSE
  /\ UNCHANGED <<stopper, acceptVars, handlerVars, open, up, clientVars>>

-----------------------------------------------------------------------------
(* handle_client, on a worker *)

HandlerStart(w) ==
  /\ TakeTask(w)
  /\ hpc' = [hpc EXCEPT ![w] = "test"]
  /\ active_connections_' = active_connections_ + 1
  /\ UNCHANGED <<stopVars, acceptVars, buffer, kernelVars, clientVars>>

HandlerGoes(w, pc) ==
  /\ hpc' = [hpc EXCEPT ![w] = pc]
  /\ UNCHANGED <<vars, stopVars, acceptVars, active_connections_, backlog, open,
                 callerVars>>

HandlerTest(w) ==
  /\ hpc[w] = "test"
  /\ HandlerGoes(w, IF running_ THEN "recv" ELSE "end")
  /\ UNCHANGED <<buffer, up, wire>>

Recv(w) ==
  LET c == task[w]
  IN  /\ hpc[w] = "recv"
      /\ \E n \in 1 .. Len(inbound[c]) :
           /\ n <= RecvMax
           /\ buffer' = [buffer EXCEPT ![w] = Taken(inbound[c], n)]
           /\ inbound' = [inbound EXCEPT ![c] = Dropped(@, n)]
      /\ HandlerGoes(w, "send")
      /\ UNCHANGED <<up, outbound>>

\* plausible bug: bytes_received < 0, so that end of stream is an empty message
Mutant_RecvEnds(w) ==
  /\ hpc[w] = "recv"
  /\ inbound[task[w]] = <<>> /\ ~Here(task[w])
  /\ HandlerGoes(w, "test")
  /\ UNCHANGED <<buffer, up, wire>>

RecvEnds(w) ==
  /\ hpc[w] = "recv"
  /\ inbound[task[w]] = <<>> /\ ~Here(task[w])
  /\ HandlerGoes(w, "end")
  /\ UNCHANGED <<buffer, up, wire>>

\* plausible bug: one send in place of send_all, a short count is a failure
Mutant_Send_once(w) ==
  LET c == task[w]
  IN  /\ hpc[w] = "send" /\ Here(c)
      /\ \E n \in 1 .. Len(buffer[w]) :
           /\ outbound' = [outbound EXCEPT ![c] = @ \o Taken(buffer[w], n)]
           /\ buffer' = [buffer EXCEPT ![w] = <<>>]
           /\ HandlerGoes(w, IF n = Len(buffer[w]) THEN "test" ELSE "end")
      /\ UNCHANGED <<up, inbound>>

\* One send of send_all, whole or partial.
Send(w) ==
  LET c == task[w]
  IN  /\ hpc[w] = "send" /\ Here(c)
      /\ \E n \in 1 .. Len(buffer[w]) :
           /\ outbound' = [outbound EXCEPT ![c] = @ \o Taken(buffer[w], n)]
           /\ buffer' = [buffer EXCEPT ![w] = Dropped(@, n)]
      /\ HandlerGoes(w, IF buffer'[w] = <<>> THEN "test" ELSE "send")
      /\ UNCHANGED <<up, inbound>>

\* The client is gone: the bytes are lost, or send_all returns -1.
SendGone(w) ==
  /\ hpc[w] = "send" /\ ~Here(task[w])
  /\ buffer' = [buffer EXCEPT ![w] = <<>>]
  /\ \E pc \in {"test", "end"} : HandlerGoes(w, pc)
  /\ UNCHANGED <<up, wire>>

\* ... or send raises SIGPIPE, which nobody handles or blocks.
SigPipe(w) ==
  /\ hpc[w] = "send" /\ ~Here(task[w])
  /\ up' = FALSE /\ open' = {} /\ backlog' = <<>>
  /\ UNCHANGED <<vars, stopVars, acceptVars, handlerVars, clientVars>>

\* plausible bug: no guard, the counter is not taken back on this path
Mutant_HandlerEnd(w) ==
  /\ hpc[w] = "end" /\ Finish(w)
  /\ hpc' = [hpc EXCEPT ![w] = "off"]
  /\ open' = open \ {task[w]}
  /\ \/ outbound' = outbound
     \/ inbound[task[w]] # <<>> /\ outbound' = [outbound EXCEPT ![task[w]] = <<>>]
  /\ UNCHANGED <<stopVars, acceptVars, buffer, active_connections_, backlog, up,
                 callerVars, inbound>>

\* The guard and the Socket are destroyed.  Closing with bytes unread resets
\* the connection, and the client may lose what it had not read.
HandlerEnd(w) ==
  /\ hpc[w] = "end" /\ Finish(w)
  /\ hpc' = [hpc EXCEPT ![w] = "off"]
  /\ active_connections_' = active_connections_ - 1
  /\ open' = open \ {task[w]}
  /\ \/ outbound' = outbound
     \/ inbound[task[w]] # <<>> /\ outbound' = [outbound EXCEPT ![task[w]] = <<>>]
  /\ UNCHANGED <<stopVars, acceptVars, buffer, backlog, up,
                 callerVars, inbound>>

Idle(w) ==
  /\ ExitWorker(w) \/ FindNothing(w) \/ Park(w)
  /\ UNCHANGED <<serverVars, clientVars>>

Wake(w) == SpuriousWake(w) /\ UNCHANGED <<serverVars, clientVars>>

-----------------------------------------------------------------------------
(* The client *)

\* The kernel completes the connection before accept returns it; with no
\* listening socket it is refused.
Connect(c) ==
  /\ cpc[c] = "out"
  /\ cpc' = [cpc EXCEPT ![c] = IF Listening THEN "send" ELSE "left"]
  /\ backlog' = IF Listening THEN Append(backlog, c) ELSE backlog
  /\ UNCHANGED <<vars, stopVars, acceptVars, handlerVars, open, up, sent, got,
                 wire>>

\* A send of send_message's send_all; bytes for a closed connection are lost.
ClientSend(c) ==
  /\ cpc[c] = "send"
  /\ \E n \in 1 .. Size - (sent[c] % Size) :
       /\ sent' = [sent EXCEPT ![c] = @ + n]
       /\ inbound' = IF Peer(c)
                       THEN [inbound EXCEPT ![c] = @ \o Bytes(c, sent[c], sent[c] + n)]
                       ELSE inbound
  /\ cpc' = IF sent'[c] % Size = 0 THEN [cpc EXCEPT ![c] = "recv"] ELSE cpc
  /\ UNCHANGED <<vars, serverVars, got, outbound>>

\* plausible bug: one recv in place of recv_all
Mutant_ClientRecv(c) ==
  /\ cpc[c] = "recv"
  /\ \E n \in 1 .. Len(outbound[c]) :
       /\ got' = [got EXCEPT ![c] = @ \o Taken(outbound[c], n)]
       /\ outbound' = [outbound EXCEPT ![c] = Dropped(@, n)]
  /\ cpc' = [cpc EXCEPT ![c] = IF sent[c] = Messages * Size THEN "left" ELSE "send"]
  /\ UNCHANGED <<vars, serverVars, sent, inbound>>

\* A recv of recv_all; after the last message the client is destroyed.
ClientRecv(c) ==
  /\ cpc[c] = "recv"
  /\ \E n \in 1 .. Len(outbound[c]) :
       /\ got' = [got EXCEPT ![c] = @ \o Taken(outbound[c], n)]
       /\ outbound' = [outbound EXCEPT ![c] = Dropped(@, n)]
  /\ cpc' = [cpc EXCEPT ![c] = CASE Len(got'[c]) < sent[c] -> "recv"
                                 [] Len(got'[c]) = Messages * Size -> "left"
                                 [] OTHER -> "send"]
  /\ UNCHANGED <<vars, serverVars, sent, inbound>>

\* The server closed: send fails or recv returns 0 or less, as do all later
\* calls of run_client_test, and the client is destroyed.
ClientFails(c) ==
  /\ Here(c) /\ ~Peer(c)
  /\ cpc[c] = "recv" => outbound[c] = <<>>
  /\ cpc' = [cpc EXCEPT ![c] = "left"]
  /\ UNCHANGED <<vars, serverVars, sent, got, wire>>

\* The client's process dies; a reset may overtake the bytes it had sent.
ClientKilled(c) ==
  /\ Here(c) /\ c \in Mortal
  /\ cpc' = [cpc EXCEPT ![c] = "killed"]
  /\ inbound' \in {inbound, [inbound EXCEPT ![c] = <<>>]}
  /\ outbound' = [outbound EXCEPT ![c] = <<>>]
  /\ UNCHANGED <<vars, serverVars, sent, got>>

-----------------------------------------------------------------------------
Acceptor == up /\ (\/ Create \/ Listen \/ Store
                   \/ AcceptTest \/ Accept \/ Hand \/ HandPush \/ Handed)
Stop     == up /\ StopClose
Closing  == up /\ Destroy
Handler(w) ==
  up /\ (\/ HandlerStart(w) \/ HandlerTest(w) \/ Recv(w) \/ RecvEnds(w)
         \/ Send(w) \/ SendGone(w) \/ HandlerEnd(w) \/ Idle(w))
Client(c) == Connect(c) \/ ClientSend(c) \/ ClientRecv(c) \/ ClientFails(c)

EchoNext ==
  \/ Acceptor \/ Stop \/ Closing
  \/ up /\ (AcceptFails \/ StopStore)
  \/ \E w \in Workers : Handler(w) \/ (up /\ (SigPipe(w) \/ Wake(w)))
  \/ \E c \in Clients : Client(c) \/ ClientKilled(c)

EchoSpec == EchoInit /\ [][EchoNext]_allVars

\* Every thread is scheduled; a client goes on with its messages, as
\* run_client_test does, unless it may fall silent; accept fails and wakeups are
\* spurious only so often.
EchoFairness ==
  /\ WF_allVars(Acceptor) /\ WF_allVars(Stop) /\ WF_allVars(Closing)
  /\ \A w \in Workers : WF_allVars(Handler(w))
  /\ \A c \in Clients \ Mortal : WF_allVars(Client(c))
  /\ <>[][~AcceptFails /\ \A w \in Workers : ~Wake(w)]_allVars

EchoFairSpec == EchoSpec /\ EchoFairness

-----------------------------------------------------------------------------
EchoTypeOK ==
  /\ TypeOK
  /\ running_ \in BOOLEAN /\ fd \in {"none", "made", "listens"} /\ up \in BOOLEAN
  /\ apc \in {"create", "listen", "store", "test", "accept", "hand", "queue", "closing"}
  /\ accepted = NoTask <=> apc # "hand"
  /\ stopper \in {"idle", "half", "done"}
  /\ \A w \in Workers : /\ hpc[w] \in {"off", "test", "recv", "send", "end"}
                        /\ hpc[w] = "off" <=> wpc[w] # "run"
                        /\ hpc[w] = "send" <=> buffer[w] # <<>>
  /\ \A c \in Clients : cpc[c] \in {"out", "send", "recv", "left", "killed"}

Queued == {tasks[i] : i \in DOMAIN tasks}
AtAcceptor == {accepted, earg[Owner]} \ {NoTask}

\* While the server lives, a descriptor it accepted is in one place: the
\* acceptor's local or its enqueue call, the pool's queue, or a worker's
\* handle_client; in no other place is it left open (echoServer.h:91-104,
\* :17).  active_connections_ is the number of handlers, and a destroyed
\* server has neither.
ConnectionsAccounted ==
  up =>
    /\ open = AtAcceptor \cup Queued \cup {task[w] : w \in Running}
    /\ AtAcceptor \cap (Queued \cup {task[w] : w \in Running}) = {}
    /\ active_connections_ = Cardinality(Running)
    /\ Workers # {} /\ dpc = "dead" => open = {} /\ active_connections_ = 0

\* The state keeps its types, and the echo is exact: what a client has read,
\* what is under way to it, what the handler holds and what is under way to
\* the server are together the bytes it sent, in order, its own and none twice,
\* whatever partial sends and receives cut them into (socket.h:126-157,
\* echoServer.h:30-47); and send_message never takes the echo of one message
\* for that of another (echoClient.h:42-49).
EchoExact ==
  EchoTypeOK /\ \A c \in Clients :
    /\ got[c] = Bytes(c, 0, Len(got[c]))
    /\ Here(c) /\ Peer(c) =>
         LET held == IF \E w \in Running : task[w] = c
                       THEN buffer[CHOOSE w \in Running : task[w] = c] ELSE <<>>
         IN  got[c] \o outbound[c] \o held \o inbound[c] = Bytes(c, 0, sent[c])
    /\ cpc[c] = "send" => Len(got[c]) = (sent[c] \div Size) * Size

\* A handler that ends while the server runs has nothing left to echo: it
\* closes a connection only when its client is gone (echoServer.h:31-47).  A
\* client that leaves of its own accord, even after stop(), never turns the
\* echo into a SIGPIPE: that takes one that died (echoServer.h:43).
ServesToTheEnd ==
  /\ \A w \in Workers : hpc[w] = "end" /\ running_ => ~Here(task[w])
  /\ ~up => \E c \in Clients : cpc[c] = "killed"

\* As long as nobody stops the server and no client dies or falls silent, every
\* client that connects gets the whole echo of every message and leaves, however
\* few the workers: a worker is bound to a connection until its client leaves
\* (echoServer.h:31), and these clients leave.
ClientsServed ==
  /\ [](stopper = "idle" /\ \A c \in Clients : cpc[c] # "killed")
  /\ \A c \in Mortal : WF_allVars(Client(c))
  => \A c \in Clients :
       cpc[c] = "send" ~> cpc[c] = "left" /\ Len(got[c]) = Messages * Size

\* A stop() at any time, or a start that failed, ends the server, unless the
\* acceptor stays in accept, which the close of the descriptor does not wake
\* (echoServer.h:90-91, :113-116); or start, which stores running_ last, stores
\* it over that of the stop() (:86), and then tries the closed socket for ever;
\* or a handler stays in recv with a client that is silent, so that the pool's
\* destructor waits (:31-32); or a SIGPIPE kills it, or that destructor misses a
\* worker on its way to sleep (threadpool.h:29-31).
EndsUnlessInAccept ==
  []up /\ [](dpc = "notify" => \A w \in Workers : wpc[w] # "park") =>
    (<>(stopper # "idle" \/ apc = "closing") =>
       \/ <>(dpc = "dead")
       \/ <>[](apc = "accept")
       \/ <>[](running_ /\ fd = "none")
       \/ <>[](\E w \in Workers : hpc[w] = "recv" /\ Here(task[w])))
=============================================================================
