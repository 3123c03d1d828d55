---------------------------- MODULE FileService -----------------------------
(***************************************************************************)
(* grpc/fileserver: clients that upload, download, list and delete files   *)
(* in 64 KB chunks over streams, and the server's handlers, all calls at   *)
(* the same time.  A file is a sequence of chunks, of which the last may   *)
(* be short: that is what the reading side sees as the end of the file,    *)
(* so a file of whole chunks has no chunk marked is_last.                  *)
(*                                                                         *)
(* A stream delivers in order until the connection breaks; it holds        *)
(* Window messages, then Write blocks.  Each end hears of the break in its *)
(* own time.  Every handler has its own ofstream or ifstream, with its own *)
(* position in the file it opened.                                         *)
(***************************************************************************)
EXTENDS Naturals, Sequences, FiniteSets

CONSTANTS
  Calls,    \* calls of the service, one client process each
  Names,    \* file names
  NoCall,   \* nobody
  Fragile,  \* calls whose connection may break
  MaxLen,   \* bound: chunks in an uploaded file
  Window    \* bound: messages a stream holds

ASSUME ServiceAssumption ==
  /\ NoCall \notin Calls \cup Names /\ Calls \cap Names = {}
  /\ Fragile \subseteq Calls
  /\ MaxLen \in Nat /\ Window \in Nat \ {0}

VARIABLES
  call,      \* each call: its arguments, both its ends and the stream between
  dir,       \* the server's directory: the file a name stands for, or NoCall
  data,      \* the content of each file, known by the upload that made it,
             \* or by its name if it was there before
  disturbed  \* history: calls whose file another call opened or deleted

vars == <<call, dir, data, disturbed>>

\* Of a call: sent chunks have been written, of which the last was a short one
\* (tail) or not, and the local file has more or not; cut once the connection
\* is broken, and told, the running ends that know; bad, an ofstream that
\* failed (the handler's of an upload, the client's of a download); torn,
\* history: the handler could not read its file, or the directory, to the end.
Idle == [kind |-> "none", name |-> NoCall, cpc |-> "idle", spc |-> "none",
         more |-> FALSE, sent |-> 0, tail |-> FALSE, up |-> <<>>, half |-> FALSE,
         cut |-> FALSE, told |-> {}, file |-> NoCall, pos |-> 0, bad |-> FALSE,
         torn |-> FALSE, down |-> <<>>, got |-> <<>>, todo |-> {}, status |-> "none",
         success |-> FALSE, size |-> 0, result |-> "none", snap |-> <<>>]

\* The k-th chunk of what c uploads; bytes of several uploads, or none.
Chunk(c, k, short) == [by |-> c, no |-> k, short |-> short]
Garbled(short) == Chunk(NoCall, 0, short)
\* What c has sent of its local file: all it could read, if no Write failed.
Local(c) == [k \in 1..call[c].sent |-> Chunk(c, k, call[c].tail /\ k = call[c].sent)]

\* A file that is there when the server starts.
Old(n) == <<Chunk(n, 1, FALSE), Chunk(n, 2, TRUE)>>

Init ==
  /\ call = [c \in Calls |-> Idle]
  /\ \E there \in SUBSET Names : dir = [n \in Names |-> IF n \in there THEN n ELSE NoCall]
  /\ data = [f \in Calls \cup Names |-> IF f \in Names THEN Old(f) ELSE <<>>]
  /\ disturbed = {}

\* What a write at position p makes of s: what lies before p and was never
\* written reads as zeros, a short chunk covers part of what is there.
Written(s, p, x) ==
  [k \in 1..(IF p < Len(s) THEN Len(s) ELSE p + 1) |->
     IF k = p + 1 THEN IF x.short /\ k <= Len(s) THEN Garbled(s[k].short) ELSE x
     ELSE IF k > Len(s) THEN Garbled(FALSE)
     ELSE IF s[k].short /\ p >= Len(s) THEN Garbled(FALSE) ELSE s[k]]

Files == UNCHANGED <<dir, data, disturbed>>
Is(c, kind, end, pc) == call[c].kind = kind /\ call[c][end] = pc
\* Handlers of uploads that write to what name n stands for, or stood for.
Writers(n) == {c \in Calls : Is(c, "upload", "spc", "copy") /\ call[c].name = n}
\* Calls that have opened a file called n.
Users(n) == {c \in Calls : call[c].name = n /\ call[c].file # NoCall}

\* The handler of r returns a status and a response, both lost if the connection
\* is broken; its locals are gone, and so is what it did not read.
Return(r, status, success) ==
  [r EXCEPT !.spc = "done", !.status = IF r.cut THEN "none" ELSE status,
            !.success = success /\ ~r.cut, !.size = IF r.cut THEN 0 ELSE @,
            !.up = <<>>, !.half = FALSE, !.pos = 0, !.told = @ \ {"server"}]

\* The client's function returns b.
Ends(r, b) ==
  [r EXCEPT !.cpc = "done", !.result = IF b THEN "true" ELSE "false",
            !.more = FALSE, !.sent = IF b THEN @ ELSE 0, !.tail = b /\ @,
            !.got = IF b THEN @ ELSE <<>>, !.snap = IF b THEN @ ELSE <<>>,
            !.told = @ \ {"client"}]

Knows(c, end) == end \in call[c].told

\* A call may meet a broken connection, which drops the end of a stream and
\* what was to come after it, the half-close or the response.  (One that is lost
\* alone is one that was sent after the break.)
Cut(c) ==
  /\ c \in Fragile /\ call[c].cpc \notin {"idle", "done"} /\ ~call[c].cut
  /\ \E m \in 0..Len(call[c].up), n \in 0..Len(call[c].down) :
       LET r == [call[c] EXCEPT !.cut = TRUE, !.up = SubSeq(@, 1, m), !.down = SubSeq(@, 1, n),
                                !.half = @ /\ m = Len(call[c].up)]
       IN  call' = [call EXCEPT ![c] =
                     IF n < Len(call[c].down) THEN [r EXCEPT !.status = "none"] ELSE r]
  /\ Files

\* An end hears that the connection is broken: its blocked Read or Write
\* returns false, Finish says UNAVAILABLE.
Learn(c, end) ==
  /\ call[c].cut /\ ~Knows(c, end)
  /\ call[c][IF end = "client" THEN "cpc" ELSE "spc"] # "done"
  /\ call' = [call EXCEPT ![c].told = @ \cup {end}]
  /\ Files

\* reader or writer->Finish(), or the end of a unary call: the server's
\* status, or UNAVAILABLE.  Only DeleteFile looks at response.success().
Finish(c) ==
  /\ call[c].cpc = "finish"
  /\ \/ /\ call[c].status # "none"
        /\ call' = [call EXCEPT ![c] =
             Ends(@, @.status = "OK" /\ (@.kind = "delete" => @.success))]
     \/ /\ Knows(c, "client")
        /\ call' = [call EXCEPT ![c] = Ends(@, FALSE)]
  /\ Files

-----------------------------------------------------------------------------
(* UploadFile, the client *)

\* The local file may be empty.
UploadStart(c, n) ==
  /\ call[c].cpc = "idle"
  /\ \E more \in {FALSE, MaxLen > 0} :
       call' = [call EXCEPT ![c].kind = "upload", ![c].name = n, ![c].more = more,
                            ![c].cpc = "write", ![c].spc = "open"]
  /\ Files

\* One round of the loop: the next chunk is a whole one, or the short last one,
\* marked is_last; what lies behind a whole one is more, or the end of the file,
\* or nothing that can be read.  Write blocks while the stream is full.  After a
\* break the client has not heard of, the rest of the file goes nowhere.
UploadWrite(c) ==
  LET r == call[c]
      k == r.sent + 1
  IN  /\ Is(c, "upload", "cpc", "write")
      /\ r.more
      /\ ~Knows(c, "client") /\ r.status = "none" /\ Len(r.up) < Window
      /\ \/ /\ ~r.cut
            /\ \E short \in BOOLEAN, more \in {FALSE, k < MaxLen} :
                 /\ ~(short /\ more)
                 /\ call' = [call EXCEPT ![c].sent = k, ![c].tail = short, ![c].more = more,
                                         ![c].up = Append(@, Chunk(c, k, short))]
         \/ /\ r.cut
            /\ call' = [call EXCEPT ![c].more = FALSE]
      /\ Files

Mutant_UploadWritesDone(c) ==
  /\ Is(c, "upload", "cpc", "write")
  /\ ~call[c].more \/ Knows(c, "client") \/ call[c].status # "none"
  /\ call' = [call EXCEPT ![c].cpc = "finish"]
  /\ Files

\* The file is at its end, or Write returned false, as the connection is broken
\* or the handler has returned: WritesDone.
UploadWritesDone(c) ==
  /\ Is(c, "upload", "cpc", "write")
  /\ ~call[c].more \/ Knows(c, "client") \/ call[c].status # "none"
  /\ call' = [call EXCEPT ![c].cpc = "finish", ![c].half = ~call[c].cut /\ call[c].spc # "done"]
  /\ Files

-----------------------------------------------------------------------------
(* UploadFile, the handler *)

\* The first chunk has arrived and its name cannot be opened: success is
\* false, the status is OK.
UploadOpenFails(c) ==
  /\ Is(c, "upload", "spc", "open")
  /\ call[c].up # <<>>
  /\ call' = [call EXCEPT ![c] = Return(@, "OK", FALSE)]
  /\ Files

Mutant_UploadOpen(c) ==
  LET n == call[c].name
      f == IF dir[n] = NoCall THEN c ELSE dir[n]
  IN  /\ Is(c, "upload", "spc", "open")
      /\ call[c].up # <<>>
      /\ dir' = [dir EXCEPT ![n] = f]
      /\ disturbed' = disturbed \cup (Users(n) \ {c})
                      \cup (IF Writers(n) # {} THEN {c} ELSE {})
      /\ call' = [call EXCEPT ![c].spc = "copy", ![c].file = f]
      /\ UNCHANGED data

\* ofstream::open truncates the file of that name, or makes one.
UploadOpen(c) ==
  LET n == call[c].name
      f == IF dir[n] = NoCall THEN c ELSE dir[n]
  IN  /\ Is(c, "upload", "spc", "open")
      /\ call[c].up # <<>>
      /\ dir' = [dir EXCEPT ![n] = f]
      /\ data' = [data EXCEPT ![f] = <<>>]
      /\ disturbed' = disturbed \cup (Users(n) \ {c})
                      \cup (IF Writers(n) # {} THEN {c} ELSE {})
      /\ call' = [call EXCEPT ![c].spc = "copy", ![c].file = f]

\* output_file.write, whose failure nobody looks at: the stream is bad from
\* then on and the size still grows.  A chunk marked is_last ends the loop.
UploadChunk(c) ==
  /\ Is(c, "upload", "spc", "copy")
  /\ call[c].up # <<>>
  /\ LET x == Head(call[c].up)
         r == [call[c] EXCEPT !.up = Tail(@), !.size = @ + 1]
     IN  \E ok \in {FALSE, ~call[c].bad} :
           LET q == IF ok THEN [r EXCEPT !.pos = @ + 1] ELSE [r EXCEPT !.bad = TRUE]
           IN  /\ data' = IF ok THEN [data EXCEPT ![r.file] = Written(@, r.pos, x)] ELSE data
               /\ call' = [call EXCEPT ![c] = IF x.short THEN Return(q, "OK", TRUE) ELSE q]
  /\ UNCHANGED <<dir, disturbed>>

\* Read returned false: the client is done, or the connection is gone.
UploadEnd(c) ==
  /\ call[c].kind = "upload" /\ call[c].spc \in {"open", "copy"}
  /\ call[c].up = <<>>
  /\ call[c].half \/ Knows(c, "server")
  /\ call' = [call EXCEPT ![c] = Return(@, "OK", TRUE)]
  /\ Files

-----------------------------------------------------------------------------
(* DownloadFile *)

\* The client sends the request and opens its output file, which destroys
\* what it held before; if that fails it abandons the call.
DownloadStart(c, n) ==
  /\ call[c].cpc = "idle"
  /\ \/ call' = [call EXCEPT ![c].kind = "download", ![c].name = n, ![c].cpc = "read",
                             ![c].spc = "open", ![c].half = TRUE]
     \/ call' = [call EXCEPT ![c].kind = "download", ![c].name = n, ![c].cpc = "done",
                             ![c].spc = "open", ![c].cut = TRUE, ![c].result = "false"]
  /\ Files

\* No such file; or a file that is gone again after fs::exists, or cannot
\* be read; or an open ifstream at its beginning.
DownloadOpen(c) ==
  LET f == dir[call[c].name]
  IN  /\ Is(c, "download", "spc", "open")
      /\ \/ /\ call' = [call EXCEPT ![c] =
                Return(@, IF f = NoCall THEN "NOT_FOUND" ELSE "INTERNAL", FALSE)]
            /\ UNCHANGED disturbed
         \/ /\ f # NoCall
            /\ call' = [call EXCEPT ![c].spc = "copy", ![c].file = f, ![c].snap = data[f]]
            /\ disturbed' = IF Writers(call[c].name) = {} THEN disturbed ELSE disturbed \cup {c}
      /\ UNCHANGED <<dir, data>>

\* One round of the loop: a short chunk was read up to the end of the file.
DownloadChunk(c) ==
  LET s == data[call[c].file]
  IN  /\ Is(c, "download", "spc", "copy") /\ ~Knows(c, "server")
      /\ call[c].pos < Len(s) /\ Len(call[c].down) < Window
      /\ LET x == s[call[c].pos + 1]
             r == [call[c] EXCEPT !.pos = @ + 1,
                                  !.down = IF call[c].cut THEN @ ELSE Append(@, x)]
         IN  call' = [call EXCEPT ![c] = IF x.short THEN Return(r, "OK", TRUE) ELSE r]
      /\ Files

\* Nothing more to read, a read that failed, which leaves the loop without a
\* chunk, or Write returned false: the status is OK all the same.
DownloadEnd(c) ==
  /\ Is(c, "download", "spc", "copy")
  /\ \/ /\ Knows(c, "server") \/ call[c].pos >= Len(data[call[c].file])
        /\ call' = [call EXCEPT ![c] = Return(@, "OK", TRUE)]
     \/ /\ call[c].pos < Len(data[call[c].file])
        /\ call' = [call EXCEPT ![c] = Return([@ EXCEPT !.torn = TRUE], "OK", TRUE)]
  /\ Files

Mutant_DownloadRead(c) ==
  LET r == call[c]
  IN  /\ Is(c, "download", "cpc", "read")
      /\ \/ /\ r.down # <<>>
            /\ call' = [call EXCEPT ![c].got = Append(@, Head(r.down)),
                                    ![c].down = Tail(@), ![c].cpc = "finish"]
         \/ /\ r.down = <<>>
            /\ r.status # "none" \/ Knows(c, "client")
            /\ call' = [call EXCEPT ![c].cpc = "finish"]
      /\ Files

\* The client writes what it reads to its file, up to is_last or the end of the
\* stream.  Nobody looks whether that fails: the ofstream is bad from then on.
\* A close that fails loses the last chunk, as the write of it would have.
DownloadRead(c) ==
  LET r == call[c]
  IN  /\ Is(c, "download", "cpc", "read")
      /\ \/ /\ r.down # <<>>
            /\ \E ok \in {FALSE, ~r.bad} :
                 LET x == Head(r.down)
                 IN  call' = [call EXCEPT ![c].got = IF ok THEN Append(@, x) ELSE @,
                                          ![c].bad = ~ok, ![c].down = Tail(@),
                                          ![c].cpc = IF x.short THEN "finish" ELSE "read"]
         \/ /\ r.down = <<>>
            /\ r.status # "none" \/ Knows(c, "client")
            /\ call' = [call EXCEPT ![c].cpc = "finish"]
      /\ Files

-----------------------------------------------------------------------------
(* DeleteFile and ListFiles *)

DeleteStart(c, n) ==
  /\ call[c].cpc = "idle"
  /\ call' = [call EXCEPT ![c].kind = "delete", ![c].name = n,
                          ![c].cpc = "finish", ![c].spc = "remove"]
  /\ Files

\* fs::remove: whether there was such a file, or a filesystem_error.
DeleteFile(c) ==
  LET n == call[c].name
  IN  /\ Is(c, "delete", "spc", "remove")
      /\ \/ /\ dir' = [dir EXCEPT ![n] = NoCall]
            /\ call' = [call EXCEPT ![c] = Return(@, "OK", dir[n] # NoCall)]
            /\ disturbed' = disturbed \cup Users(n)
                            \cup {d \in Calls : call[d].kind = "list" /\ dir[n] # NoCall}
         \/ call' = [call EXCEPT ![c] = Return(@, "OK", FALSE)] /\ UNCHANGED <<dir, disturbed>>
      /\ UNCHANGED data

ListStart(c) ==
  /\ call[c].cpc = "idle"
  /\ call' = [call EXCEPT ![c].kind = "list", ![c].cpc = "finish",
                          ![c].spc = "list", ![c].todo = Names]
  /\ Files

\* The directory cannot be opened or read on, or an entry cannot be looked at:
\* what is thrown is caught as "Directory not found".
ListFails(c) ==
  /\ call[c].kind = "list" /\ call[c].spc \in {"list", "stat"}
  /\ call' = [call EXCEPT ![c] = Return([@ EXCEPT !.torn = TRUE], "NOT_FOUND", FALSE)]
  /\ Files

\* The iterator yields an entry that is there when it gets to it.
ListEntry(c, n) ==
  /\ Is(c, "list", "spc", "list")
  /\ n \in call[c].todo
  /\ call' = [call EXCEPT ![c].todo = @ \ {n}, ![c].name = n,
                          ![c].spc = IF dir[n] = NoCall THEN "list" ELSE "stat"]
  /\ Files

\* file_size of an entry that is gone throws, and the whole answer is lost:
\* "Directory not found".
ListStat(c) ==
  LET r == call[c]
  IN  /\ Is(c, "list", "spc", "stat")
      /\ call' = [call EXCEPT ![c] = IF dir[r.name] = NoCall THEN Return(r, "NOT_FOUND", FALSE)
                                     ELSE [r EXCEPT !.spc = "list", !.size = r.size + 1]]
      /\ Files

Mutant_ListEnd(c) ==
  /\ Is(c, "list", "spc", "list")
  /\ call[c].todo = {}
  /\ call' = [call EXCEPT ![c] = Return(@, IF @.size = 0 THEN "NOT_FOUND" ELSE "OK", TRUE)]
  /\ Files

ListEnd(c) ==
  /\ Is(c, "list", "spc", "list")
  /\ call[c].todo = {}
  /\ call' = [call EXCEPT ![c] = Return(@, "OK", TRUE)]
  /\ Files

-----------------------------------------------------------------------------
Client(c) == UploadWrite(c) \/ UploadWritesDone(c) \/ DownloadRead(c) \/ Finish(c)

Handler(c) ==
  \/ UploadOpen(c) \/ UploadOpenFails(c) \/ UploadChunk(c) \/ UploadEnd(c)
  \/ DownloadOpen(c) \/ DownloadChunk(c) \/ DownloadEnd(c)
  \/ DeleteFile(c)
  \/ (\E n \in Names : ListEntry(c, n)) \/ ListStat(c) \/ ListFails(c)
  \/ ListEnd(c)

Start(c) ==
  \/ \E n \in Names : UploadStart(c, n) \/ DownloadStart(c, n) \/ DeleteStart(c, n)
  \/ ListStart(c)

Hears(c) == Learn(c, "client") \/ Learn(c, "server")

Next == \E c \in Calls : Start(c) \/ Client(c) \/ Handler(c) \/ Cut(c) \/ Hears(c)

Spec == Init /\ [][Next]_vars

\* Clients and handlers run, and gRPC tells each end of a broken connection;
\* nobody is obliged to call.
FairSpec ==
  Spec /\ \A c \in Calls : WF_vars(Client(c)) /\ WF_vars(Handler(c)) /\ WF_vars(Hears(c))

-----------------------------------------------------------------------------
TypeOK ==
  /\ dir \in [Names -> Calls \cup Names \cup {NoCall}]
  /\ disturbed \subseteq Calls
  /\ \A c \in Calls :
       /\ call[c].cpc \in {"idle", "write", "read", "finish", "done"}
       /\ call[c].spc \in {"none", "open", "copy", "remove", "list", "stat", "done"}
       /\ Len(call[c].up) <= Window /\ Len(call[c].down) <= Window
       /\ call[c].sent + (IF call[c].more THEN 1 ELSE 0) <= MaxLen
       /\ call[c].status = "none" \/ call[c].spc = "done"

Succeeded(c, kind) == call[c].kind = kind /\ call[c].result = "true"

\* A client that was told its upload succeeded finds the file whole on the
\* server and the reported size right, unless the server opened none (it
\* could not, or the local file is empty and no chunk is ever sent), a write
\* failed or another call opened or deleted the file meanwhile
\* (server.cpp:46-72, client.cpp:58-85).
UploadKept ==
  \A c \in Calls \ disturbed :
    Succeeded(c, "upload") /\ call[c].file # NoCall /\ ~call[c].bad =>
      /\ dir[call[c].name] = call[c].file
      /\ data[call[c].file] = Local(c)
      /\ call[c].size = call[c].sent

\* What a successful download leaves at the client is a beginning of the file
\* as it was opened, and all of it, though a file of whole chunks ends without
\* a chunk marked is_last (server.cpp:98-114, client.cpp:113-122), unless the
\* server failed to read the file or the client to write or close its own: both
\* go unnoticed, and the client says "Download successful".  A file that is
\* overwritten meanwhile is excepted.
DownloadWhole ==
  \A c \in Calls \ disturbed :
    Succeeded(c, "download") =>
      /\ \A k \in DOMAIN call[c].got :
           k \in DOMAIN call[c].snap /\ call[c].got[k] = call[c].snap[k]
      /\ ~call[c].bad /\ ~call[c].torn => call[c].got = call[c].snap

\* The state keeps its types, and a file has chunks of two uploads only if each
\* of the two overlapped with some other upload of the name (server.cpp:49-60).
MixedByOverlap ==
  /\ TypeOK
  /\ \A f \in DOMAIN data : \A j, k \in DOMAIN data[f] :
       data[f][j].by # data[f][k].by =>
         {data[f][j].by, data[f][k].by} \subseteq disturbed \cup {NoCall}

\* ListFiles says "Directory not found" of a directory that is there only when
\* a file was deleted while it looked, or the directory or an entry could not
\* be read (server.cpp:131-144).  An empty directory is no such case.
ListFailsByDelete ==
  \A c \in Calls :
    Is(c, "list", "spc", "done") /\ call[c].status = "NOT_FOUND" => c \in disturbed \/ call[c].torn

\* Every call ends at both ends, wherever the connection breaks and whichever
\* end hears of it first, as long as both ends run and hear of it at last: no
\* client waits in Write or Finish for a handler that waits in Read or has
\* returned, no handler in Write for a client that has stopped reading
\* (client.cpp:58-80, :113-124, server.cpp:46-76, :98-118; neither end sets a
\* deadline).
EveryCallEnds ==
  \A c \in Calls : call[c].cpc # "idle" ~> call[c].cpc = "done" /\ call[c].spc = "done"

\* "Upload successful" (client.cpp:83) is said only of an upload the server
\* reports as a success.
SuccessIsSuccess == \A c \in Calls : Succeeded(c, "upload") => call[c].success
=============================================================================
