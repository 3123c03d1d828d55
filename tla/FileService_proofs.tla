------------------------ MODULE FileService_proofs -------------------------
(* What holds of the file server for any number of calls, any names, files of  *)
(* any length and streams of any size: what a client that was told of success  *)
(* can rely on, when a file can hold bytes of two uploads, and when a listing  *)
(* fails.  The invariant FInv says what is on each stream and in each file at  *)
(* every step; one lemma per operation shows that it is kept.                  *)
EXTENDS FileService, SequenceTheorems, TLAPS

Makers == Calls \cup Names \cup {NoCall}
Chunks == [by : Makers, no : Nat, short : BOOLEAN]

ChunkSeqs == Seq(Chunks)
KindT == {"none", "upload", "download", "delete", "list"}
CpcT == {"idle", "write", "read", "finish", "done"}
SpcT == {"none", "open", "copy", "remove", "list", "stat", "done"}
StatusT == {"none", "OK", "NOT_FOUND", "INTERNAL"}
ResultT == {"none", "true", "false"}
Sides == {"client", "server"}
Records ==
  [kind : KindT, name : Names \cup {NoCall}, cpc : CpcT, spc : SpcT,
   more : BOOLEAN, sent : Nat, tail : BOOLEAN, up : ChunkSeqs, half : BOOLEAN,
   cut : BOOLEAN, told : SUBSET Sides,
   file : Makers, pos : Nat, bad : BOOLEAN, torn : BOOLEAN, down : ChunkSeqs, got : ChunkSeqs,
   todo : SUBSET Names, status : StatusT, success : BOOLEAN,
   size : Nat, result : ResultT, snap : ChunkSeqs]

Types ==
  /\ call \in [Calls -> Records]
  /\ dir \in [Names -> Makers]
  /\ data \in [Calls \cup Names -> Seq(Chunks)]
  /\ disturbed \subseteq Calls

USE ServiceAssumption

Opened(c) == call[c].file # NoCall
Copies(c) == call[c].kind = "upload" /\ call[c].spc = "copy"

ShortLast(s) == \A k \in DOMAIN s : s[k].short => k = Len(s)

\* What a call's record can be.
General(c) ==
  /\ call[c].cpc = "idle" => call[c] = Idle
  /\ call[c].status # "none" => call[c].spc = "done"
  /\ call[c].cpc # "done" => call[c].result = "none"
  /\ call[c].result = "true" => call[c].status = "OK" /\ call[c].cpc = "done"
  /\ call[c].kind \in {"upload", "download", "delete"} => call[c].name \in Names
  /\ call[c].spc = "stat" => call[c].kind = "list" /\ call[c].name \in Names
  /\ Opened(c) => /\ call[c].kind \in {"upload", "download"} /\ call[c].spc \in {"copy", "done"}
                  /\ call[c].file \in Calls \cup Names
  /\ call[c].spc = "copy" => Opened(c)
  /\ call[c].told # {} => call[c].cut
  /\ call[c].kind = "upload" => call[c].cpc \in {"write", "finish", "done"} /\ call[c].spc \in {"open", "copy", "done"}
  /\ call[c].kind = "download" => call[c].cpc \in {"read", "finish", "done"} /\ call[c].spc \in {"open", "copy", "done"}
  /\ Len(call[c].up) <= Window /\ Len(call[c].down) <= Window
  /\ call[c].sent <= MaxLen /\ (call[c].more => call[c].sent + 1 <= MaxLen /\ ~call[c].tail)

\* An upload's chunks on their way, the sizes both ends count.
Sending(c) == call[c].kind = "upload" =>
  /\ \A i \in DOMAIN call[c].up : call[c].up[i].by = c
  /\ call[c].spc = "open" => call[c].size = 0 /\ call[c].pos = 0 /\ ~call[c].bad
  /\ call[c].half => call[c].cpc # "write"
  /\ call[c].spc \in {"open", "copy"} =>
       /\ call[c].result \in {"none", "false"}
       /\ \A i \in DOMAIN call[c].up : call[c].up[i].short => i = Len(call[c].up)
       /\ call[c].result = "none" =>
            /\ \A i \in DOMAIN call[c].up : call[c].up[i] =
                 Chunk(c, call[c].size + i, call[c].tail /\ call[c].size + i = call[c].sent)
            /\ ~call[c].cut => call[c].size + Len(call[c].up) = call[c].sent
            /\ call[c].tail /\ ~call[c].cut => call[c].up # <<>>
  /\ call[c].status = "OK" /\ Opened(c) /\ call[c].result # "false" => call[c].size = call[c].sent

\* What an undisturbed upload has written.
Kept(c) == c \notin disturbed /\ call[c].kind = "upload" /\ Opened(c) =>
  /\ \A k \in DOMAIN data[call[c].file] : data[call[c].file][k].by = c
  /\ call[c].spc = "copy" =>
       /\ call[c].pos = Len(data[call[c].file])
       /\ \A k \in DOMAIN data[call[c].file] : ~data[call[c].file][k].short
       /\ ~call[c].bad /\ call[c].result = "none" =>
            /\ call[c].size = call[c].pos
            /\ \A k \in DOMAIN data[call[c].file] : data[call[c].file][k] = Chunk(c, k, FALSE)
  /\ call[c].status = "OK" /\ call[c].result # "false" /\ ~call[c].bad =>
       data[call[c].file] = Local(c)

\* The sequence g is what s has from place n + 1 on.
Follows(g, s, n) == \A k \in DOMAIN g : g[k] = s[n + k]

\* What a download has read and what is on its way, while no write failed.
FlowsBy(q) ==
  /\ Len(q.got) + Len(q.down) <= Len(q.snap)
  /\ Follows(q.down, q.snap, Len(q.got))
  /\ q.spc = "copy" /\ ~q.cut => q.pos = Len(q.got) + Len(q.down)
  /\ q.status = "OK" /\ ~q.torn =>
       /\ Len(q.got) + Len(q.down) = Len(q.snap)
       /\ q.cpc \in {"finish", "done"} => q.down = <<>>

\* What a download has read, in the order of the file it opened.
FedBy(q) ==
  /\ ShortLast(q.snap)
  /\ Len(q.got) <= Len(q.snap)
  /\ Follows(q.got, q.snap, 0)
  /\ ~q.bad => FlowsBy(q)
Fed(c) == FedBy(call[c])

Receiving(c) == call[c].kind = "download" =>
  /\ call[c].spc = "open" => call[c].down = <<>> /\ call[c].got = <<>> /\ call[c].pos = 0
  /\ call[c].spc = "copy" => \A i \in DOMAIN call[c].down : ~call[c].down[i].short
  /\ call[c].cpc \in {"finish", "done"} /\ call[c].spc \in {"open", "copy"} => call[c].cut
  /\ call[c].status = "OK" => Opened(c)
  /\ c \notin disturbed /\ Opened(c) /\ call[c].result # "false" =>
       Fed(c) /\ (call[c].spc = "copy" => data[call[c].file] = call[c].snap)

\* A listing meets a name that is gone only if a call deleted it.
Listing(c) == call[c].kind = "list" =>
  /\ call[c].status = "NOT_FOUND" => c \in disturbed \/ call[c].torn
  /\ call[c].spc = "stat" /\ dir[call[c].name] = NoCall => c \in disturbed

Call(c) == General(c) /\ Sending(c) /\ Kept(c) /\ Receiving(c) /\ Listing(c)

\* The file f has the name n: it was there before, or a call made it.
Named(f, n) == f = n \/ (f \in Calls /\ call[f].file = f /\ call[f].name = n)

Placed ==
  /\ \A n \in Names : dir[n] = NoCall \/ Named(dir[n], n)
  /\ \A c \in Calls : Opened(c) => Named(call[c].file, call[c].name)

\* An undisturbed call is alone with the file of its name.
Alone == \A c \in Calls \ disturbed : Opened(c) =>
  /\ \A d \in Calls : Copies(d) /\ call[d].name = call[c].name => d = c
  /\ dir[call[c].name] = call[c].file

Marked == \A f \in Calls \cup Names : ShortLast(data[f])

\* Who made the chunks of a file.
Marks == \A f \in Calls \cup Names : \A j \in DOMAIN data[f] :
  /\ data[f][j].by \in Calls \ disturbed =>
       call[data[f][j].by].file = f /\ call[data[f][j].by].kind = "upload"
  /\ data[f][j].by \in Names =>
       data[f][j].by = f /\ \A c \in Calls : call[c].kind = "upload" => call[c].file # f
  /\ \A k \in DOMAIN data[f] :
       data[f][k].by # data[f][j].by => data[f][j].by \in disturbed \cup {NoCall}

FInv == Types /\ Placed /\ Alone /\ Marked /\ Marks /\ \A c \in Calls : Call(c)

Moves(c, r) == call' = [call EXCEPT ![c] = r]

\* Is picks a field of a call's record by its name.
LEMMA IsField ==
  ASSUME NEW c, NEW kind, NEW pc
  PROVE  /\ Is(c, kind, "cpc", pc) <=> call[c].kind = kind /\ call[c].cpc = pc
         /\ Is(c, kind, "spc", pc) <=> call[c].kind = kind /\ call[c].spc = pc
  BY DEF Is

-----------------------------------------------------------------------------
(* The frame of a step *)

\* A step of call c changes no other call's record.
LEMMA Move ==
  ASSUME call \in [Calls -> Records], NEW c \in Calls, NEW r \in Records, Moves(c, r)
  PROVE  /\ call' \in [Calls -> Records] /\ call'[c] = r
         /\ \A d \in Calls \ {c} : call'[d] = call[d]
  BY DEF Moves

\* Fed in the next state is FedBy of the call's next record.
LEMMA FedNow ==
  ASSUME NEW c, NEW r, call'[c] = r
  PROVE  Fed(c)' <=> FedBy(r)
  BY DEF Fed, FedBy, FlowsBy, ShortLast, Follows

\* The calls that do not move.
LEMMA Others ==
  ASSUME FInv, NEW c \in Calls, NEW r \in Records, Moves(c, r), disturbed \subseteq disturbed',
         NEW d \in Calls, d # c,
         d \notin disturbed' /\ Opened(d) => data'[call[d].file] = data[call[d].file],
         call[d].spc = "stat" /\ dir'[call[d].name] = NoCall =>
           dir[call[d].name] = NoCall \/ d \in disturbed'
  PROVE  Call(d)'
<1>1. call'[d] = call[d]
  BY Move DEF FInv, Types
<1>2. Call(d)
  BY DEF FInv
<1>3. General(d)'
  BY <1>1, <1>2 DEF Call, General, Opened
<1>4. Sending(d)'
  BY <1>1, <1>2 DEF Call, Sending, Opened
<1>5. Kept(d)'
  BY <1>1, <1>2 DEF Call, Kept, Opened, Local
<1>6. Receiving(d)'
  <2>1. Fed(d)' <=> Fed(d)
    BY <1>1, FedNow DEF Fed
  <2> QED
    BY <1>1, <1>2, <2>1 DEF Call, Receiving, Opened
<1>7. Listing(d)'
  BY <1>1, <1>2 DEF Call, Listing
<1> QED
  BY <1>3, <1>4, <1>5, <1>6, <1>7 DEF Call

\* A step that leaves the files alone, and opens none.
LEMMA Quiet ==
  ASSUME FInv, NEW c \in Calls, NEW r \in Records, Moves(c, r), Files,
         r.file = call[c].file,
         r.file # NoCall => r.kind = call[c].kind /\ r.name = call[c].name,
         r.kind = "upload" /\ r.spc = "copy" => Copies(c),
         Call(c)'
  PROVE  FInv'
<1>1. /\ call' \in [Calls -> Records] /\ call'[c] = r
      /\ \A d \in Calls \ {c} : call'[d] = call[d]
  BY Move DEF FInv, Types
<1>2. dir' = dir /\ data' = data /\ disturbed' = disturbed
  BY DEF Files
<1>3. Types'
  BY <1>1, <1>2 DEF FInv, Types
<1>4. \A d \in Calls : Call(d)'
  BY <1>2, Others DEF FInv
<1>5. \A d \in Calls : /\ call'[d].file = call[d].file
                       /\ call[d].file # NoCall => call'[d].kind = call[d].kind /\ call'[d].name = call[d].name
                       /\ Copies(d)' => Copies(d)
                       /\ Opened(d)' <=> Opened(d)
  BY <1>1 DEF Copies, Opened
<1>6. \A d \in Calls : Copies(d) => Opened(d)
  BY DEF FInv, Call, General, Copies
<1>7. Placed'
  BY <1>2, <1>5 DEF FInv, Placed, Named, Opened
<1>8. Alone'
  BY <1>2, <1>5, <1>6 DEF FInv, Alone, Opened
<1>9. Marked' /\ Marks'
  BY <1>2, <1>5 DEF FInv, Marked, Marks, ShortLast
<1> QED
  BY <1>3, <1>4, <1>7, <1>8, <1>9 DEF FInv

\* The fields of a call that has not begun.
LEMMA IdleFields ==
  /\ Idle \in Records
  /\ Idle.kind = "none" /\ Idle.name = NoCall /\ Idle.cpc = "idle" /\ Idle.spc = "none"
  /\ Idle.more = FALSE /\ Idle.told = {} /\ Idle.torn = FALSE /\ Idle.sent = 0 /\ Idle.tail = FALSE /\ Idle.up = <<>> /\ Idle.half = FALSE
  /\ Idle.cut = FALSE /\ Idle.file = NoCall /\ Idle.pos = 0 /\ Idle.bad = FALSE
  /\ Idle.down = <<>> /\ Idle.got = <<>> /\ Idle.todo = {} /\ Idle.status = "none"
  /\ Idle.size = 0 /\ Idle.result = "none" /\ Idle.snap = <<>>
<1>1. <<>> \in ChunkSeqs /\ NoCall \in Makers /\ NoCall \in Names \cup {NoCall} /\ 0 \in Nat
      /\ {} \in SUBSET Names /\ {} \in SUBSET Sides /\ FALSE \in BOOLEAN
  BY DEF ChunkSeqs, Makers
<1>2. "none" \in KindT /\ "idle" \in CpcT /\ "none" \in SpcT /\ "none" \in StatusT /\ "none" \in ResultT
  BY DEF KindT, CpcT, SpcT, StatusT, ResultT
<1>3. Idle \in Records
  BY <1>1, <1>2 DEF Idle, Records
<1> QED
  BY <1>3 DEF Idle

\* A call that starts: nothing sent, nothing read, no file.
Begins(c, r) ==
  /\ r \in Records /\ r.file = NoCall /\ r.up = <<>> /\ r.down = <<>> /\ r.got = <<>>
  /\ r.sent = 0 /\ r.size = 0 /\ r.pos = 0 /\ r.bad = FALSE /\ r.tail = FALSE /\ r.told = {}
  /\ (r.more => 0 < MaxLen)
  /\ r.status = "none" /\ r.result # "true" /\ r.cpc # "idle"
  /\ r.cpc # "done" => r.result = "none"
  /\ r.spc \notin {"stat", "copy"}
  /\ r.kind \in {"upload", "download", "delete"} => r.name \in Names
  /\ r.kind = "upload" => r.cpc = "write" /\ r.spc = "open" /\ r.half = FALSE
  /\ r.kind = "download" => r.cpc \in {"read", "done"} /\ r.spc = "open" /\ (r.cpc = "done" => r.cut)

\* The start of a call keeps the invariant.
LEMMA BeginsStep ==
  ASSUME FInv, NEW c \in Calls, NEW r, Begins(c, r), Moves(c, r), Files, call[c].cpc = "idle"
  PROVE  FInv'
<1>1. call[c] = Idle
  BY DEF FInv, Call, General
<1>2. r \in Records /\ call'[c] = r /\ dir' = dir /\ data' = data /\ disturbed' = disturbed
  BY Move DEF FInv, Types, Begins, Files
<1>l. Len(<<>>) = 0 /\ \A i \in DOMAIN <<>> : FALSE
  OBVIOUS
<1>t. r.told = {}
  BY DEF Begins
<1>3. General(c)'
  <2>1. Len(r.up) <= Window /\ Len(r.down) <= Window /\ r.sent <= MaxLen
        /\ (r.more => r.sent + 1 <= MaxLen /\ ~r.tail)
    BY <1>l DEF Begins
  <2>2. r.spc # "stat" /\ r.spc # "copy" /\ r.result # "true" /\ r.status = "none" /\ r.file = NoCall
        /\ r.cpc # "idle" /\ (r.cpc # "done" => r.result = "none")
    BY DEF Begins
  <2>3. /\ r.kind \in {"upload", "download", "delete"} => r.name \in Names
        /\ r.kind = "upload" => r.cpc = "write" /\ r.spc = "open"
        /\ r.kind = "download" => r.cpc \in {"read", "done"} /\ r.spc = "open"
    BY DEF Begins
  <2> QED
    BY <1>2, <1>t, <2>1, <2>2, <2>3 DEF General, Opened
<1>4. Sending(c)'
  BY <1>2, <1>l DEF Sending, Opened, Begins
<1>5. Kept(c)'
  BY <1>2 DEF Kept, Opened, Begins
<1>6. Receiving(c)'
  BY <1>2, <1>l DEF Receiving, Opened, Begins
<1>7. Listing(c)'
  BY <1>2 DEF Listing, Begins
<1>8. Call(c)'
  BY <1>3, <1>4, <1>5, <1>6, <1>7 DEF Call
<1> QED
  BY <1>1, <1>2, <1>8, IdleFields, Quiet DEF Begins

\* Each of the four calls of the client starts so (client.cpp:33-185).
LEMMA StartStep ==
  ASSUME FInv, NEW c \in Calls, Start(c)
  PROVE  FInv'
<1>1. call[c].cpc = "idle" /\ Files
  BY DEF Start, UploadStart, DownloadStart, DeleteStart, ListStart
<1>2. call[c] = Idle
  BY <1>1 DEF FInv, Call, General
<1>i. PICK q \in Records : q = call[c] /\ q = Idle
  BY <1>2, IdleFields
<1>f. /\ q.kind = "none" /\ q.name = NoCall /\ q.cpc = "idle" /\ q.spc = "none"
      /\ q.more = FALSE /\ q.told = {} /\ q.sent = 0 /\ q.tail = FALSE /\ q.up = <<>> /\ q.half = FALSE
      /\ q.cut = FALSE /\ q.file = NoCall /\ q.pos = 0 /\ q.bad = FALSE
      /\ q.down = <<>> /\ q.got = <<>> /\ q.todo = {} /\ q.status = "none"
      /\ q.size = 0 /\ q.result = "none" /\ q.snap = <<>>
  BY <1>i, IdleFields
<1>3. ASSUME NEW n \in Names, UploadStart(c, n) PROVE FInv'
  <2>0. PICK more \in {FALSE, MaxLen > 0} :
           call' = [call EXCEPT ![c].kind = "upload", ![c].name = n, ![c].more = more,
                                ![c].cpc = "write", ![c].spc = "open"]
    BY <1>3 DEF UploadStart
  <2>b. more \in BOOLEAN /\ (more => 0 < MaxLen)
    <3>0. MaxLen \in Nat
      BY DEF ServiceAssumption
    <3>1. CASE more = FALSE
      BY <3>1
    <3>2. CASE more = (MaxLen > 0)
      <4>1. PICK b : b = (MaxLen > 0)
        OBVIOUS
      <4>2. b \in BOOLEAN
        BY <4>1
      <4>3. b => MaxLen > 0
        BY <4>1
      <4>4. more = b
        BY <3>2, <4>1
      <4> QED
        BY <3>0, <4>2, <4>3, <4>4
    <3> QED
      BY <2>0, <3>1, <3>2
  <2> DEFINE r == [q EXCEPT !.kind = "upload", !.name = n, !.more = more, !.cpc = "write", !.spc = "open"]
  <2>1. Moves(c, r)
    BY <2>0, <1>i DEF Moves
  <2>2. r \in Records
    BY <2>b DEF Records, KindT, CpcT, SpcT
  <2>3. Begins(c, r)
    BY <1>f, <2>b, <2>2 DEF Begins, Records
  <2> QED
    BY <1>1, <2>1, <2>3, BeginsStep
<1>4. ASSUME NEW n \in Names, DownloadStart(c, n) PROVE FInv'
  <2> DEFINE r == [q EXCEPT !.kind = "download", !.name = n, !.cpc = "read", !.spc = "open", !.half = TRUE]
             t == [q EXCEPT !.kind = "download", !.name = n, !.cpc = "done", !.spc = "open",
                            !.cut = TRUE, !.result = "false"]
  <2>1. Moves(c, r) \/ Moves(c, t)
    <3>1. CASE call' = [call EXCEPT ![c].kind = "download", ![c].name = n, ![c].cpc = "read",
                             ![c].spc = "open", ![c].half = TRUE]
      BY <1>i, <3>1 DEF Moves
    <3>2. CASE call' = [call EXCEPT ![c].kind = "download", ![c].name = n, ![c].cpc = "done",
                             ![c].spc = "open", ![c].cut = TRUE, ![c].result = "false"]
      BY <1>i, <3>2 DEF Moves
    <3> QED
      BY <1>4, <3>1, <3>2 DEF DownloadStart
  <2>2. r \in Records
    BY DEF Records, KindT, CpcT, SpcT
  <2>3. t \in Records
    BY DEF Records, KindT, CpcT, SpcT, ResultT
  <2>4. Begins(c, r)
    BY <1>f, <2>2 DEF Begins, Records
  <2>5. Begins(c, t)
    BY <1>f, <2>3 DEF Begins, Records
  <2> QED
    BY <1>1, <2>1, <2>4, <2>5, BeginsStep
<1>5. ASSUME NEW n \in Names, DeleteStart(c, n) PROVE FInv'
  <2> DEFINE r == [q EXCEPT !.kind = "delete", !.name = n, !.cpc = "finish", !.spc = "remove"]
  <2>1. Moves(c, r)
    BY <1>5, <1>i DEF DeleteStart, Moves
  <2>2. r \in Records
    BY DEF Records, KindT, CpcT, SpcT
  <2>3. Begins(c, r)
    BY <1>f, <2>2 DEF Begins, Records
  <2> QED
    BY <1>1, <2>1, <2>3, BeginsStep
<1>6. ASSUME ListStart(c) PROVE FInv'
  <2> DEFINE r == [q EXCEPT !.kind = "list", !.cpc = "finish", !.spc = "list", !.todo = Names]
  <2>1. Moves(c, r)
    BY <1>6, <1>i DEF ListStart, Moves
  <2>2. r \in Records
    BY DEF Records, KindT, CpcT, SpcT
  <2>3. Begins(c, r)
    BY <1>f, <2>2 DEF Begins, Records
  <2> QED
    BY <1>1, <2>1, <2>3, BeginsStep
<1> QED
  BY <1>3, <1>4, <1>5, <1>6 DEF Start

-----------------------------------------------------------------------------
(* Handlers that return *)

\* r is what the record q of a call becomes when the handler returns status s.
ReturnedAs(q, s, r) ==
  /\ r \in Records /\ r.spc = "done" /\ r.up = <<>> /\ r.pos = 0 /\ r.half = FALSE
  /\ r.status \in {"none", s} /\ (q.cut => r.status = "none") /\ (~q.cut => r.size = q.size)
  /\ r.kind = q.kind /\ r.name = q.name /\ r.cpc = q.cpc /\ r.more = q.more /\ r.sent = q.sent
  /\ r.tail = q.tail /\ r.cut = q.cut /\ r.told \subseteq q.told /\ r.file = q.file
  /\ r.bad = q.bad /\ r.torn = q.torn /\ r.down = q.down /\ r.got = q.got /\ r.todo = q.todo
  /\ r.result = q.result /\ r.snap = q.snap

\* What the return of a handler leaves of the call's record.
LEMMA Returned ==
  ASSUME NEW q \in Records, NEW s \in StatusT, NEW b \in BOOLEAN
  PROVE  ReturnedAs(q, s, Return(q, s, b))
<1>0. PICK t, d, u, p, f, g, z, k :
        /\ t = (IF q.cut THEN "none" ELSE s) /\ d = "done" /\ u = <<>> /\ p = 0 /\ f = FALSE
        /\ g = (b /\ ~q.cut) /\ z = (IF q.cut THEN 0 ELSE q.size) /\ k = q.told \ {"server"}
  OBVIOUS
<1>1. /\ t \in StatusT /\ d \in SpcT /\ u \in ChunkSeqs /\ p \in Nat /\ f \in BOOLEAN /\ g \in BOOLEAN
      /\ z \in Nat /\ k \in SUBSET Sides
      /\ t \in {"none", s} /\ (q.cut => t = "none") /\ (~q.cut => z = q.size) /\ k \subseteq q.told
  <2>1. q.size \in Nat /\ q.told \in SUBSET Sides /\ q.cut \in BOOLEAN
    BY DEF Records
  <2>2. t \in StatusT /\ t \in {"none", s} /\ (q.cut => t = "none")
    BY <1>0 DEF StatusT
  <2>3. z \in Nat /\ (~q.cut => z = q.size)
    BY <1>0, <2>1
  <2>4. g \in BOOLEAN /\ f \in BOOLEAN
    BY <1>0
  <2>5. k \in SUBSET Sides /\ k \subseteq q.told
    BY <1>0, <2>1
  <2> QED
    BY <1>0, <2>2, <2>3, <2>4, <2>5 DEF SpcT, ChunkSeqs
<1>2. Return(q, s, b) = [q EXCEPT !.spc = d, !.status = t, !.success = g, !.size = z,
                                  !.up = u, !.half = f, !.pos = p, !.told = k]
  BY <1>0 DEF Return
<1> DEFINE r == [q EXCEPT !.spc = d, !.status = t, !.success = g, !.size = z,
                          !.up = u, !.half = f, !.pos = p, !.told = k]
<1>3. r \in Records
  BY <1>1 DEF Records
<1>4. /\ r.spc = d /\ r.status = t /\ r.up = u /\ r.pos = p /\ r.half = f /\ r.size = z /\ r.told = k
      /\ r.kind = q.kind /\ r.name = q.name /\ r.cpc = q.cpc /\ r.more = q.more /\ r.sent = q.sent
      /\ r.tail = q.tail /\ r.cut = q.cut /\ r.file = q.file
      /\ r.bad = q.bad /\ r.torn = q.torn /\ r.down = q.down /\ r.got = q.got /\ r.todo = q.todo
      /\ r.result = q.result /\ r.snap = q.snap
  BY DEF Records
<1>5. Return(q, s, b) = r
  BY <1>2
<1> HIDE DEF r
<1>6. ReturnedAs(q, s, r)
  BY <1>0, <1>1, <1>3, <1>4 DEF ReturnedAs
<1> QED
  BY <1>5, <1>6

\* r is what the record q of a call becomes when the client's function returns b.
EndedAs(q, b, r) ==
  /\ r \in Records /\ r.cpc = "done" /\ r.result = (IF b THEN "true" ELSE "false")
  /\ r.more = FALSE /\ (b => r.sent = q.sent /\ r.tail = q.tail /\ r.got = q.got /\ r.snap = q.snap)
  /\ (~b => r.sent = 0 /\ r.tail = FALSE /\ r.got = <<>> /\ r.snap = <<>>)
  /\ r.kind = q.kind /\ r.name = q.name /\ r.spc = q.spc /\ r.status = q.status
  /\ r.half = q.half /\ r.cut = q.cut /\ r.told \subseteq q.told /\ r.file = q.file
  /\ r.bad = q.bad /\ r.torn = q.torn /\ r.down = q.down /\ r.up = q.up /\ r.pos = q.pos /\ r.todo = q.todo
  /\ r.size = q.size /\ r.success = q.success

\* What the end of the client's function leaves of the call's record.
LEMMA Ended ==
  ASSUME NEW q \in Records, NEW b \in BOOLEAN
  PROVE  EndedAs(q, b, Ends(q, b))
<1>1. PICK d, t, u, p, m, g, f, k :
        /\ f = FALSE /\ k = q.told \ {"client"}
        /\ d = "done" /\ t = (IF b THEN "true" ELSE "false") /\ u = (IF b THEN q.sent ELSE 0)
        /\ p = (b /\ q.tail) /\ m = (IF b THEN q.got ELSE <<>>) /\ g = (IF b THEN q.snap ELSE <<>>)
  OBVIOUS
<1>2. d \in CpcT /\ t \in ResultT /\ u \in Nat /\ p \in BOOLEAN /\ m \in ChunkSeqs /\ g \in ChunkSeqs
      /\ f \in BOOLEAN /\ k \in SUBSET Sides /\ k \subseteq q.told
  <2>1. q.sent \in Nat /\ q.tail \in BOOLEAN /\ q.got \in ChunkSeqs /\ q.snap \in ChunkSeqs
        /\ q.told \in SUBSET Sides
    BY DEF Records
  <2>2. <<>> \in ChunkSeqs
    BY DEF ChunkSeqs
  <2> QED
    BY <1>1, <2>1, <2>2 DEF CpcT, ResultT
<1> DEFINE r == [q EXCEPT !.cpc = d, !.result = t, !.more = f, !.sent = u, !.tail = p, !.got = m,
                          !.snap = g, !.told = k]
<1>3. Ends(q, b) = r
  BY <1>1 DEF Ends
<1>4. r \in Records
  BY <1>2 DEF Records
<1>5. /\ r.cpc = d /\ r.result = t /\ r.more = f /\ r.sent = u /\ r.tail = p /\ r.got = m /\ r.snap = g
      /\ r.kind = q.kind /\ r.name = q.name /\ r.spc = q.spc /\ r.status = q.status
      /\ r.half = q.half /\ r.cut = q.cut /\ r.told = k /\ r.file = q.file
      /\ r.bad = q.bad /\ r.torn = q.torn /\ r.down = q.down /\ r.up = q.up /\ r.pos = q.pos /\ r.todo = q.todo
      /\ r.size = q.size /\ r.success = q.success
  BY DEF Records
<1>6. b => u = q.sent /\ p = q.tail /\ m = q.got /\ g = q.snap
  <2>1. q.tail \in BOOLEAN
    BY DEF Records
  <2> QED
    BY <1>1, <2>1
<1>7. ~b => u = 0 /\ p = FALSE /\ m = <<>> /\ g = <<>>
  BY <1>1
<1> HIDE DEF r
<1>8. EndedAs(q, b, r)
  BY <1>1, <1>3, <1>4, <1>5, <1>6, <1>7 DEF EndedAs
<1> QED
  BY <1>3, <1>8

\* The types of the fields.
LEMMA Fields ==
  ASSUME NEW q \in Records
  PROVE  /\ q.sent \in Nat /\ q.pos \in Nat /\ q.size \in Nat
         /\ q.more \in BOOLEAN /\ q.torn \in BOOLEAN /\ q.told \in SUBSET Sides
         /\ q.tail \in BOOLEAN /\ q.half \in BOOLEAN /\ q.cut \in BOOLEAN /\ q.bad \in BOOLEAN
         /\ q.success \in BOOLEAN /\ q.todo \in SUBSET Names /\ q.file \in Makers
         /\ q.name \in Names \cup {NoCall} /\ q.kind \in KindT /\ q.cpc \in CpcT /\ q.spc \in SpcT
         /\ q.status \in StatusT /\ q.result \in ResultT
         /\ q.up \in Seq(Chunks) /\ q.down \in Seq(Chunks) /\ q.got \in Seq(Chunks) /\ q.snap \in Seq(Chunks)
  BY DEF Records, ChunkSeqs

\* All that was sent has been written, and nothing else.
LEMMA AllWritten ==
  ASSUME NEW c, NEW n \in Nat, NEW s \in Seq(Chunks), Len(s) = n,
         \A k \in DOMAIN s : s[k] = Chunk(c, k, FALSE)
  PROVE  s = [k \in 1..n |-> Chunk(c, k, FALSE /\ k = n)]
<1>1. DOMAIN s = 1..n /\ s = [k \in DOMAIN s |-> s[k]]
  BY LenProperties, SMT
<1> QED
  BY <1>1

\* A handler that returns without a change to the files.
LEMMA ReturnStep ==
  ASSUME FInv, NEW c \in Calls, NEW s \in StatusT, NEW b \in BOOLEAN,
         NEW z \in BOOLEAN, call[c].torn => z,
         Moves(c, Return([call[c] EXCEPT !.torn = z], s, b)), Files, call[c].spc \notin {"none", "done"}, s # "none",
         call[c].kind = "upload" => call[c].spc = "open" \/ call[c].up = <<>>,
         call[c].kind = "download" /\ s = "OK" =>
           call[c].spc = "copy" /\ (z \/ call[c].cut \/ call[c].pos >= Len(data[call[c].file])),
         call[c].kind = "list" /\ s = "NOT_FOUND" => c \in disturbed \/ z
  PROVE  FInv'
<1>q. call[c] \in Records /\ Call(c)
  BY DEF FInv, Types
<1>1. PICK q \in Records : q = call[c]
  BY <1>q
<1>2. PICK p, r : p = [q EXCEPT !.torn = z] /\ r = Return(p, s, b)
  OBVIOUS
<1>p. p \in Records
  BY <1>2 DEF Records
<1>r. /\ p.kind = q.kind /\ p.name = q.name /\ p.cpc = q.cpc /\ p.more = q.more /\ p.sent = q.sent
      /\ p.tail = q.tail /\ p.cut = q.cut /\ p.told = q.told /\ p.file = q.file
      /\ p.bad = q.bad /\ p.torn = z /\ p.down = q.down /\ p.got = q.got /\ p.todo = q.todo
      /\ p.size = q.size /\ p.result = q.result /\ p.snap = q.snap
  BY <1>2 DEF Records
<1>3. /\ r \in Records /\ r.spc = "done" /\ r.up = <<>> /\ r.pos = 0 /\ r.half = FALSE
      /\ r.status \in {"none", s} /\ (q.cut => r.status = "none") /\ (~q.cut => r.size = q.size)
      /\ r.kind = q.kind /\ r.name = q.name /\ r.cpc = q.cpc /\ r.more = q.more /\ r.sent = q.sent
      /\ r.tail = q.tail /\ r.cut = q.cut /\ r.told \subseteq q.told /\ r.file = q.file
      /\ r.bad = q.bad /\ r.torn = z /\ r.down = q.down /\ r.got = q.got /\ r.todo = q.todo
      /\ r.result = q.result /\ r.snap = q.snap
  <2>1. ReturnedAs(p, s, r)
    BY <1>p, <1>2, Returned
  <2> QED
    BY <2>1, <1>r DEF ReturnedAs
<1>4. Moves(c, r) /\ call'[c] = r /\ dir' = dir /\ data' = data /\ disturbed' = disturbed
  <2>1. Moves(c, r)
    BY <1>1, <1>2
  <2> QED
    BY <2>1, <1>3, Move DEF FInv, Types, Files
<1>l. Len(<<>>) = 0 /\ \A i \in DOMAIN <<>> : FALSE
  OBVIOUS
<1>g. /\ q.cpc # "idle" /\ q.status = "none" /\ q.result # "true"
      /\ q.spc = "copy" <=> q.file # NoCall
  BY <1>1, <1>q, IdleFields DEF Call, General, Opened
<1>5. General(c)'
  <2>1. Len(q.down) <= Window /\ q.sent <= MaxLen /\ 0 <= Window /\ (q.more => q.sent + 1 <= MaxLen /\ ~q.tail)
        /\ (q.told # {} => q.cut)
    BY <1>1, <1>q DEF Call, General
  <2>2. Len(r.up) <= Window
    BY <1>3, <1>l, <2>1
  <2> QED
    BY <1>1, <1>q, <1>3, <1>4, <1>g, <2>1, <2>2 DEF Call, General, Opened
<1>6. Sending(c)'
  <2>1. ASSUME q.kind = "upload", q.cut = FALSE, q.spc = "copy", q.result # "false" PROVE q.size = q.sent
    <3>1. q.size + Len(q.up) = q.sent /\ q.up = <<>>
      BY <1>1, <1>q, <1>g, <2>1 DEF Call, Sending
    <3> QED
      BY <3>1, <1>l, Fields
  <2> QED
    BY <1>1, <1>q, <1>3, <1>4, <1>g, <1>l, <2>1, Fields DEF Call, Sending, Opened
<1>7. Kept(c)'
  <2>1. ASSUME c \notin disturbed, q.kind = "upload", q.file # NoCall, r.status = "OK", q.result # "false", ~q.bad
        PROVE  data[q.file] = [k \in 1..q.sent |-> Chunk(c, k, q.tail /\ k = q.sent)]
    <3>1. q.cut = FALSE /\ q.spc = "copy" /\ q.result = "none" /\ q.up = <<>>
      BY <2>1, <1>1, <1>3, <1>g, Fields DEF ResultT
    <3>2. q.size + Len(q.up) = q.sent /\ q.tail = FALSE
      BY <1>1, <1>q, <2>1, <3>1, Fields DEF Call, Sending
    <3>3. q.size = q.pos /\ q.pos = Len(data[q.file])
          /\ \A k \in DOMAIN data[q.file] : data[q.file][k] = Chunk(c, k, FALSE)
      BY <1>1, <1>q, <2>1, <3>1 DEF Call, Kept, Opened
    <3>4. Len(data[q.file]) = q.sent
      BY <3>1, <3>2, <3>3, <1>l, Fields
    <3>5. data[q.file] \in Seq(Chunks)
      BY <1>1, <1>q, <2>1 DEF FInv, Types, Call, General, Opened
    <3>6. q.sent \in Nat
      BY Fields
    <3>7. data[q.file] = [k \in 1..q.sent |-> Chunk(c, k, FALSE /\ k = q.sent)]
      BY <3>3, <3>4, <3>5, <3>6, AllWritten
    <3> QED
      BY <3>2, <3>7
  <2>2. \A k \in DOMAIN data[q.file] : c \notin disturbed /\ q.kind = "upload" /\ q.file # NoCall => data[q.file][k].by = c
    BY <1>1, <1>q DEF Call, Kept, Opened
  <2>3. Local(c)' = [k \in 1..q.sent |-> Chunk(c, k, q.tail /\ k = q.sent)]
    BY <1>3, <1>4 DEF Local
  <2>4. r.spc # "copy" /\ r.file = q.file /\ r.kind = q.kind /\ r.result = q.result /\ r.bad = q.bad
    BY <1>3
  <2> QED
    BY <1>4, <2>1, <2>2, <2>3, <2>4 DEF Kept, Opened
<1>8. Receiving(c)'
  <2>1. ASSUME q.kind = "download", c \notin disturbed, q.file # NoCall, q.result # "false" PROVE Fed(c)'
    <3>1. q.spc = "copy" /\ Fed(c) /\ data[q.file] = q.snap
      BY <1>1, <1>q, <1>g, <2>1 DEF Call, Receiving, Opened
    <3>2. ASSUME r.status = "OK", ~z, ~q.bad
          PROVE Len(q.got) + Len(q.down) = Len(q.snap) /\ q.cpc \notin {"finish", "done"}
      <4>1. q.cut = FALSE /\ q.pos >= Len(q.snap)
        BY <1>1, <1>3, <3>1, <3>2, <2>1, Fields
      <4>2. q.pos = Len(q.got) + Len(q.down) /\ Len(q.got) + Len(q.down) <= Len(q.snap)
        BY <1>1, <3>1, <3>2, <4>1 DEF Fed, FedBy, FlowsBy
      <4>3. q.cpc \notin {"finish", "done"}
        BY <1>1, <1>q, <3>1, <4>1, <2>1 DEF Call, Receiving
      <4>4. Len(q.snap) \in Nat /\ Len(q.got) \in Nat /\ Len(q.down) \in Nat
        BY Fields, LenProperties
      <4>5. q.pos \in Nat
        BY Fields
      <4>6. Len(q.got) + Len(q.down) = Len(q.snap)
        <5> DEFINE a == Len(q.got)
                   d == Len(q.down)
                   e == Len(q.snap)
                   k == q.pos
        <5>1. a \in Nat /\ d \in Nat /\ e \in Nat /\ k \in Nat /\ k >= e /\ k = a + d /\ a + d <= e
          BY <4>1, <4>2, <4>4, <4>5
        <5> HIDE DEF a, d, e, k
        <5>2. a + d = e
          BY <5>1
        <5> QED
          BY <5>2 DEF a, d, e
      <4> QED
        BY <4>6, <4>3
    <3>3. r.spc = "done" /\ r.got = q.got /\ r.down = q.down /\ r.snap = q.snap /\ r.cpc = q.cpc
          /\ r.bad = q.bad /\ r.torn = z
      BY <1>3
    <3> QED
      <4>0. ASSUME FedBy(q) PROVE FedBy(r)
        <5>1. ~q.bad => FlowsBy(q)
          BY <4>0 DEF FedBy
        <5>2. ~q.bad => FlowsBy(r)
          BY <5>1, <3>2, <3>3 DEF FlowsBy
        <5> QED
          BY <4>0, <5>2, <3>3 DEF FedBy
      <4> QED
        BY <1>1, <1>4, <3>1, <4>0, FedNow DEF Fed
  <2> QED
    BY <1>1, <1>3, <1>4, <1>g, <2>1 DEF Receiving, Opened
<1>9. Listing(c)'
  BY <1>1, <1>3, <1>4 DEF Listing
<1> QED
  BY <1>1, <1>3, <1>4, <1>5, <1>6, <1>7, <1>8, <1>9, Quiet DEF Call, Copies

\* The fields of a chunk.
LEMMA ChunkFields ==
  ASSUME NEW c, NEW k, NEW short
  PROVE  Chunk(c, k, short).by = c /\ Chunk(c, k, short).no = k /\ Chunk(c, k, short).short = short
  BY DEF Chunk

\* The handlers that return without a write: no first chunk can be stored, the
\* stream is at its end, no such file, or an answer to a unary call
\* (server.cpp:51-55, :70-75, :84-91, :116-118, :142-147, :150-170).
LEMMA ReturningStep ==
  ASSUME FInv, NEW c \in Calls,
         \/ UploadOpenFails(c) \/ UploadEnd(c) \/ DownloadEnd(c) \/ ListEnd(c)
         \/ DownloadOpen(c) /\ call'[c].spc = "done"
         \/ DeleteFile(c) /\ dir' = dir /\ disturbed' = disturbed
         \/ ListFails(c)
         \/ ListStat(c) /\ dir[call[c].name] = NoCall
  PROVE  FInv'
<1>q. call[c] \in Records /\ Call(c) /\ call \in [Calls -> Records]
  BY DEF FInv, Types
<1>s. "OK" \in StatusT /\ "NOT_FOUND" \in StatusT /\ "INTERNAL" \in StatusT /\ "OK" # "none"
      /\ "NOT_FOUND" # "OK" /\ "NOT_FOUND" # "none" /\ "INTERNAL" # "none"
  BY DEF StatusT
<1>z. /\ call[c].torn \in BOOLEAN /\ [call[c] EXCEPT !.torn = call[c].torn] = call[c]
      /\ \A end : Knows(c, end) => call[c].cut
  <2>1. call[c].torn \in BOOLEAN /\ [call[c] EXCEPT !.torn = call[c].torn] = call[c]
    BY <1>q DEF Records
  <2>2. \A end : Knows(c, end) => call[c].cut
    BY <1>q DEF Call, General, Knows
  <2> QED
    BY <2>1, <2>2
<1>r. ASSUME NEW s \in StatusT, NEW b \in BOOLEAN,
             Moves(c, Return(call[c], s, b)), Files, call[c].spc \notin {"none", "done"}, s # "none",
             call[c].kind = "upload" => call[c].spc = "open" \/ call[c].up = <<>>,
             call[c].kind = "download" /\ s = "OK" =>
               call[c].spc = "copy" /\ (call[c].cut \/ call[c].pos >= Len(data[call[c].file])),
             call[c].kind = "list" /\ s = "NOT_FOUND" => c \in disturbed
      PROVE  FInv'
  <2>1. Moves(c, Return([call[c] EXCEPT !.torn = call[c].torn], s, b))
    BY <1>r, <1>z
  <2> QED
    BY <2>1, <1>r, <1>z, ReturnStep
<1>1. CASE UploadOpenFails(c)
  <2>1. Moves(c, Return(call[c], "OK", FALSE)) /\ Files /\ call[c].kind = "upload" /\ call[c].spc = "open"
    BY <1>1, IsField DEF UploadOpenFails, Moves
  <2> QED
    BY <2>1, <1>s, <1>r
<1>2. CASE UploadEnd(c)
  <2>1. Moves(c, Return(call[c], "OK", TRUE)) /\ Files /\ call[c].kind = "upload" /\ call[c].up = <<>>
        /\ call[c].spc \in {"open", "copy"}
    BY <1>2 DEF UploadEnd, Moves
  <2> QED
    BY <2>1, <1>s, <1>r
<1>3. CASE DownloadEnd(c)
  <2>1. Files /\ call[c].kind = "download" /\ call[c].spc = "copy"
    BY <1>3, IsField DEF DownloadEnd
  <2>2. CASE /\ Knows(c, "server") \/ call[c].pos >= Len(data[call[c].file])
             /\ call' = [call EXCEPT ![c] = Return(@, "OK", TRUE)]
    <3>1. Moves(c, Return(call[c], "OK", TRUE))
      BY <2>2 DEF Moves
    <3>2. call[c].cut \/ call[c].pos >= Len(data[call[c].file])
      BY <2>2, <1>z
    <3> QED
      BY <2>1, <3>1, <3>2, <1>s, <1>r
  <2>3. CASE call' = [call EXCEPT ![c] = Return([@ EXCEPT !.torn = TRUE], "OK", TRUE)]
    <3>1. Moves(c, Return([call[c] EXCEPT !.torn = TRUE], "OK", TRUE))
      BY <2>3 DEF Moves
    <3> QED
      BY <2>1, <3>1, <1>s, ReturnStep
  <2> QED
    BY <1>3, <2>2, <2>3 DEF DownloadEnd
<1>8. CASE ListFails(c)
  <2>1. Files /\ call[c].kind = "list" /\ call[c].spc \in {"list", "stat"}
        /\ Moves(c, Return([call[c] EXCEPT !.torn = TRUE], "NOT_FOUND", FALSE))
    BY <1>8 DEF ListFails, Moves
  <2> QED
    BY <2>1, <1>s, ReturnStep
<1>4. CASE ListEnd(c)
  <2>1. Moves(c, Return(call[c], "OK", TRUE)) /\ Files /\ call[c].kind = "list" /\ call[c].spc = "list"
    BY <1>4, IsField DEF ListEnd, Moves
  <2> QED
    BY <2>1, <1>s, <1>r
<1>5. CASE DownloadOpen(c) /\ call'[c].spc = "done"
  <2>0. call[c].kind = "download" /\ call[c].spc = "open"
    BY <1>5, IsField DEF DownloadOpen
  <2>1. PICK s \in {"NOT_FOUND", "INTERNAL"} : Moves(c, Return(call[c], s, FALSE)) /\ Files
    <3>1. CASE call' = [call EXCEPT ![c].spc = "copy", ![c].file = dir[call[c].name], ![c].snap = data[dir[call[c].name]]]
      <4>1. call'[c].spc = "copy"
        BY <3>1, <1>q DEF Records
      <4> QED
        BY <4>1, <1>5
    <3>2. CASE call' = [call EXCEPT ![c] =
                Return(@, IF dir[call[c].name] = NoCall THEN "NOT_FOUND" ELSE "INTERNAL", FALSE)]
               /\ UNCHANGED disturbed
      BY <3>2, <1>5 DEF DownloadOpen, Moves, Files
    <3> QED
      BY <3>1, <3>2, <1>5 DEF DownloadOpen
  <2> QED
    BY <2>0, <2>1, <1>s, <1>r
<1>6. CASE DeleteFile(c) /\ dir' = dir /\ disturbed' = disturbed
  <2>0. call[c].kind = "delete" /\ call[c].spc = "remove"
    BY <1>6, IsField DEF DeleteFile
  <2>1. PICK b \in BOOLEAN : Moves(c, Return(call[c], "OK", b)) /\ Files
    BY <1>6 DEF DeleteFile, Moves, Files
  <2> QED
    BY <2>0, <2>1, <1>s, <1>r
<1>7. CASE ListStat(c) /\ dir[call[c].name] = NoCall
  <2>1. Moves(c, Return(call[c], "NOT_FOUND", FALSE)) /\ Files /\ call[c].kind = "list" /\ call[c].spc = "stat"
    BY <1>7, IsField DEF ListStat, Moves
  <2>2. c \in disturbed
    BY <1>7, <1>q, <2>1 DEF Call, Listing
  <2> QED
    BY <2>1, <2>2, <1>s, <1>r
<1> QED
  BY <1>1, <1>2, <1>3, <1>4, <1>5, <1>6, <1>7, <1>8

-----------------------------------------------------------------------------
(* The clients, the streams and listings *)

\* WritesDone (client.cpp:78).
LEMMA UploadWritesDoneStep ==
  ASSUME FInv, NEW c \in Calls, UploadWritesDone(c)
  PROVE  FInv'
<1>q. call[c] \in Records /\ Call(c)
  BY DEF FInv, Types
<1>1. PICK q \in Records : q = call[c]
  BY <1>q
<1>2. PICK h, r : h = (~q.cut /\ q.spc # "done") /\ r = [q EXCEPT !.cpc = "finish", !.half = h]
  OBVIOUS
<1>3. r \in Records
  <2>1. h \in BOOLEAN
    BY <1>2
  <2> QED
    BY <1>2, <2>1 DEF Records, CpcT
<1>4. /\ r.cpc = "finish"
      /\ r.kind = q.kind /\ r.name = q.name /\ r.spc = q.spc /\ r.more = q.more /\ r.sent = q.sent
      /\ r.tail = q.tail /\ r.up = q.up /\ r.cut = q.cut /\ r.told = q.told /\ r.file = q.file /\ r.pos = q.pos
      /\ r.bad = q.bad /\ r.torn = q.torn /\ r.down = q.down /\ r.got = q.got /\ r.todo = q.todo /\ r.status = q.status
      /\ r.size = q.size /\ r.result = q.result /\ r.snap = q.snap
  BY <1>2 DEF Records
<1>5. Moves(c, r) /\ Files /\ q.kind = "upload" /\ q.cpc = "write"
  <2>1. call' = [call EXCEPT ![c].cpc = "finish", ![c].half = ~call[c].cut /\ call[c].spc # "done"]
    BY DEF UploadWritesDone
  <2>2. Moves(c, r)
    BY <2>1, <1>1, <1>2 DEF Moves
  <2> QED
    BY <1>1, <2>2, IsField DEF UploadWritesDone
<1>6. call'[c] = r /\ dir' = dir /\ data' = data /\ disturbed' = disturbed
  BY <1>3, <1>5, Move DEF FInv, Types, Files
<1>7. General(c)'
  BY <1>1, <1>q, <1>4, <1>5, <1>6 DEF Call, General, Opened
<1>8. Sending(c)'
  BY <1>1, <1>q, <1>4, <1>5, <1>6 DEF Call, Sending, Opened
<1>9. Kept(c)'
  <2>1. Local(c)' = Local(c)
    BY <1>1, <1>4, <1>6 DEF Local
  <2>2. r.kind = q.kind /\ r.file = q.file /\ r.spc = q.spc /\ r.pos = q.pos /\ r.bad = q.bad /\ r.torn = q.torn
        /\ r.result = q.result /\ r.size = q.size /\ r.status = q.status
    BY <1>4
  <2> QED
    BY <1>1, <1>q, <2>1, <2>2, <1>6 DEF Call, Kept, Opened
<1>10. Receiving(c)' /\ Listing(c)'
  BY <1>4, <1>5, <1>6 DEF Receiving, Listing
<1> QED
  BY <1>1, <1>3, <1>4, <1>5, <1>7, <1>8, <1>9, <1>10, Quiet DEF Call, Copies

\* A Write after a break the client has not heard of goes nowhere.
LEMMA LostWriteStep ==
  ASSUME FInv, NEW c \in Calls, call[c].kind = "upload", call[c].cpc = "write", Files,
         call' = [call EXCEPT ![c].more = FALSE]
  PROVE  FInv'
<1>q. call[c] \in Records /\ Call(c)
  BY DEF FInv, Types
<1>0. PICK q \in Records : q = call[c]
  BY <1>q
<1>1. PICK r : r = [q EXCEPT !.more = FALSE]
  OBVIOUS
<1>2. r \in Records
  BY <1>1 DEF Records
<1>3. /\ r.more = FALSE /\ r.sent = q.sent /\ r.tail = q.tail /\ r.up = q.up
      /\ r.kind = q.kind /\ r.name = q.name /\ r.cpc = q.cpc /\ r.spc = q.spc
      /\ r.half = q.half /\ r.cut = q.cut /\ r.told = q.told /\ r.file = q.file /\ r.pos = q.pos
      /\ r.bad = q.bad /\ r.torn = q.torn /\ r.down = q.down /\ r.status = q.status
      /\ r.size = q.size /\ r.result = q.result
  BY <1>1 DEF Records
<1>4. Moves(c, r)
  BY <1>0, <1>1 DEF Moves
<1>5. call'[c] = r /\ dir' = dir /\ data' = data /\ disturbed' = disturbed
  BY <1>2, <1>4, Move DEF FInv, Types, Files
<1>6. General(c)'
  BY <1>0, <1>q, <1>3, <1>5 DEF Call, General, Opened
<1>7. Sending(c)'
  BY <1>0, <1>q, <1>3, <1>5 DEF Call, Sending, Opened
<1>8. Kept(c)'
  <2>1. Local(c)' = Local(c)
    BY <1>0, <1>3, <1>5 DEF Local
  <2>2. r.kind = q.kind /\ r.file = q.file /\ r.spc = q.spc /\ r.pos = q.pos /\ r.bad = q.bad
        /\ r.result = q.result /\ r.size = q.size /\ r.status = q.status
    BY <1>3
  <2> QED
    BY <1>0, <1>q, <2>1, <2>2, <1>5 DEF Call, Kept, Opened
<1>9. Receiving(c)' /\ Listing(c)'
  BY <1>0, <1>3, <1>5 DEF Receiving, Listing
<1> QED
  BY <1>0, <1>2, <1>3, <1>4, <1>6, <1>7, <1>8, <1>9, Quiet DEF Call, Copies

\* The record of an upload c that has written its next chunk.
WithChunk(q, c, short, m) ==
  [q EXCEPT !.sent = @ + 1, !.tail = short, !.more = m, !.up = Append(@, Chunk(c, q.sent + 1, short))]

\* The next chunk of the local file goes to the end of the stream.
LEMMA SentStep ==
  ASSUME FInv, NEW c \in Calls, call[c].kind = "upload", call[c].cpc = "write", call[c].more,
         call[c].status = "none", Len(call[c].up) < Window, ~call[c].cut, Files,
         NEW short \in BOOLEAN, NEW m \in BOOLEAN, m => call[c].sent + 1 < MaxLen, ~(short /\ m),
         Moves(c, WithChunk(call[c], c, short, m))
  PROVE  FInv'
<1>q. call[c] \in Records /\ Call(c)
  BY DEF FInv, Types
<1>1. PICK q \in Records : q = call[c]
  BY <1>q
<1>0. /\ q.kind = "upload" /\ q.cpc = "write" /\ q.tail = FALSE /\ q.sent + 1 <= MaxLen
      /\ q.cut = FALSE /\ q.status = "none" /\ Len(q.up) < Window /\ Files
  <2>1. q.tail \in BOOLEAN /\ q.cut \in BOOLEAN
    BY Fields
  <2> QED
    BY <1>1, <1>q, <2>1 DEF Call, General
<1>a. Moves(c, WithChunk(q, c, short, m))
  BY <1>1
<1>b. PICK k \in Nat : k = q.sent + 1
  BY Fields
<1>c. PICK x \in Chunks : x = Chunk(c, k, short)
  BY DEF Chunk, Chunks, Makers
<1>d. PICK u \in Seq(Chunks) : u = Append(q.up, x)
  BY Fields, AppendProperties
<1>e. PICK r : r = [q EXCEPT !.sent = k, !.tail = short, !.more = m, !.up = u]
  OBVIOUS
<1>2. /\ k = q.sent + 1 /\ x = Chunk(c, k, short) /\ u = Append(q.up, x)
      /\ r = [q EXCEPT !.sent = k, !.tail = short, !.more = m, !.up = u]
      /\ Moves(c, r)
  BY <1>a, <1>b, <1>c, <1>d, <1>e, <1>1 DEF Moves, WithChunk
<1>3. r \in Records
  <2>1. k \in Nat /\ short \in BOOLEAN /\ m \in BOOLEAN /\ u \in ChunkSeqs
    BY DEF ChunkSeqs
  <2>2. q \in Records /\ r = [q EXCEPT !.sent = k, !.tail = short, !.more = m, !.up = u]
    BY <1>2
  <2> HIDE DEF Moves
  <2> QED
    BY <2>1, <2>2 DEF Records
<1>4. /\ r.sent = k /\ r.tail = short /\ r.more = m /\ r.up = u
      /\ r.kind = q.kind /\ r.name = q.name /\ r.cpc = q.cpc /\ r.spc = q.spc
      /\ r.half = q.half /\ r.cut = q.cut /\ r.told = q.told /\ r.file = q.file /\ r.pos = q.pos
      /\ r.bad = q.bad /\ r.torn = q.torn /\ r.down = q.down /\ r.got = q.got /\ r.todo = q.todo /\ r.status = q.status
      /\ r.size = q.size /\ r.result = q.result /\ r.snap = q.snap
  BY <1>2 DEF Records
<1>6. call'[c] = r /\ dir' = dir /\ data' = data /\ disturbed' = disturbed
  BY <1>0, <1>2, <1>3, Move DEF FInv, Types, Files
<1>g. q.status = "none" /\ q.result = "none" /\ q.spc \in {"open", "copy", "done"}
  BY <1>0, <1>1, <1>q DEF Call, General
<1>u. /\ DOMAIN q.up = 1..Len(q.up) /\ DOMAIN u = 1..(Len(q.up) + 1) /\ Len(u) = Len(q.up) + 1 /\ Len(q.up) \in Nat
      /\ u[Len(q.up) + 1] = x /\ \A i \in 1..Len(q.up) : u[i] = q.up[i]
  BY <1>2, Fields, AppendProperties, LenProperties
<1>7. General(c)'
  <2>1. Len(r.up) <= Window /\ Len(r.down) <= Window /\ r.sent <= MaxLen
        /\ (r.more => r.sent + 1 <= MaxLen /\ ~r.tail)
    <3>1. MaxLen \in Nat /\ Window \in Nat /\ q.sent \in Nat
      BY Fields DEF ServiceAssumption
    <3>2. m => k + 1 <= MaxLen /\ ~short
      BY <3>1, <1>1, <1>2
    <3>3. Len(q.up) + 1 <= Window
      BY <3>1, <1>0, <1>u
    <3>4. k <= MaxLen
      BY <1>0, <1>2
    <3>5. Len(r.down) <= Window
      BY <1>1, <1>q, <1>4 DEF Call, General
    <3> QED
      BY <3>2, <3>3, <3>4, <3>5, <1>4, <1>u
  <2> QED
    BY <1>0, <1>1, <1>q, <1>4, <1>6, <1>g, <2>1 DEF Call, General, Opened
<1>8. ASSUME q.spc = "done" PROVE Sending(c)'
  <2>1. \A i \in DOMAIN u : u[i].by = c
    <3>1. \A i \in DOMAIN q.up : q.up[i].by = c
      BY <1>0, <1>1, <1>q DEF Call, Sending
    <3>2. x.by = c
      BY <1>2, ChunkFields
    <3> QED
      BY <3>1, <3>2, <1>u
  <2>2. r.half => r.cpc # "write"
    BY <1>0, <1>1, <1>q, <1>4 DEF Call, Sending
  <2> QED
    <3>1. r.spc = "done" /\ r.status = "none" /\ r.up = u
      BY <1>4, <1>8, <1>g
    <3> QED
      BY <3>1, <1>6, <2>1, <2>2 DEF Sending
<1>9. ASSUME q.spc \in {"open", "copy"} PROVE Sending(c)'
  <2>0. /\ \A i \in DOMAIN q.up : q.up[i] =
                 Chunk(c, q.size + i, q.tail /\ q.size + i = q.sent)
        /\ q.size + Len(q.up) = q.sent
    BY <1>0, <1>1, <1>9, <1>q, <1>g DEF Call, Sending
  <2>1. \A i \in DOMAIN u : u[i] = Chunk(c, q.size + i, short /\ q.size + i = k)
    <3> SUFFICES ASSUME NEW i \in DOMAIN u PROVE u[i] = Chunk(c, q.size + i, short /\ q.size + i = k)
      OBVIOUS
    <3>s. q.size \in Nat
      BY Fields
    <3>1. CASE i = Len(q.up) + 1
      <4>1. q.size + i = k
        BY <3>s, <3>1, <1>2, <2>0, <1>u
      <4> QED
        BY <4>1, <3>1, <1>2, <1>u
    <3>2. CASE i \in 1..Len(q.up)
      <4>1. q.size + i # k /\ i \in DOMAIN q.up
        BY <3>s, <3>2, <1>2, <2>0, <1>u
      <4>2. u[i] = Chunk(c, q.size + i, FALSE)
        BY <4>1, <3>2, <2>0, <1>0, <1>u
      <4> QED
        BY <4>1, <4>2
    <3> QED
      BY <3>1, <3>2, <1>u
  <2>2. \A i \in DOMAIN u : u[i].by = c /\ (u[i].short => i = Len(u))
    <3> SUFFICES ASSUME NEW i \in DOMAIN u PROVE u[i].by = c /\ (u[i].short => i = Len(u))
      OBVIOUS
    <3>1. u[i].by = c /\ (u[i].short => q.size + i = k)
      <4>1. PICK e \in BOOLEAN : e = (short /\ q.size + i = k)
        OBVIOUS
      <4>2. PICK o : o = q.size + i
        OBVIOUS
      <4>3. u[i] = Chunk(c, o, e)
        BY <2>1, <4>1, <4>2
      <4> QED
        <5>1. u[i].by = c /\ u[i].short = e
          BY <4>3, ChunkFields
        <5> QED
          BY <4>1, <5>1
    <3>s. q.size \in Nat
      BY Fields
    <3>2. q.size + i = k => i = Len(u)
      <4>1. PICK a, b : a = q.size /\ b = Len(q.up)
        OBVIOUS
      <4>2. a \in Nat /\ b \in Nat /\ k = a + b + 1 /\ Len(u) = b + 1 /\ i \in Nat
        BY <3>s, <4>1, <1>2, <2>0, <1>u
      <4>3. a + i = k => i = b + 1
        BY <4>2
      <4> QED
        BY <4>1, <4>2, <4>3
    <3> QED
      BY <3>1, <3>2
  <2>3. q.size + Len(u) = k /\ u # <<>>
    <3>s. q.size \in Nat
      BY Fields
    <3>1. q.size + Len(u) = k
      BY <3>s, <1>2, <2>0, <1>u
    <3>2. 1 \in DOMAIN u
      BY <1>u
    <3> QED
      BY <3>1, <3>2
  <2>4. r.kind = "upload" => 
          /\ r.spc = "open" => r.size = 0 /\ r.pos = 0 /\ ~r.bad
          /\ r.half => r.cpc # "write"
    BY <1>1, <1>q, <1>4 DEF Call, Sending
  <2> QED
    BY <1>4, <1>6, <1>g, <2>1, <2>2, <2>3, <2>4 DEF Sending
<1>10. Kept(c)'
  <2>1. r.kind = q.kind /\ r.file = q.file /\ r.spc = q.spc /\ r.pos = q.pos /\ r.bad = q.bad
        /\ r.result = q.result /\ r.size = q.size /\ r.status = "none"
    BY <1>4, <1>g
  <2>2. c \notin disturbed /\ q.kind = "upload" /\ q.file # NoCall =>
          /\ \A i \in DOMAIN data[q.file] : data[q.file][i].by = c
          /\ q.spc = "copy" =>
               /\ q.pos = Len(data[q.file])
               /\ \A i \in DOMAIN data[q.file] : ~data[q.file][i].short
               /\ ~q.bad /\ q.result = "none" =>
                    /\ q.size = q.pos
                    /\ \A i \in DOMAIN data[q.file] : data[q.file][i] = Chunk(c, i, FALSE)
    BY <1>1, <1>q DEF Call, Kept, Opened
  <2> QED
    BY <2>1, <2>2, <1>6 DEF Kept, Opened
<1>11. Receiving(c)' /\ Listing(c)'
  BY <1>0, <1>4, <1>6 DEF Receiving, Listing
<1> QED
  BY <1>0, <1>1, <1>2, <1>3, <1>4, <1>7, <1>8, <1>9, <1>10, <1>11, <1>g, Quiet DEF Call, Copies

\* One round of the upload's loop (client.cpp:58-76).
LEMMA UploadWriteStep ==
  ASSUME FInv, NEW c \in Calls, UploadWrite(c)
  PROVE  FInv'
<1>1. /\ call[c].kind = "upload" /\ call[c].cpc = "write" /\ call[c].more
      /\ call[c].status = "none" /\ Len(call[c].up) < Window /\ Files
  BY IsField DEF UploadWrite
<1>2. CASE call' = [call EXCEPT ![c].more = FALSE]
  BY <1>1, <1>2, LostWriteStep
<1>3. CASE call' # [call EXCEPT ![c].more = FALSE]
  <2>0. PICK short \in BOOLEAN, more \in {FALSE, call[c].sent + 1 < MaxLen} :
          /\ ~call[c].cut /\ ~(short /\ more)
          /\ call' = [call EXCEPT ![c].sent = call[c].sent + 1, ![c].tail = short, ![c].more = more,
                                  ![c].up = Append(@, Chunk(c, call[c].sent + 1, short))]
    BY <1>3 DEF UploadWrite
  <2>1. Moves(c, WithChunk(call[c], c, short, more))
    BY <2>0 DEF Moves, WithChunk
  <2>2. more \in BOOLEAN /\ (more => call[c].sent + 1 < MaxLen)
    <3>1. CASE more = FALSE
      BY <3>1
    <3>2. CASE more = (call[c].sent + 1 < MaxLen)
      <4>1. PICK b : b = (call[c].sent + 1 < MaxLen)
        OBVIOUS
      <4>2. b \in BOOLEAN
        BY <4>1
      <4>3. b => call[c].sent + 1 < MaxLen
        BY <4>1
      <4>4. more = b
        BY <3>2, <4>1
      <4> QED
        BY <4>2, <4>3, <4>4
    <3> QED
      BY <3>1, <3>2
  <2> QED
    BY <1>1, <2>0, <2>1, <2>2, SentStep
<1> QED
  BY <1>2, <1>3

\* A call of another kind owes nothing to the parts on uploads and listings.
LEMMA NotUpload ==
  ASSUME NEW c, NEW r, call'[c] = r, r.kind \notin {"upload", "list"}
  PROVE  Sending(c)' /\ Kept(c)' /\ Listing(c)'
  BY DEF Sending, Kept, Listing

\* A call of another kind owes nothing to the part on downloads.
LEMMA NotDownload ==
  ASSUME NEW c, NEW r, call'[c] = r, r.kind # "download"
  PROVE  Receiving(c)'
  BY DEF Receiving

\* Counting from one place further on.
LEMMA Shift ==
  ASSUME NEW a \in Nat, NEW b \in Nat, NEW k \in 1..(b - 1)
  PROVE  k + 1 \in 1..b /\ a + (k + 1) = (a + 1) + k
  OBVIOUS

Reading(g, d, s, g2, d2) ==
  /\ Len(g2) + Len(d2) = Len(g) + Len(d)
  /\ Follows(g2, s, 0) /\ Follows(d2, s, Len(g2))
  /\ Head(d).short /\ Len(g) + Len(d) = Len(s) => d2 = <<>>

\* What the client has read, when it reads the next chunk.
LEMMA ReadsNext ==
  ASSUME NEW g \in Seq(Chunks), NEW d \in Seq(Chunks), NEW s \in Seq(Chunks), d # <<>>,
         NEW g2 \in Seq(Chunks), NEW d2 \in Seq(Chunks), g2 = Append(g, Head(d)), d2 = Tail(d), ShortLast(s),
         Len(g) + Len(d) <= Len(s),
         Follows(g, s, 0), Follows(d, s, Len(g))
  PROVE  Reading(g, d, s, g2, d2)
<1>1. /\ Head(d) \in Chunks /\ d2 \in Seq(Chunks) /\ Len(d2) = Len(d) - 1
      /\ Len(d) \in Nat /\ Len(d) # 0 /\ Len(g) \in Nat /\ Len(s) \in Nat
      /\ DOMAIN d = 1..Len(d) /\ DOMAIN g = 1..Len(g) /\ DOMAIN s = 1..Len(s)
      /\ \A i \in 1..(Len(d) - 1) : d2[i] = d[i + 1]
      /\ Head(d) = d[1]
  BY HeadTailProperties, LenProperties, EmptySeq
<1>2. /\ g2 \in Seq(Chunks) /\ Len(g2) = Len(g) + 1 /\ g2[Len(g) + 1] = Head(d)
      /\ \A i \in 1..Len(g) : g2[i] = g[i]
      /\ DOMAIN g2 = 1..(Len(g) + 1) /\ DOMAIN d2 = 1..(Len(d) - 1)
  BY <1>1, AppendProperties, LenProperties
<1>3. Len(g2) + Len(d2) = Len(g) + Len(d)
  BY <1>1, <1>2
<1>4. Head(d) = s[Len(g) + 1]
  <2>1. 1 \in DOMAIN d
    BY <1>1
  <2> QED
    BY <1>1, <2>1 DEF Follows
<1>0. \A k \in DOMAIN g : g[k] = s[k]
  <2> SUFFICES ASSUME NEW k \in DOMAIN g PROVE g[k] = s[k]
    OBVIOUS
  <2>1. 0 + k = k /\ g[k] = s[0 + k]
    BY <1>1 DEF Follows
  <2> QED
    BY <2>1
<1>5. \A k \in DOMAIN g2 : g2[k] = s[k]
  <2> SUFFICES ASSUME NEW k \in DOMAIN g2 PROVE g2[k] = s[k]
    OBVIOUS
  <2>1. CASE k = Len(g) + 1
    BY <2>1, <1>2, <1>4
  <2>2. CASE k \in 1..Len(g)
    BY <2>2, <1>0, <1>1, <1>2
  <2> QED
    BY <2>1, <2>2, <1>1, <1>2
<1>6. \A k \in DOMAIN d2 : d2[k] = s[Len(g2) + k]
  <2> SUFFICES ASSUME NEW k \in DOMAIN d2 PROVE d2[k] = s[Len(g2) + k]
    OBVIOUS
  <2>0. k \in 1..(Len(d) - 1)
    BY <1>2
  <2>3. Len(g2) = Len(g) + 1 /\ Len(g) \in Nat /\ Len(d) \in Nat
    BY <1>1, <1>2
  <2>1. k + 1 \in 1..Len(d) /\ Len(g) + (k + 1) = Len(g2) + k
    <3>1. k + 1 \in 1..Len(d) /\ Len(g) + (k + 1) = (Len(g) + 1) + k
      BY <2>0, <2>3, Shift
    <3> QED
      BY <3>1, <2>3
  <2>2. d2[k] = d[k + 1] /\ d[k + 1] = s[Len(g) + (k + 1)]
    BY <2>0, <2>1, <1>1 DEF Follows
  <2> QED
    BY <2>1, <2>2
<1>7. ASSUME Head(d).short, Len(g) + Len(d) = Len(s) PROVE d2 = <<>>
  <2>1. Len(g) + 1 \in DOMAIN s
    BY <1>1
  <2>2. Len(g) + 1 = Len(s)
    BY <1>4, <1>7, <2>1 DEF ShortLast
  <2>3. Len(d2) = 0
    BY <1>1, <1>7, <2>2
  <2> QED
    BY <1>1, <2>3, EmptySeq
<1>8. Follows(g2, s, 0)
  <2> SUFFICES ASSUME NEW k \in DOMAIN g2 PROVE g2[k] = s[0 + k]
    BY DEF Follows
  <2>1. 0 + k = k
    BY <1>1, <1>2
  <2> QED
    BY <2>1, <1>5
<1>9. Follows(d2, s, Len(g2))
  BY <1>6 DEF Follows
<1> QED
  BY <1>3, <1>7, <1>8, <1>9 DEF Reading

\* The client's Read in DownloadFile (client.cpp:113-122).
LEMMA DownloadReadStep ==
  ASSUME FInv, NEW c \in Calls, DownloadRead(c)
  PROVE  FInv'
<1>q. call[c] \in Records /\ Call(c)
  BY DEF FInv, Types
<1>1. PICK q \in Records : q = call[c]
  BY <1>q
<1>0. q.kind = "download" /\ q.cpc = "read" /\ Files
  BY <1>1, IsField DEF DownloadRead
<1>g. q.result = "none"
  BY <1>0, <1>1, <1>q DEF Call, General
<1>2. ASSUME q.down # <<>>, NEW ok \in BOOLEAN, ok => ~q.bad,
             call' = [call EXCEPT ![c].got = IF ok THEN Append(@, Head(q.down)) ELSE @,
                                  ![c].bad = ~ok, ![c].down = Tail(@),
                                  ![c].cpc = IF Head(q.down).short THEN "finish" ELSE "read"]
      PROVE  FInv'
  <2>p. Head(q.down) \in Chunks /\ Len(Tail(q.down)) = Len(q.down) - 1 /\ Tail(q.down) \in Seq(Chunks)
        /\ Len(q.down) \in Nat /\ DOMAIN q.down = 1..Len(q.down)
        /\ DOMAIN Tail(q.down) = 1..(Len(q.down) - 1)
        /\ \A i \in 1..(Len(q.down) - 1) : Tail(q.down)[i] = q.down[i + 1]
        /\ Len(q.down) # 0 /\ Head(q.down) = q.down[1]
    BY <1>2, Fields, HeadTailProperties, LenProperties, EmptySeq
  <2>1. PICK g \in Seq(Chunks) : g = IF ok THEN Append(q.got, Head(q.down)) ELSE q.got
    BY <2>p, Fields, AppendProperties
  <2>b. PICK w \in BOOLEAN : w = ~ok
    OBVIOUS
  <2>2. PICK d \in Seq(Chunks) : d = Tail(q.down)
    BY <2>p
  <2>3. PICK pc : pc = IF Head(q.down).short THEN "finish" ELSE "read"
    OBVIOUS
  <2>4. PICK r : r = [q EXCEPT !.got = g, !.bad = w, !.down = d, !.cpc = pc]
    OBVIOUS
  <2>5. pc \in CpcT /\ pc \in {"finish", "read"} /\ (pc = "finish" => Head(q.down).short)
    BY <2>3 DEF CpcT
  <2>6. r \in Records
    BY <2>4, <2>5 DEF Records, ChunkSeqs
  <2>7. /\ r.got = g /\ r.down = d /\ r.cpc = pc
        /\ r.kind = q.kind /\ r.name = q.name /\ r.spc = q.spc /\ r.more = q.more /\ r.sent = q.sent
        /\ r.tail = q.tail /\ r.up = q.up /\ r.half = q.half /\ r.cut = q.cut /\ r.told = q.told /\ r.file = q.file /\ r.pos = q.pos
        /\ r.bad = w /\ r.torn = q.torn /\ r.todo = q.todo /\ r.status = q.status
        /\ r.size = q.size /\ r.result = q.result /\ r.snap = q.snap
    BY <2>4, <2>5 DEF Records
  <2>8. Moves(c, r)
    BY <1>1, <1>2, <2>1, <2>b, <2>2, <2>3, <2>4 DEF Moves
  <2>9. call'[c] = r /\ dir' = dir /\ data' = data /\ disturbed' = disturbed
    BY <1>0, <2>6, <2>8, Move DEF FInv, Types, Files
  <2>10. General(c)'
    <3>1. Len(d) <= Window
      BY <2>p, <2>2, <1>1, <1>q DEF Call, General
    <3> QED
      BY <1>0, <1>1, <1>q, <1>g, <2>7, <2>9, <2>5, <3>1 DEF Call, General, Opened
  <2>11. Receiving(c)'
    <3>1. q.spc = "open" => FALSE
      BY <1>0, <1>1, <1>2, <1>q DEF Call, Receiving
    <3>2. ASSUME q.spc = "copy" PROVE pc # "finish" /\ \A i \in DOMAIN d : ~d[i].short
      <4>1. \A i \in DOMAIN q.down : ~q.down[i].short
        BY <1>0, <1>1, <3>2, <1>q DEF Call, Receiving
      <4>2. ~Head(q.down).short
        BY <2>p, <4>1
      <4>3. ASSUME NEW i \in DOMAIN d PROVE ~d[i].short
        <5>1. i \in 1..(Len(q.down) - 1) /\ d[i] = q.down[i + 1]
          BY <2>p, <2>2
        <5>2. i + 1 \in DOMAIN q.down
          BY <2>p, <5>1
        <5> QED
          BY <5>1, <5>2, <4>1
      <4> QED
        BY <4>2, <4>3, <2>5
    <3>3. q.status = "OK" => q.file # NoCall
      BY <1>0, <1>1, <1>q DEF Call, Receiving, Opened
    <3>4. ASSUME c \notin disturbed, q.file # NoCall
          PROVE Fed(c)' /\ (q.spc = "copy" => data[q.file] = q.snap)
      <4>1. Fed(c) /\ (q.spc = "copy" => data[q.file] = q.snap)
        BY <1>0, <1>1, <1>q, <1>g, <3>4 DEF Call, Receiving, Opened
      <4>a. ShortLast(q.snap) /\ Len(q.got) <= Len(q.snap) /\ Follows(q.got, q.snap, 0)
        BY <1>1, <4>1 DEF Fed, FedBy
      <4>b. CASE ~ok
        <5>1. r.bad /\ r.got = q.got /\ r.snap = q.snap
          BY <4>b, <2>1, <2>b, <2>7
        <5>2. FedBy(r)
          BY <4>a, <5>1 DEF FedBy
        <5> QED
          BY <5>2, <4>1, <2>9, FedNow
      <4>c. CASE ok
        <5>2. /\ Len(q.got) + Len(q.down) <= Len(q.snap) /\ Follows(q.down, q.snap, Len(q.got))
              /\ q.spc = "copy" /\ ~q.cut => q.pos = Len(q.got) + Len(q.down)
              /\ q.status = "OK" /\ ~q.torn => Len(q.got) + Len(q.down) = Len(q.snap)
          BY <1>1, <1>2, <4>1, <4>c DEF Fed, FedBy, FlowsBy
        <5>3. q.got \in Seq(Chunks) /\ q.down \in Seq(Chunks) /\ q.snap \in Seq(Chunks)
          BY Fields
        <5>4. /\ Len(g) + Len(d) = Len(q.got) + Len(q.down)
              /\ Follows(g, q.snap, 0) /\ Follows(d, q.snap, Len(g))
              /\ Head(q.down).short /\ Len(q.got) + Len(q.down) = Len(q.snap) => d = <<>>
          <6>1. PICK s \in Seq(Chunks), a \in Seq(Chunks), b \in Seq(Chunks) :
                    s = q.snap /\ a = q.got /\ b = q.down
            BY <5>3
          <6>2. b # <<>> /\ g = Append(a, Head(b)) /\ d = Tail(b) /\ ShortLast(s)
                /\ Len(a) + Len(b) <= Len(s) /\ Follows(a, s, 0) /\ Follows(b, s, Len(a))
            BY <6>1, <1>2, <2>1, <2>2, <4>a, <4>c, <5>2
          <6>3. Reading(a, b, s, g, d)
            BY <6>2, ReadsNext
          <6>4. /\ Len(g) + Len(d) = Len(a) + Len(b)
                /\ Follows(g, s, 0) /\ Follows(d, s, Len(g))
                /\ Head(b).short /\ Len(a) + Len(b) = Len(s) => d = <<>>
            BY <6>3 DEF Reading
          <6> QED
            BY <6>1, <6>4
        <5>5. Len(g) <= Len(q.snap)
          <6>1. Len(g) \in Nat /\ Len(d) \in Nat /\ Len(q.snap) \in Nat
            BY <5>3, LenProperties
          <6>2. Len(g) + Len(d) <= Len(q.snap)
            BY <5>2, <5>4
          <6> QED
            BY <6>1, <6>2
        <5>6. FlowsBy(r)
          BY <2>7, <2>5, <5>2, <5>4 DEF FlowsBy
        <5>7. FedBy(r)
          BY <2>7, <4>a, <5>4, <5>5, <5>6 DEF FedBy
        <5> QED
          BY <5>7, <4>1, <2>9, FedNow
      <4> QED
        BY <4>b, <4>c
    <3> QED
      BY <2>5, <2>7, <2>9, <3>1, <3>2, <3>3, <3>4 DEF Receiving, Opened
  <2>12. Sending(c)' /\ Kept(c)' /\ Listing(c)'
    BY <1>0, <2>7, <2>9, NotUpload
  <2> QED
    BY <1>0, <1>1, <2>6, <2>7, <2>8, <2>10, <2>11, <2>12, Quiet DEF Call
<1>3. CASE q.down = <<>> /\ (q.status # "none" \/ Knows(c, "client"))
           /\ call' = [call EXCEPT ![c].cpc = "finish"]
  <2>4. PICK r : r = [q EXCEPT !.cpc = "finish"]
    OBVIOUS
  <2>6. r \in Records
    BY <2>4 DEF Records, CpcT
  <2>7. /\ r.cpc = "finish"
        /\ r.kind = q.kind /\ r.name = q.name /\ r.spc = q.spc /\ r.more = q.more /\ r.sent = q.sent
        /\ r.tail = q.tail /\ r.up = q.up /\ r.half = q.half /\ r.cut = q.cut /\ r.told = q.told /\ r.file = q.file /\ r.pos = q.pos
        /\ r.bad = q.bad /\ r.torn = q.torn /\ r.todo = q.todo /\ r.status = q.status /\ r.got = q.got /\ r.down = q.down
        /\ r.size = q.size /\ r.result = q.result /\ r.snap = q.snap
    BY <2>4 DEF Records
  <2>8. Moves(c, r)
    BY <1>1, <1>3, <2>4 DEF Moves
  <2>9. call'[c] = r /\ dir' = dir /\ data' = data /\ disturbed' = disturbed
    BY <1>0, <2>6, <2>8, Move DEF FInv, Types, Files
  <2>10. General(c)'
    BY <1>0, <1>1, <1>q, <1>g, <2>7, <2>9 DEF Call, General, Opened
  <2>11. Receiving(c)'
    <3>1. Fed(c) => Fed(c)'
      <4>1. FedBy(q) => FedBy(r)
        BY <1>3, <2>7 DEF FedBy, FlowsBy
      <4> QED
        BY <1>1, <4>1, <2>9, FedNow DEF Fed
    <3>2. q.spc \in {"open", "copy"} => q.cut
      BY <1>1, <1>3, <1>q DEF Call, General, Knows
    <3> QED
      BY <1>0, <1>1, <1>q, <1>g, <2>7, <2>9, <3>1, <3>2 DEF Call, Receiving, Opened
  <2>12. Sending(c)' /\ Kept(c)' /\ Listing(c)'
    BY <1>0, <2>7, <2>9, NotUpload
  <2> QED
    BY <1>0, <1>1, <2>6, <2>7, <2>8, <2>10, <2>11, <2>12, Quiet DEF Call
<1>4. CASE q.down # <<>> /\ \E ok \in {FALSE, ~q.bad} :
             call' = [call EXCEPT ![c].got = IF ok THEN Append(@, Head(q.down)) ELSE @,
                                  ![c].bad = ~ok, ![c].down = Tail(@),
                                  ![c].cpc = IF Head(q.down).short THEN "finish" ELSE "read"]
  <2>1. PICK ok \in {FALSE, ~q.bad} :
             call' = [call EXCEPT ![c].got = IF ok THEN Append(@, Head(q.down)) ELSE @,
                                  ![c].bad = ~ok, ![c].down = Tail(@),
                                  ![c].cpc = IF Head(q.down).short THEN "finish" ELSE "read"]
    BY <1>4
  <2>2. ok \in BOOLEAN /\ (ok => ~q.bad)
    <3>1. CASE ok = FALSE
      BY <3>1
    <3>2. CASE ok = ~q.bad
      BY <3>2, Zenon
    <3> QED
      BY <3>1, <3>2
  <2> QED
    BY <1>2, <1>4, <2>1, <2>2
<1> QED
  BY <1>1, <1>3, <1>4 DEF DownloadRead

Feeding(g, d, s, p, x) ==
  /\ Follows(d, s, Len(g)) /\ Len(g) + Len(d) = p + 1 /\ p + 1 <= Len(s)
  /\ x.short => p + 1 = Len(s)

\* What is on its way when the handler has sent the next chunk.
LEMMA FeedsNext ==
  ASSUME NEW g \in Seq(Chunks), NEW d \in Seq(Chunks), NEW s \in Seq(Chunks), NEW p \in Nat,
         p = Len(g) + Len(d), p < Len(s), ShortLast(s), Follows(d, s, Len(g)),
         NEW x \in Chunks, x = s[p + 1], NEW d2 \in Seq(Chunks), d2 = Append(d, x)
  PROVE  Feeding(g, d2, s, p, x)
<1>1. /\ Len(g) \in Nat /\ Len(d) \in Nat /\ Len(s) \in Nat
      /\ DOMAIN d = 1..Len(d) /\ DOMAIN s = 1..Len(s)
      /\ Len(d2) = Len(d) + 1 /\ d2[Len(d) + 1] = x /\ \A i \in 1..Len(d) : d2[i] = d[i]
      /\ DOMAIN d2 = 1..(Len(d) + 1)
  BY AppendProperties, LenProperties
<1>2. Len(g) + (Len(d) + 1) = p + 1 /\ p + 1 <= Len(s) /\ p + 1 \in 1..Len(s)
  BY <1>1
<1>3. x.short => p + 1 = Len(s)
  BY <1>1, <1>2 DEF ShortLast
<1>4. Follows(d2, s, Len(g))
  <2> SUFFICES ASSUME NEW k \in DOMAIN d2 PROVE d2[k] = s[Len(g) + k]
    BY DEF Follows
  <2>1. CASE k = Len(d) + 1
    BY <2>1, <1>1, <1>2
  <2>2. CASE k \in 1..Len(d)
    BY <2>2, <1>1 DEF Follows
  <2> QED
    BY <2>1, <2>2, <1>1
<1> QED
  BY <1>1, <1>2, <1>3, <1>4 DEF Feeding

\* The record of a download whose handler has sent the next chunk.
LEMMA DownloadChunkStep ==
  ASSUME FInv, NEW c \in Calls, DownloadChunk(c)
  PROVE  FInv'
<1>q. call[c] \in Records /\ Call(c)
  BY DEF FInv, Types
<1>1. PICK q \in Records : q = call[c]
  BY <1>q
<1>0. /\ q.kind = "download" /\ q.spc = "copy" /\ Files /\ q.cut \in BOOLEAN
      /\ q.pos < Len(data[q.file]) /\ Len(q.down) < Window
  BY <1>1, IsField, Fields DEF DownloadChunk
<1>g. /\ q.status = "none" /\ q.result # "true" /\ q.cpc \in {"read", "finish", "done"}
      /\ q.file \in Calls \cup Names /\ q.file # NoCall /\ q.name \in Names
      /\ (~q.cut => q.cpc = "read")
  <2>1. q.cpc \in {"finish", "done"} => q.cut
    BY <1>0, <1>1, <1>q DEF Call, Receiving
  <2> QED
    BY <1>0, <1>1, <1>q, <2>1 DEF Call, General, Opened
<1>p. data[q.file] \in Seq(Chunks) /\ ShortLast(data[q.file]) /\ q.pos \in Nat /\ Len(q.down) \in Nat
  BY <1>g, Fields, LenProperties DEF FInv, Types, Marked
<1>2. PICK x \in Chunks : x = data[q.file][q.pos + 1]
  <2>1. q.pos + 1 \in 1..Len(data[q.file]) /\ DOMAIN data[q.file] = 1..Len(data[q.file])
    BY <1>0, <1>p, LenProperties
  <2> QED
    BY <2>1, <1>p, ElementOfSeq
<1>3. PICK d \in Seq(Chunks) : d = IF q.cut THEN q.down ELSE Append(q.down, x)
  BY Fields, AppendProperties
<1>4. PICK p \in Nat : p = q.pos + 1
  BY Fields
<1>5. PICK t : t = [q EXCEPT !.pos = p, !.down = d]
  OBVIOUS
<1>6. t \in Records
  BY <1>5 DEF Records, ChunkSeqs
<1>7. /\ t.pos = p /\ t.down = d
      /\ t.kind = q.kind /\ t.name = q.name /\ t.cpc = q.cpc /\ t.spc = q.spc /\ t.more = q.more /\ t.sent = q.sent
      /\ t.tail = q.tail /\ t.up = q.up /\ t.half = q.half /\ t.cut = q.cut /\ t.told = q.told /\ t.file = q.file
      /\ t.bad = q.bad /\ t.torn = q.torn /\ t.got = q.got /\ t.todo = q.todo /\ t.status = q.status
      /\ t.size = q.size /\ t.result = q.result /\ t.snap = q.snap
  BY <1>5 DEF Records
<1>8. Moves(c, IF x.short THEN Return(t, "OK", TRUE) ELSE t)
  <2>1. t = [q EXCEPT !.pos = @ + 1,
                      !.down = IF q.cut THEN @ ELSE Append(@, data[q.file][q.pos + 1])]
    BY <1>2, <1>3, <1>4, <1>5
  <2>2. LET s == data[q.file]
            y == s[q.pos + 1]
            w == [q EXCEPT !.pos = @ + 1, !.down = IF q.cut THEN @ ELSE Append(@, y)]
        IN  call' = [call EXCEPT ![c] = IF y.short THEN Return(w, "OK", TRUE) ELSE w]
    BY <1>1 DEF DownloadChunk
  <2> QED
    BY <2>1, <2>2, <1>2 DEF Moves
<1>9. PICK r : r = IF x.short THEN Return(t, "OK", TRUE) ELSE t
  OBVIOUS
<1>10. /\ r \in Records /\ r.down = d /\ r.kind = "download" /\ r.name = q.name /\ r.cpc = q.cpc
       /\ r.more = q.more /\ r.sent = q.sent /\ r.tail = q.tail /\ r.cut = q.cut /\ r.told \subseteq q.told
       /\ r.file = q.file /\ r.got = q.got /\ r.result = q.result /\ r.bad = q.bad /\ r.torn = q.torn
       /\ r.snap = q.snap /\ r.up \in {q.up, <<>>} /\ (r.cut => r.status = "none")
       /\ x.short => r.spc = "done" /\ r.status \in {"none", "OK"}
       /\ ~x.short => r.spc = "copy" /\ r.status = "none" /\ r.pos = p
  <2>1. CASE x.short
    <3>0. PICK s \in StatusT, b \in BOOLEAN : s = "OK" /\ b = TRUE
      BY DEF StatusT
    <3>1. r = Return(t, s, b)
      BY <2>1, <3>0, <1>9
    <3>2. /\ r \in Records /\ r.spc = "done" /\ r.up = <<>>
          /\ r.status \in {"none", s} /\ (t.cut => r.status = "none")
          /\ r.kind = t.kind /\ r.name = t.name /\ r.cpc = t.cpc /\ r.more = t.more /\ r.sent = t.sent
          /\ r.tail = t.tail /\ r.cut = t.cut /\ r.told \subseteq t.told /\ r.file = t.file
          /\ r.bad = t.bad /\ r.torn = t.torn
          /\ r.down = t.down /\ r.got = t.got /\ r.result = t.result /\ r.snap = t.snap
      <4>1. ReturnedAs(t, s, r)
        BY <3>1, <1>6, Returned
      <4> QED
        BY <4>1 DEF ReturnedAs
    <3> QED
      BY <2>1, <3>0, <3>2, <1>0, <1>g, <1>7
  <2>2. CASE ~x.short
    BY <2>2, <1>0, <1>g, <1>6, <1>7, <1>9
  <2> QED
    BY <2>1, <2>2
<1>11. call'[c] = r /\ dir' = dir /\ data' = data /\ disturbed' = disturbed /\ Moves(c, r)
  BY <1>0, <1>8, <1>9, <1>10, Move DEF FInv, Types, Files
<1>12. General(c)'
  <2>1. Len(d) <= Window
    BY <1>0, <1>3, <1>p, Fields, AppendProperties
  <2>2. Len(<<>>) = 0 /\ 0 <= Window /\ Len(q.up) <= Window /\ q.sent <= MaxLen
        /\ (q.more => q.sent + 1 <= MaxLen /\ ~q.tail) /\ (q.told # {} => q.cut)
    BY <1>1, <1>q DEF Call, General
  <2>3. Len(r.up) <= Window
    BY <2>2, <1>10
  <2>4. r.told # {} => r.cut
    BY <2>2, <1>10
  <2>5. r.status # "none" => r.spc = "done"
    BY <1>10
  <2>6. r.spc \in {"copy", "done"}
    BY <1>10
  <2>7. q.cpc # "done" => q.result = "none"
    BY <1>1, <1>q DEF Call, General
  <2> QED
    BY <2>1, <2>2, <2>3, <2>4, <2>5, <2>6, <2>7, <1>10, <1>11, <1>g DEF General, Opened
<1>13. Receiving(c)'
  <2>1. ASSUME ~x.short PROVE \A i \in DOMAIN d : ~d[i].short
    <3>1. \A i \in DOMAIN q.down : ~q.down[i].short
      BY <1>0, <1>1, <1>q DEF Call, Receiving
    <3>2. CASE q.cut
      BY <3>1, <3>2, <1>3
    <3>3. CASE ~q.cut
      <4>1. /\ DOMAIN q.down = 1..Len(q.down) /\ DOMAIN d = 1..(Len(q.down) + 1)
            /\ d[Len(q.down) + 1] = x /\ \A i \in 1..Len(q.down) : d[i] = q.down[i]
        BY <3>3, <1>3, <1>p, Fields, AppendProperties, LenProperties
      <4>2. \A i \in 1..(Len(q.down) + 1) : i \in 1..Len(q.down) \/ i = Len(q.down) + 1
        BY <1>p
      <4> QED
        BY <2>1, <3>1, <4>1, <4>2
    <3> QED
      BY <1>0, <3>2, <3>3
  <2>2. ASSUME c \notin disturbed, q.result # "false"
        PROVE Fed(c)' /\ data[q.file] = q.snap
    <3>1. FedBy(q) /\ data[q.file] = q.snap
      BY <1>0, <1>1, <1>q, <1>g, <2>2 DEF Call, Receiving, Opened, Fed
    <3>2. ShortLast(q.snap) /\ Follows(q.got, q.snap, 0) /\ Len(q.got) <= Len(q.snap)
      BY <3>1 DEF FedBy
    <3>3. ASSUME ~q.bad, q.cut PROVE FlowsBy(r)
      <4>1. FlowsBy(q) /\ r.status = "none" /\ r.down = q.down /\ r.cut
        BY <3>1, <3>3, <1>3, <1>10 DEF FedBy
      <4> QED
        BY <4>1, <1>10 DEF FlowsBy
    <3>4. ASSUME ~q.bad, ~q.cut PROVE FlowsBy(r)
      <4>1. /\ Follows(q.down, q.snap, Len(q.got))
            /\ q.pos = Len(q.got) + Len(q.down) /\ q.pos < Len(q.snap) /\ x = q.snap[q.pos + 1]
        BY <1>0, <1>2, <3>1, <3>4 DEF FedBy, FlowsBy
      <4>2. PICK s \in Seq(Chunks), a \in Seq(Chunks), b \in Seq(Chunks), n \in Nat :
                s = q.snap /\ a = q.got /\ b = q.down /\ n = q.pos
        BY Fields
      <4>3. Feeding(a, d, s, n, x)
        <5>1. /\ n = Len(a) + Len(b) /\ n < Len(s) /\ ShortLast(s) /\ Follows(b, s, Len(a))
              /\ x = s[n + 1] /\ d = Append(b, x)
          BY <3>2, <3>4, <4>1, <4>2, <1>3
        <5> QED
          BY <5>1, FeedsNext
      <4>4. /\ Follows(d, q.snap, Len(q.got)) /\ Len(q.got) + Len(d) = p /\ p <= Len(q.snap)
            /\ x.short => p = Len(q.snap)
        BY <4>2, <4>3, <1>4 DEF Feeding
      <4>5. r.status = "OK" => x.short
        BY <1>10
      <4>6. r.spc = "copy" => r.pos = p
        BY <1>10
      <4>7. r.cpc = "read" /\ r.down = d /\ r.got = q.got /\ r.snap = q.snap
        BY <3>4, <1>10, <1>g
      <4> QED
        BY <4>4, <4>5, <4>6, <4>7 DEF FlowsBy
    <3>5. FedBy(r)
      <4>1. r.bad = q.bad /\ q.bad \in BOOLEAN /\ r.got = q.got /\ r.snap = q.snap
        BY <1>10, Fields
      <4>2. ~r.bad => FlowsBy(r)
        BY <1>0, <3>3, <3>4, <4>1
      <4> QED
        BY <3>2, <4>1, <4>2 DEF FedBy
    <3> QED
      BY <3>1, <3>5, <1>11, FedNow
  <2>3. r.spc = "copy" => ~x.short
    BY <1>10
  <2>4. r.spc # "open" /\ (r.cpc \in {"finish", "done"} => r.cut)
    BY <1>10, <1>g
  <2> QED
    BY <1>g, <1>10, <1>11, <2>1, <2>2, <2>3, <2>4 DEF Receiving, Opened
<1>14. Sending(c)' /\ Kept(c)' /\ Listing(c)'
  BY <1>10, <1>11, NotUpload
<1> QED
  BY <1>0, <1>1, <1>10, <1>11, <1>12, <1>13, <1>14, Quiet DEF Call

\* The iterator's next entry (server.cpp:131-136).
LEMMA ListEntryStep ==
  ASSUME FInv, NEW c \in Calls, NEW n \in Names, ListEntry(c, n)
  PROVE  FInv'
<1>q. call[c] \in Records /\ Call(c)
  BY DEF FInv, Types
<1>1. PICK q \in Records : q = call[c]
  BY <1>q
<1>0. q.kind = "list" /\ q.spc = "list" /\ Files
  BY <1>1, IsField DEF ListEntry
<1>2. PICK pc, todo : pc = (IF dir[n] = NoCall THEN "list" ELSE "stat") /\ todo = q.todo \ {n}
  OBVIOUS
<1>3. pc \in SpcT /\ pc \in {"list", "stat"} /\ (pc = "stat" => dir[n] # NoCall) /\ todo \in SUBSET Names
  BY <1>2, Fields DEF SpcT
<1>4. PICK r : r = [q EXCEPT !.todo = todo, !.name = n, !.spc = pc]
  OBVIOUS
<1>5. r \in Records
  BY <1>3, <1>4 DEF Records
<1>6. /\ r.name = n /\ r.spc = pc
      /\ r.kind = q.kind /\ r.cpc = q.cpc /\ r.more = q.more /\ r.sent = q.sent /\ r.up = q.up /\ r.down = q.down
      /\ r.file = q.file /\ r.status = q.status /\ r.result = q.result
        /\ r.tail = q.tail /\ r.told = q.told /\ r.cut = q.cut /\ r.torn = q.torn
  BY <1>3, <1>4 DEF Records
<1>7. Moves(c, r)
  BY <1>1, <1>2, <1>4 DEF ListEntry, Moves
<1>8. call'[c] = r /\ dir' = dir /\ data' = data /\ disturbed' = disturbed
  BY <1>0, <1>5, <1>7, Move DEF FInv, Types, Files
<1>9. q.file = NoCall /\ q.status = "none" /\ q.cpc # "idle"
  BY <1>0, <1>1, <1>q, IdleFields DEF Call, General, Opened
<1>10. General(c)'
  BY <1>0, <1>1, <1>q, <1>3, <1>6, <1>8, <1>9 DEF Call, General, Opened
<1>11. Listing(c)'
  BY <1>3, <1>6, <1>8, <1>9 DEF Listing
<1>12. Sending(c)' /\ Kept(c)' /\ Receiving(c)'
  BY <1>0, <1>6, <1>8 DEF Sending, Kept, Receiving
<1> QED
  BY <1>0, <1>1, <1>5, <1>6, <1>7, <1>9, <1>10, <1>11, <1>12, Quiet DEF Call

\* file_size, or an entry that is gone (server.cpp:137, :142-143).
LEMMA ListStatStep ==
  ASSUME FInv, NEW c \in Calls, ListStat(c)
  PROVE  FInv'
<1>q. call[c] \in Records /\ Call(c)
  BY DEF FInv, Types
<1>1. PICK q \in Records : q = call[c]
  BY <1>q
<1>0. q.kind = "list" /\ q.spc = "stat" /\ Files
  BY <1>1, IsField DEF ListStat
<1>2. CASE dir[q.name] = NoCall
  BY <1>1, <1>2, ReturningStep
<1>3. CASE dir[q.name] # NoCall
  <2>1. PICK n \in Nat : n = q.size + 1
    BY Fields
  <2>2. PICK r : r = [q EXCEPT !.spc = "list", !.size = n]
    OBVIOUS
  <2>3. r \in Records
    BY <2>2 DEF Records, SpcT
  <2>4. /\ r.name = q.name /\ r.spc = "list"
        /\ r.kind = q.kind /\ r.cpc = q.cpc /\ r.more = q.more /\ r.sent = q.sent /\ r.up = q.up /\ r.down = q.down
        /\ r.file = q.file /\ r.status = q.status /\ r.result = q.result
        /\ r.tail = q.tail /\ r.told = q.told /\ r.cut = q.cut /\ r.torn = q.torn
    BY <2>2 DEF Records
  <2>5. Moves(c, r)
    <3>0. PICK t : t = Return(q, "NOT_FOUND", FALSE)
      OBVIOUS
    <3>1. call' = [call EXCEPT ![c] = IF dir[q.name] = NoCall THEN t
                                      ELSE [q EXCEPT !.spc = "list", !.size = n]]
      <4>1. call' = [call EXCEPT ![c] =
              IF dir[call[c].name] = NoCall THEN Return(call[c], "NOT_FOUND", FALSE)
              ELSE [call[c] EXCEPT !.spc = "list", !.size = call[c].size + 1]]
        BY DEF ListStat
      <4> QED
        BY <4>1, <1>1, <2>1, <3>0
    <3> QED
      BY <1>3, <3>1, <2>2 DEF Moves
  <2>6. call'[c] = r /\ dir' = dir /\ data' = data /\ disturbed' = disturbed
    BY <1>0, <2>3, <2>5, Move DEF FInv, Types, Files
  <2>7. q.file = NoCall /\ q.status = "none" /\ q.cpc # "idle"
    BY <1>0, <1>1, <1>q, IdleFields DEF Call, General, Opened
  <2>8. General(c)'
    BY <1>0, <1>1, <1>q, <2>4, <2>6, <2>7 DEF Call, General, Opened
  <2>9. Listing(c)'
    BY <2>4, <2>6, <2>7 DEF Listing
  <2>10. Sending(c)' /\ Kept(c)' /\ Receiving(c)'
    BY <1>0, <2>4, <2>6 DEF Sending, Kept, Receiving
  <2> QED
    BY <1>0, <1>1, <2>3, <2>4, <2>5, <2>7, <2>8, <2>9, <2>10, Quiet DEF Call
<1> QED
  BY <1>2, <1>3

\* The first n messages of a stream.
Prefix(d2, d, n) ==
  /\ d2 \in Seq(Chunks) /\ Len(d2) = n /\ DOMAIN d2 = 1..n
  /\ \A i \in 1..n : d2[i] = d[i] /\ i \in DOMAIN d
  /\ n = Len(d) => d2 = d

\* SubSeq takes the first n messages.
LEMMA PrefixOf ==
  ASSUME NEW d \in Seq(Chunks), NEW n \in 0..Len(d)
  PROVE  Prefix(SubSeq(d, 1, n), d, n)
<1>0. Len(d) \in Nat /\ n \in Nat /\ DOMAIN d = 1..Len(d) /\ n <= Len(d)
  BY LenProperties
<1>1. \A i \in 1..n : i \in DOMAIN d
  BY <1>0
<1>2. \A i \in 1..n : d[i] \in Chunks
  BY <1>1, ElementOfSeq, <1>0
<1>p. PICK s : s = SubSeq(d, 1, n)
  OBVIOUS
<1>3. /\ s \in Seq(Chunks) /\ Len(s) = (IF 1 <= n THEN n - 1 + 1 ELSE 0)
      /\ \A i \in 1..(n - 1 + 1) : s[i] = d[1 + i - 1]
  BY <1>0, <1>2, <1>p, SubSeqProperties
<1>4. n - 1 + 1 = n /\ Len(s) = n
  BY <1>0, <1>3
<1>5. \A i \in 1..n : s[i] = d[i]
  BY <1>0, <1>3, <1>4
<1>6. DOMAIN s = 1..n
  BY <1>3, <1>4, LenProperties
<1>7. ASSUME n = Len(d) PROVE s = d
  BY <1>7, <1>0, <1>3, <1>4, <1>5, SeqEqual
<1> QED
  BY <1>p, <1>1, <1>3, <1>4, <1>5, <1>6, <1>7 DEF Prefix

\* A connection that breaks drops the ends of the streams.
LEMMA CutStep ==
  ASSUME FInv, NEW c \in Calls, Cut(c)
  PROVE  FInv'
<1>q. call[c] \in Records /\ Call(c)
  BY DEF FInv, Types
<1>1. PICK q \in Records : q = call[c]
  BY <1>q
<1>0. q.cpc \notin {"idle", "done"} /\ Files /\ q.result = "none"
  BY <1>1, <1>q DEF Cut, Call, General
<1>2. PICK m \in 0..Len(q.up), n \in 0..Len(q.down) :
       LET w == [q EXCEPT !.cut = TRUE, !.up = SubSeq(@, 1, m), !.down = SubSeq(@, 1, n),
                          !.half = @ /\ m = Len(q.up)]
       IN  call' = [call EXCEPT ![c] = IF n < Len(q.down) THEN [w EXCEPT !.status = "none"] ELSE w]
  BY <1>1 DEF Cut
<1>s. q.up \in Seq(Chunks) /\ q.down \in Seq(Chunks)
  BY Fields
<1>3. PICK u : u = SubSeq(q.up, 1, m)
  OBVIOUS
<1>4. PICK d : d = SubSeq(q.down, 1, n)
  OBVIOUS
<1>5. Prefix(u, q.up, m) /\ Prefix(d, q.down, n)
  BY <1>s, <1>3, <1>4, PrefixOf
<1>6. PICK t : t = IF n < Len(q.down) THEN "none" ELSE q.status
  OBVIOUS
<1>7. t \in StatusT /\ t \in {"none", q.status} /\ (t # "none" => n = Len(q.down))
  <2>1. n <= Len(q.down) /\ n \in Nat /\ Len(q.down) \in Nat
    BY <1>s, LenProperties
  <2>2. n < Len(q.down) \/ n = Len(q.down)
    BY <2>1
  <2> QED
    BY <1>6, <2>2, Fields DEF StatusT
<1>h. PICK h \in BOOLEAN : h = (q.half /\ m = Len(q.up))
  OBVIOUS
<1>8. PICK r : r = [q EXCEPT !.cut = TRUE, !.up = u, !.down = d, !.half = h, !.status = t]
  OBVIOUS
<1>9. r \in Records
  BY <1>5, <1>7, <1>8 DEF Records, ChunkSeqs, Prefix
<1>10. /\ r.cut = TRUE /\ r.up = u /\ r.down = d /\ r.status = t /\ r.half = h /\ (h => q.half)
       /\ r.kind = q.kind /\ r.name = q.name /\ r.cpc = q.cpc /\ r.spc = q.spc /\ r.more = q.more /\ r.sent = q.sent
       /\ r.tail = q.tail /\ r.told = q.told /\ r.file = q.file /\ r.pos = q.pos
       /\ r.bad = q.bad /\ r.torn = q.torn /\ r.got = q.got /\ r.todo = q.todo
       /\ r.size = q.size /\ r.result = q.result /\ r.snap = q.snap
  <2>1. h => q.half
    BY <1>h
  <2> QED
    BY <1>8, <2>1 DEF Records
<1>11. Moves(c, r)
  <2>1. PICK w : w = [q EXCEPT !.cut = TRUE, !.up = u, !.down = d, !.half = h]
    OBVIOUS
  <2>2. call' = [call EXCEPT ![c] = IF n < Len(q.down) THEN [w EXCEPT !.status = "none"] ELSE w]
    BY <1>2, <1>3, <1>4, <1>h, <2>1
  <2>3. r = IF n < Len(q.down) THEN [w EXCEPT !.status = "none"] ELSE w
    <3>1. w \in Records /\ w.status = q.status
      BY <1>5, <2>1 DEF Records, ChunkSeqs, Prefix
    <3>2. w = [w EXCEPT !.status = q.status]
      BY <3>1 DEF Records
    <3>3. r = [w EXCEPT !.status = t]
      BY <1>8, <2>1
    <3> QED
      BY <3>2, <3>3, <1>6
  <2> QED
    BY <2>2, <2>3 DEF Moves
<1>12. call'[c] = r /\ dir' = dir /\ data' = data /\ disturbed' = disturbed
  BY <1>0, <1>9, <1>11, Move DEF FInv, Types, Files
<1>l. Len(q.up) <= Window /\ Len(q.down) <= Window /\ Len(u) = m /\ Len(d) = n
      /\ Len(q.up) \in Nat /\ Len(q.down) \in Nat
  BY <1>1, <1>q, <1>5, <1>s, LenProperties DEF Call, General, Prefix
<1>13. General(c)'
  <2>1. Len(u) <= Window /\ Len(d) <= Window
    BY <1>l
  <2> QED
    BY <1>0, <1>1, <1>q, <1>7, <1>10, <1>12, <2>1 DEF Call, General, Opened
<1>14. Sending(c)'
  <2>1. ASSUME q.kind = "upload"
        PROVE \A i \in DOMAIN u : u[i].by = c /\ i \in DOMAIN q.up /\ u[i] = q.up[i]
    BY <2>1, <1>1, <1>q, <1>5 DEF Prefix, Call, Sending
  <2>2. ASSUME q.kind = "upload", q.spc \in {"open", "copy"}, NEW i \in DOMAIN u, u[i].short
        PROVE i = Len(u)
    <3>1. q.up[i].short /\ i \in DOMAIN q.up /\ i \in 1..m
      BY <2>1, <2>2, <1>5 DEF Prefix
    <3>2. i = Len(q.up)
      BY <2>2, <3>1, <1>1, <1>q DEF Call, Sending
    <3> QED
      BY <3>1, <3>2, <1>l
  <2>3. ASSUME q.kind = "upload", q.spc \in {"open", "copy"}
        PROVE \A i \in DOMAIN u : u[i] =
                 Chunk(c, q.size + i, q.tail /\ q.size + i = q.sent)
    BY <2>1, <2>3, <1>0, <1>1, <1>q DEF Call, Sending
  <2>4. q.kind = "upload" =>
          /\ q.spc = "open" => q.size = 0 /\ q.pos = 0 /\ ~q.bad
          /\ q.half => q.cpc # "write"
          /\ q.status = "OK" /\ q.file # NoCall => q.size = q.sent
    BY <1>0, <1>1, <1>q DEF Call, Sending, Opened
  <2>5. t = "OK" => q.status = "OK"
    BY <1>7
  <2> QED
    BY <1>0, <1>10, <1>12, <2>1, <2>2, <2>3, <2>4, <2>5 DEF Sending, Opened
<1>15. Kept(c)'
  <2>1. Local(c)' = Local(c)
    BY <1>1, <1>10, <1>12 DEF Local
  <2>2. r.kind = q.kind /\ r.file = q.file /\ r.spc = q.spc /\ r.pos = q.pos /\ r.bad = q.bad /\ r.torn = q.torn
        /\ r.result = q.result /\ r.size = q.size /\ (r.status = "OK" => q.status = "OK")
    BY <1>7, <1>10
  <2> QED
    BY <1>1, <1>q, <2>1, <2>2, <1>12 DEF Call, Kept, Opened
<1>16. Receiving(c)'
  <2>0. r.status = "OK" => q.status = "OK" /\ r.down = q.down
    BY <1>5, <1>7, <1>10 DEF Prefix
  <2>1. q.kind = "download" /\ q.spc = "open" => d = <<>> /\ q.got = <<>> /\ q.pos = 0
    <3>1. q.kind = "download" /\ q.spc = "open" => q.down = <<>> /\ q.got = <<>> /\ q.pos = 0
      BY <1>1, <1>q DEF Call, Receiving
    <3>2. q.down = <<>> => n = Len(q.down)
      <4>1. ASSUME q.down = <<>> PROVE n = Len(q.down)
        <5>1. Len(q.down) = 0
          BY <4>1
        <5> QED
          BY <5>1, <1>2
      <4> QED
        BY <4>1
    <3> QED
      BY <3>1, <3>2, <1>5 DEF Prefix
  <2>2. q.kind = "download" /\ q.spc = "copy" => \A i \in DOMAIN d : ~d[i].short
    BY <1>1, <1>q, <1>5 DEF Call, Receiving, Prefix
  <2>3. q.kind = "download" /\ q.status = "OK" => q.file # NoCall
    BY <1>1, <1>q DEF Call, Receiving, Opened
  <2>4. ASSUME q.kind = "download", c \notin disturbed, q.file # NoCall
        PROVE  Fed(c)' /\ (q.spc = "copy" => data[q.file] = q.snap)
    <3>1. FedBy(q) /\ (q.spc = "copy" => data[q.file] = q.snap)
      BY <1>0, <1>1, <1>q, <2>4 DEF Call, Receiving, Opened, Fed
    <3>2. ASSUME ~q.bad PROVE Len(q.got) + Len(d) <= Len(q.snap)
      <4>1. Len(q.got) \in Nat /\ Len(q.snap) \in Nat /\ n \in Nat /\ n <= Len(q.down)
        BY <1>l, Fields, LenProperties
      <4>2. Len(q.got) + Len(q.down) <= Len(q.snap)
        BY <3>1, <3>2 DEF FedBy, FlowsBy
      <4> QED
        <5> DEFINE g == Len(q.got)
                   e == Len(q.down)
                   z == Len(q.snap)
        <5>1. g \in Nat /\ e \in Nat /\ z \in Nat /\ n \in Nat /\ n <= e /\ g + e <= z
          BY <4>1, <4>2, <1>l
        <5> HIDE DEF g, e, z
        <5>2. g + n <= z
          BY <5>1
        <5> QED
          BY <5>2, <1>l DEF g, z
    <3>3. ASSUME ~q.bad PROVE Follows(d, q.snap, Len(q.got))
      <4>1. Follows(q.down, q.snap, Len(q.got))
        BY <3>1, <3>3 DEF FedBy, FlowsBy
      <4> QED
        BY <4>1, <1>5 DEF Prefix, Follows
    <3>4. FedBy(r)
      <4>1. ASSUME ~q.bad PROVE FlowsBy(r)
        <5>1. FlowsBy(q)
          BY <3>1, <4>1 DEF FedBy
        <5> QED
          BY <5>1, <3>2, <3>3, <4>1, <1>10, <2>0 DEF FlowsBy
      <4> QED
        BY <3>1, <4>1, <1>10 DEF FedBy
    <3> QED
      BY <3>1, <3>4, <1>12, FedNow
  <2> QED
    BY <1>10, <1>12, <2>0, <2>1, <2>2, <2>3, <2>4 DEF Receiving, Opened
<1>17. Listing(c)'
  BY <1>1, <1>q, <1>7, <1>10, <1>12 DEF Call, Listing
<1> QED
  BY <1>0, <1>1, <1>9, <1>10, <1>11, <1>13, <1>14, <1>15, <1>16, <1>17, Quiet DEF Call, Copies

\* An end that hears of the break has only that to remember.
LEMMA LearnStep ==
  ASSUME FInv, NEW c \in Calls, NEW end \in Sides, Learn(c, end)
  PROVE  FInv'
<1>q. call[c] \in Records /\ Call(c)
  BY DEF FInv, Types
<1>1. PICK q \in Records : q = call[c]
  BY <1>q
<1>0. q.cut /\ Files
  BY <1>1 DEF Learn
<1>i. q.cpc # "idle"
  BY <1>0, <1>1, <1>q, IdleFields DEF Call, General
<1>2. PICK s \in SUBSET Sides : s = q.told \cup {end}
  BY Fields
<1>3. PICK r : r = [q EXCEPT !.told = s]
  OBVIOUS
<1>4. r \in Records
  BY <1>3 DEF Records
<1>5. /\ r.told = s
      /\ r.kind = q.kind /\ r.name = q.name /\ r.cpc = q.cpc /\ r.spc = q.spc /\ r.more = q.more /\ r.sent = q.sent
      /\ r.tail = q.tail /\ r.up = q.up /\ r.half = q.half /\ r.cut = q.cut /\ r.file = q.file /\ r.pos = q.pos
      /\ r.bad = q.bad /\ r.torn = q.torn /\ r.down = q.down /\ r.got = q.got /\ r.todo = q.todo /\ r.status = q.status
      /\ r.size = q.size /\ r.result = q.result /\ r.snap = q.snap
  BY <1>3 DEF Records
<1>6. Moves(c, r)
  BY <1>1, <1>2, <1>3 DEF Learn, Moves
<1>7. call'[c] = r /\ dir' = dir /\ data' = data /\ disturbed' = disturbed
  BY <1>0, <1>4, <1>6, Move DEF FInv, Types, Files
<1>8. General(c)'
  <2>1. General(c)
    BY <1>q DEF Call
  <2>2. r.cpc # "idle" /\ r.cut
    BY <1>0, <1>i, <1>5
  <2>3. /\ r.kind = q.kind /\ r.name = q.name /\ r.cpc = q.cpc /\ r.spc = q.spc /\ r.more = q.more
        /\ r.sent = q.sent /\ r.tail = q.tail /\ r.up = q.up /\ r.file = q.file /\ r.down = q.down
        /\ r.status = q.status /\ r.result = q.result
    BY <1>5
  <2> QED
    BY <1>1, <1>7, <2>1, <2>2, <2>3 DEF General, Opened
<1>9. Sending(c)'
  BY <1>1, <1>q, <1>5, <1>7 DEF Call, Sending, Opened
<1>10. Kept(c)'
  <2>1. Local(c)' = Local(c)
    BY <1>1, <1>5, <1>7 DEF Local
  <2>2. r.kind = q.kind /\ r.file = q.file /\ r.spc = q.spc /\ r.pos = q.pos /\ r.bad = q.bad
        /\ r.result = q.result /\ r.size = q.size /\ r.status = q.status
    BY <1>5
  <2> QED
    BY <1>1, <1>q, <2>1, <2>2, <1>7 DEF Call, Kept, Opened
<1>11. Receiving(c)'
  <2>1. FedBy(q) => FedBy(r)
    BY <1>5 DEF FedBy, FlowsBy
  <2>2. Fed(c) => Fed(c)'
    BY <2>1, <1>1, <1>7, FedNow DEF Fed
  <2> QED
    BY <1>1, <1>q, <1>5, <1>7, <2>2 DEF Call, Receiving, Opened
<1>12. Listing(c)'
  BY <1>1, <1>q, <1>5, <1>7 DEF Call, Listing
<1>13. Call(c)'
  BY <1>8, <1>9, <1>10, <1>11, <1>12 DEF Call
<1> QED
  BY <1>0, <1>1, <1>4, <1>5, <1>6, <1>13, Quiet DEF Copies

\* The client gets the status, or UNAVAILABLE (client.cpp:80-89, :124-133).
LEMMA FinishStep ==
  ASSUME FInv, NEW c \in Calls, Finish(c)
  PROVE  FInv'
<1>q. call[c] \in Records /\ Call(c)
  BY DEF FInv, Types
<1>1. PICK q \in Records : q = call[c]
  BY <1>q
<1>0. q.cpc = "finish" /\ Files /\ q.result = "none"
  BY <1>1, <1>q DEF Finish, Call, General
<1>a. \E b \in BOOLEAN : \E r : r = Ends(q, b) /\ Moves(c, r) /\ (b => q.status = "OK")
  <2>1. CASE call' = [call EXCEPT ![c] =
             Ends(@, @.status = "OK" /\ (@.kind = "delete" => @.success))]
    <3>1. PICK b \in BOOLEAN : b = (q.status = "OK" /\ (q.kind = "delete" => q.success))
      OBVIOUS
    <3>2. PICK r : r = Ends(q, b)
      OBVIOUS
    <3>3. Moves(c, r)
      BY <1>1, <2>1, <3>1, <3>2 DEF Moves
    <3> QED
      BY <3>1, <3>2, <3>3
  <2>2. CASE call' = [call EXCEPT ![c] = Ends(@, FALSE)]
    <3>1. PICK b \in BOOLEAN : b = FALSE
      OBVIOUS
    <3>2. PICK r : r = Ends(q, b)
      OBVIOUS
    <3>3. Moves(c, r)
      BY <1>1, <2>2, <3>1, <3>2 DEF Moves
    <3> QED
      BY <3>1, <3>2, <3>3
  <2> QED
    BY <2>1, <2>2 DEF Finish
<1>b. PICK b \in BOOLEAN : \E r : r = Ends(q, b) /\ Moves(c, r) /\ (b => q.status = "OK")
  BY <1>a
<1>2. PICK r : r = Ends(q, b) /\ Moves(c, r) /\ (b => q.status = "OK")
  BY <1>b
<1>3. /\ r \in Records /\ r.cpc = "done" /\ r.result = (IF b THEN "true" ELSE "false")
      /\ r.more = FALSE /\ (b => r.sent = q.sent /\ r.tail = q.tail /\ r.got = q.got /\ r.snap = q.snap)
      /\ (~b => r.sent = 0 /\ r.tail = FALSE /\ r.got = <<>> /\ r.snap = <<>>)
      /\ r.kind = q.kind /\ r.name = q.name /\ r.spc = q.spc /\ r.status = q.status
      /\ r.half = q.half /\ r.cut = q.cut /\ r.told \subseteq q.told /\ r.file = q.file
      /\ r.bad = q.bad /\ r.torn = q.torn /\ r.down = q.down /\ r.up = q.up /\ r.pos = q.pos /\ r.todo = q.todo
      /\ r.size = q.size /\ r.success = q.success
  <2>1. EndedAs(q, b, r)
    BY <1>2, Ended
  <2> QED
    BY <2>1 DEF EndedAs
<1>4. call'[c] = r /\ dir' = dir /\ data' = data /\ disturbed' = disturbed
  BY <1>0, <1>2, <1>3, Move DEF FInv, Types, Files
<1>5. (r.result # "false" => b) /\ r.result \in {"true", "false"} /\ (r.result = "true" => b)
  BY <1>3
<1>6. General(c)'
  <2>1. r.sent <= MaxLen
    BY <1>1, <1>q, <1>3 DEF Call, General
  <2> QED
    BY <1>0, <1>1, <1>2, <1>q, <1>3, <1>4, <1>5, <2>1 DEF Call, General, Opened
<1>7. Sending(c)'
  <2>1. b => q.spc \notin {"open", "copy"}
    BY <1>1, <1>2, <1>q DEF Call, General
  <2>2. q.kind = "upload" => 
          /\ \A i \in DOMAIN q.up : q.up[i].by = c
          /\ q.spc = "open" => q.size = 0 /\ q.pos = 0 /\ ~q.bad
          /\ q.spc \in {"open", "copy"} => \A i \in DOMAIN q.up : q.up[i].short => i = Len(q.up)
          /\ q.status = "OK" /\ q.file # NoCall => q.size = q.sent
    BY <1>0, <1>1, <1>q DEF Call, Sending, Opened
  <2> QED
    BY <1>3, <1>4, <1>5, <2>1, <2>2 DEF Sending, Opened
<1>8. Kept(c)'
  <2>1. b => Local(c)' = Local(c)
    BY <1>1, <1>3, <1>4 DEF Local
  <2>2. ASSUME c \notin disturbed, q.kind = "upload", q.file # NoCall
        PROVE  /\ \A k \in DOMAIN data[q.file] : data[q.file][k].by = c
               /\ q.spc = "copy" =>
                    /\ q.pos = Len(data[q.file])
                    /\ \A k \in DOMAIN data[q.file] : ~data[q.file][k].short
               /\ q.status = "OK" /\ ~q.bad => data[q.file] = Local(c)
    BY <2>2, <1>0, <1>1, <1>q DEF Call, Kept, Opened
  <2>3. r.kind = q.kind /\ r.file = q.file /\ r.spc = q.spc /\ r.pos = q.pos /\ r.bad = q.bad /\ r.torn = q.torn
        /\ r.status = q.status
    BY <1>3
  <2> QED
    BY <1>4, <1>5, <2>1, <2>2, <2>3 DEF Kept, Opened
<1>9. Receiving(c)'
  <2>1. q.kind = "download" =>
          /\ q.spc = "open" => q.down = <<>> /\ q.got = <<>> /\ q.pos = 0
          /\ q.spc = "copy" => \A i \in DOMAIN q.down : ~q.down[i].short
          /\ q.spc \in {"open", "copy"} => q.cut
          /\ q.status = "OK" => q.file # NoCall
    BY <1>0, <1>1, <1>q DEF Call, Receiving, Opened
  <2>2. ASSUME q.kind = "download", c \notin disturbed, q.file # NoCall, b
        PROVE  Fed(c)' /\ (q.spc = "copy" => data[q.file] = q.snap)
    <3>1. FedBy(q) /\ (q.spc = "copy" => data[q.file] = q.snap)
      BY <1>0, <1>1, <1>q, <2>2 DEF Call, Receiving, Opened, Fed
    <3>2. FedBy(r)
      BY <3>1, <1>0, <1>3, <2>2 DEF FedBy, FlowsBy
    <3> QED
      BY <3>1, <3>2, <1>4, FedNow
  <2>3. r.kind = q.kind /\ r.file = q.file /\ r.spc = q.spc /\ r.pos = q.pos /\ r.down = q.down
        /\ r.status = q.status /\ r.cut = q.cut /\ r.got \in {q.got, <<>>} /\ (b => r.snap = q.snap)
    BY <1>3
  <2> QED
    BY <1>4, <1>5, <2>1, <2>2, <2>3 DEF Receiving, Opened
<1>10. Listing(c)'
  BY <1>1, <1>q, <1>3, <1>4 DEF Call, Listing
<1> QED
  BY <1>0, <1>1, <1>2, <1>3, <1>6, <1>7, <1>8, <1>9, <1>10, Quiet DEF Call, Copies

-----------------------------------------------------------------------------
(* The handlers that change files *)

\* Two calls with the same file opened it under the same name.
LEMMA SameName ==
  ASSUME FInv, NEW f \in Calls \cup Names, NEW m \in Names, NEW n \in Names, Named(f, m), Named(f, n)
  PROVE  m = n
<1>1. CASE f \in Names
  <2>1. f \notin Calls
    BY <1>1
  <2> QED
    BY <2>1 DEF Named
<1>2. CASE f \in Calls
  <2>1. f \notin Names
    BY <1>2
  <2> QED
    BY <2>1 DEF Named
<1> QED
  BY <1>1, <1>2

\* A file a call has opened bears the name the call gave it.
LEMMA OpenedFields ==
  ASSUME FInv, NEW d \in Calls, Opened(d)
  PROVE  /\ call[d].file \in Calls \cup Names /\ call[d].file # NoCall /\ call[d].name \in Names
         /\ Named(call[d].file, call[d].name)
  BY DEF FInv, Placed, Call, General, Opened

\* The file f has the name n in the next state.
Later(f, n) == f = n \/ (f \in Calls /\ call'[f].file = f /\ call'[f].name = n)

\* A step of c keeps the names of files, if it gives a file only a name it has.
LEMMA PlacedStep ==
  ASSUME FInv, NEW c \in Calls, \A d \in Calls \ {c} : call'[d] = call[d],
         call[c].file = NoCall \/ (call'[c].file = call[c].file /\ call'[c].name = call[c].name),
         call'[c].file # NoCall => Later(call'[c].file, call'[c].name),
         \A m \in Names : dir'[m] \in {NoCall, dir[m]} \/ Later(dir'[m], m)
  PROVE  Placed'
<1>1. ASSUME NEW e \in Calls \cup Names, NEW m, Named(e, m) PROVE Later(e, m)
  <2>1. CASE e = m
    BY <2>1 DEF Later
  <2>2. CASE e # m
    <3>1. e \in Calls /\ call[e].file = e /\ call[e].name = m /\ e # NoCall
      BY <1>1, <2>2 DEF Named
    <3>2. call'[e].file = e /\ call'[e].name = m
      BY <3>1
    <3> QED
      BY <3>1, <3>2 DEF Later
  <2> QED
    BY <2>1, <2>2
<1>2. ASSUME NEW m \in Names PROVE dir'[m] = NoCall \/ Later(dir'[m], m)
  <2>1. dir[m] = NoCall \/ (dir[m] \in Calls \cup Names /\ Named(dir[m], m))
    BY DEF FInv, Types, Makers, Placed
  <2>2. dir[m] = NoCall \/ Later(dir[m], m)
    BY <2>1, <1>1
  <2> QED
    BY <2>2
<1>3. ASSUME NEW d \in Calls, call'[d].file # NoCall PROVE Later(call'[d].file, call'[d].name)
  <2>1. CASE d # c
    <3>1. call'[d] = call[d] /\ Opened(d)
      BY <1>3, <2>1 DEF Opened
    <3>2. call[d].file \in Calls \cup Names /\ Named(call[d].file, call[d].name)
      BY <3>1, OpenedFields
    <3>3. Later(call[d].file, call[d].name)
      BY <3>2, <1>1
    <3> QED
      BY <3>1, <3>3
  <2> QED
    BY <1>3, <2>1
<1> QED
  BY <1>2, <1>3 DEF Placed, Named, Later, Opened

\* The file is found and opened (server.cpp:84-91).
LEMMA DownloadOpenStep ==
  ASSUME FInv, NEW c \in Calls, DownloadOpen(c)
  PROVE  FInv'
<1>q. call[c] \in Records /\ Call(c) /\ call \in [Calls -> Records] /\ disturbed \subseteq Calls
  BY DEF FInv, Types
<1>1. PICK q \in Records : q = call[c]
  BY <1>q
<1>0. q.kind = "download" /\ q.spc = "open" /\ dir' = dir /\ data' = data
  BY <1>1, IsField DEF DownloadOpen
<1>g. /\ q.cpc # "idle" /\ q.status = "none" /\ q.result # "true" /\ q.file = NoCall /\ q.name \in Names
      /\ q.down = <<>> /\ q.got = <<>> /\ q.pos = 0
  BY <1>0, <1>1, <1>q, IdleFields DEF Call, General, Opened, Receiving
<1>2. CASE call'[c].spc = "done"
  BY <1>2, ReturningStep
<1>3. CASE /\ dir[q.name] # NoCall
           /\ call' = [call EXCEPT ![c].spc = "copy", ![c].file = dir[q.name], ![c].snap = data[dir[q.name]]]
           /\ disturbed' = IF Writers(q.name) = {} THEN disturbed ELSE disturbed \cup {c}
  <2>0. PICK f : f = dir[q.name]
    OBVIOUS
  <2>1. f \in Calls \cup Names /\ f # NoCall /\ Named(f, q.name)
    BY <1>3, <1>g, <2>0 DEF FInv, Types, Makers, Placed
  <2>2. PICK s \in Seq(Chunks) : s = data[f] /\ ShortLast(s)
    BY <2>1 DEF FInv, Types, Marked
  <2>3. PICK r : r = [q EXCEPT !.spc = "copy", !.file = f, !.snap = s]
    OBVIOUS
  <2>4. r \in Records
    BY <2>1, <2>2, <2>3 DEF Records, SpcT, ChunkSeqs, Makers
  <2>5. /\ r.spc = "copy" /\ r.file = f /\ r.snap = s
        /\ r.kind = q.kind /\ r.name = q.name /\ r.cpc = q.cpc /\ r.more = q.more /\ r.sent = q.sent
        /\ r.up = q.up /\ r.down = q.down /\ r.got = q.got /\ r.pos = q.pos /\ r.cut = q.cut /\ r.told = q.told
        /\ r.status = q.status /\ r.result = q.result /\ r.tail = q.tail
    BY <2>3 DEF Records
  <2>6. Moves(c, r)
    BY <1>1, <1>3, <2>0, <2>2, <2>3 DEF Moves
  <2>7. call'[c] = r /\ call' \in [Calls -> Records] /\ \A d \in Calls \ {c} : call'[d] = call[d]
    BY <1>q, <2>4, <2>6, Move
  <2>8. disturbed \subseteq disturbed' /\ disturbed' \subseteq Calls
        /\ (c \notin disturbed' => Writers(q.name) = {})
    BY <1>3, <1>q
  <2>9. Types'
    BY <1>0, <2>7, <2>8 DEF FInv, Types
  <2>10. \A d \in Calls \ {c} : Call(d)'
    BY <1>0, <2>4, <2>6, <2>8, Others
  <2>11. Call(c)'
    <3>1. General(c)'
      BY <1>0, <1>1, <1>q, <1>g, <2>1, <2>5, <2>7 DEF Call, General, Opened
    <3>2. FedBy(r)
      <4>1. Follows(<<>>, s, 0) /\ Len(<<>>) = 0 /\ 0 <= Len(s)
        BY LenProperties DEF Follows
      <4> QED
        BY <4>1, <1>g, <2>2, <2>5 DEF FedBy, FlowsBy
    <3>3. Receiving(c)'
      <4>1. q.cpc \in {"finish", "done"} => q.cut
        BY <1>0, <1>1, <1>q DEF Call, Receiving
      <4>2. \A i \in DOMAIN <<>> : FALSE
        OBVIOUS
      <4> QED
        BY <1>0, <1>g, <2>2, <2>5, <2>7, <3>2, <4>1, <4>2, FedNow DEF Receiving, Opened
    <3> QED
      BY <1>0, <2>5, <2>7, <3>1, <3>3, NotUpload DEF Call
  <2>12. \A d \in Calls : /\ call'[d].name = call[d].name
                          /\ Copies(d)' <=> Copies(d)
                          /\ d # c => call'[d].file = call[d].file /\ call'[d].kind = call[d].kind
                                      /\ (Opened(d)' <=> Opened(d))
    BY <1>0, <1>1, <2>5, <2>7 DEF Copies, Opened
  <2>14. Placed'
    <3>1. Later(f, q.name)
      <4>1. f \in Calls /\ f # q.name => f # c
        BY <2>1, <1>1, <1>g DEF Named
      <4> QED
        BY <4>1, <2>1, <2>7 DEF Named, Later
    <3> QED
      BY <3>1, <1>0, <1>1, <1>g, <2>5, <2>7, PlacedStep
  <2>15. Alone'
    <3> SUFFICES ASSUME NEW e \in Calls \ disturbed', Opened(e)'
                 PROVE  /\ \A d \in Calls : Copies(d)' /\ call'[d].name = call'[e].name => d = e
                        /\ dir'[call'[e].name] = call'[e].file
      BY DEF Alone
    <3>1. CASE e = c
      <4>1. ASSUME NEW d \in Calls, Copies(d), call[d].name = q.name PROVE FALSE
        <5>1. d \in Writers(q.name)
          BY <4>1, IsField DEF Copies, Writers
        <5> QED
          BY <5>1, <3>1, <2>8
      <4> QED
        BY <3>1, <4>1, <1>0, <1>1, <2>0, <2>5, <2>7, <2>12
    <3>2. CASE e # c
      <4>1. Opened(e) /\ e \in Calls \ disturbed
        BY <3>2, <2>8, <2>12
      <4> QED
        BY <4>1, <3>2, <1>0, <2>12 DEF FInv, Alone
    <3> QED
      BY <3>1, <3>2
  <2>16. Marked'
    BY <1>0 DEF FInv, Marked, ShortLast
  <2>17. Marks'
    <3> SUFFICES ASSUME NEW e \in Calls \cup Names, NEW j \in DOMAIN data[e]
                 PROVE  /\ data[e][j].by \in Calls \ disturbed' =>
                              call'[data[e][j].by].file = e /\ call'[data[e][j].by].kind = "upload"
                        /\ data[e][j].by \in Names =>
                              data[e][j].by = e /\ \A d \in Calls : call'[d].kind = "upload" => call'[d].file # e
                        /\ \A k \in DOMAIN data[e] :
                              data[e][k].by # data[e][j].by => data[e][j].by \in disturbed' \cup {NoCall}
      BY <1>0 DEF Marks
    <3>1. PICK b : b = data[e][j].by
      OBVIOUS
    <3>2. /\ b \in Calls \ disturbed => call[b].file = e /\ call[b].kind = "upload"
          /\ b \in Names => b = e /\ \A d \in Calls : call[d].kind = "upload" => call[d].file # e
          /\ \A k \in DOMAIN data[e] : data[e][k].by # b => b \in disturbed \cup {NoCall}
      BY <3>1 DEF FInv, Marks
    <3>3. ASSUME b \in Calls \ disturbed' PROVE call'[b].file = e /\ call'[b].kind = "upload"
      <4>1. b \in Calls /\ call[b].file = e /\ call[b].kind = "upload"
        BY <3>2, <3>3, <2>8
      <4>2. b # c
        BY <4>1, <1>0, <1>1
      <4> QED
        BY <4>1, <4>2, <2>7
    <3>4. ASSUME b \in Names, NEW d \in Calls, call'[d].kind = "upload" PROVE call'[d].file # e
      <4>1. d # c
        BY <3>4, <1>0, <2>5, <2>7
      <4> QED
        BY <4>1, <3>2, <3>4, <2>7
    <3> QED
      BY <3>1, <3>2, <3>3, <3>4, <2>8
  <2> QED
    BY <2>9, <2>10, <2>11, <2>14, <2>15, <2>16, <2>17 DEF FInv
<1>4. CASE call' = [call EXCEPT ![c] =
                Return(@, IF dir[q.name] = NoCall THEN "NOT_FOUND" ELSE "INTERNAL", FALSE)]
  <2>1. PICK s \in StatusT, b \in BOOLEAN : s = (IF dir[q.name] = NoCall THEN "NOT_FOUND" ELSE "INTERNAL") /\ b = FALSE
    BY DEF StatusT
  <2>2. PICK r : r = Return(q, s, b)
    OBVIOUS
  <2>3. r.spc = "done"
    <3>1. ReturnedAs(q, s, r)
      BY <2>2, Returned
    <3> QED
      BY <3>1 DEF ReturnedAs
  <2>4. call'[c] = r
    BY <1>1, <1>4, <1>q, <2>1, <2>2
  <2> QED
    BY <1>2, <2>3, <2>4
<1> QED
  BY <1>1, <1>3, <1>4 DEF DownloadOpen

\* The name is removed, and its users are disturbed (server.cpp:150-170).
LEMMA DeleteFileStep ==
  ASSUME FInv, NEW c \in Calls, DeleteFile(c)
  PROVE  FInv'
<1>q. call[c] \in Records /\ Call(c) /\ call \in [Calls -> Records] /\ disturbed \subseteq Calls
      /\ dir \in [Names -> Makers]
  BY DEF FInv, Types
<1>1. PICK q \in Records : q = call[c]
  BY <1>q
<1>0. q.kind = "delete" /\ q.spc = "remove" /\ data' = data
  BY <1>1, IsField DEF DeleteFile
<1>g. /\ q.cpc # "idle" /\ q.status = "none" /\ q.result # "true" /\ q.file = NoCall /\ q.name \in Names
  BY <1>0, <1>1, <1>q, IdleFields DEF Call, General, Opened
<1>2. CASE dir' = dir /\ disturbed' = disturbed
  BY <1>2, ReturningStep
<1>3. CASE /\ dir' = [dir EXCEPT ![q.name] = NoCall]
           /\ call' = [call EXCEPT ![c] = Return(@, "OK", dir[q.name] # NoCall)]
           /\ disturbed' = disturbed \cup Users(q.name)
                            \cup {d \in Calls : call[d].kind = "list" /\ dir[q.name] # NoCall}
  <2>1. PICK st \in StatusT, b \in BOOLEAN : st = "OK" /\ b = (dir[q.name] # NoCall)
    BY DEF StatusT
  <2>2. PICK r : r = Return(q, st, b)
    OBVIOUS
  <2>4. /\ r \in Records /\ r.spc = "done" /\ r.up = <<>> /\ r.status \in {"none", "OK"}
        /\ r.kind = q.kind /\ r.name = q.name /\ r.cpc = q.cpc /\ r.more = q.more /\ r.sent = q.sent
        /\ r.file = q.file /\ r.down = q.down /\ r.result = q.result
        /\ r.tail = q.tail /\ r.cut = q.cut /\ r.told \subseteq q.told
    <3>1. /\ r \in Records /\ r.spc = "done" /\ r.up = <<>> /\ r.status \in {"none", st}
          /\ r.kind = q.kind /\ r.name = q.name /\ r.cpc = q.cpc /\ r.more = q.more /\ r.sent = q.sent
          /\ r.file = q.file /\ r.down = q.down /\ r.result = q.result
        /\ r.tail = q.tail /\ r.cut = q.cut /\ r.told \subseteq q.told
      <4>1. ReturnedAs(q, st, r)
        BY <2>2, Returned
      <4> QED
        BY <4>1 DEF ReturnedAs
    <3> QED
      BY <2>1, <3>1
  <2>6. Moves(c, r)
    BY <1>1, <1>3, <2>1, <2>2 DEF Moves
  <2>7. call'[c] = r /\ call' \in [Calls -> Records] /\ \A d \in Calls \ {c} : call'[d] = call[d]
    BY <1>q, <2>4, <2>6, Move
  <2>8. disturbed \subseteq disturbed' /\ disturbed' \subseteq Calls
        /\ \A d \in Calls \ disturbed' : d \notin Users(q.name) /\ (call[d].kind = "list" => dir[q.name] = NoCall)
    BY <1>3, <1>q DEF Users
  <2>d. dir' \in [Names -> Makers] /\ dir'[q.name] = NoCall /\ \A m \in Names : m # q.name => dir'[m] = dir[m]
    BY <1>3, <1>q, <1>g DEF Makers
  <2>9. Types'
    BY <1>0, <2>7, <2>8, <2>d DEF FInv, Types
  <2>10. ASSUME NEW d \in Calls \ {c} PROVE Call(d)'
    <3>1. ASSUME call[d].spc = "stat", dir'[call[d].name] = NoCall
          PROVE  dir[call[d].name] = NoCall \/ d \in disturbed'
      <4>1. call[d].kind = "list" /\ call[d].name \in Names
        BY <3>1 DEF FInv, Call, General
      <4> QED
        BY <3>1, <4>1, <2>8, <2>d
    <3> QED
      BY <3>1, <1>0, <2>4, <2>6, <2>8, Others
  <2>11. Call(c)'
    <3>1. General(c)'
      <4>1. Len(<<>>) = 0 /\ 0 <= Window
        OBVIOUS
      <4>2. r.told # {} => r.cut
        BY <1>1, <1>q, <2>4 DEF Call, General
      <4> QED
        BY <4>1, <4>2, <1>0, <1>1, <1>q, <1>g, <2>4, <2>7 DEF Call, General, Opened
    <3> QED
      BY <1>0, <2>4, <2>7, <3>1, NotUpload, NotDownload DEF Call
  <2>12. \A d \in Calls : /\ call'[d].name = call[d].name /\ call'[d].file = call[d].file
                          /\ call'[d].kind = call[d].kind
                          /\ Copies(d)' <=> Copies(d)
                          /\ Opened(d)' <=> Opened(d)
    BY <1>0, <1>1, <2>4, <2>7 DEF Copies, Opened
  <2>14. Placed'
    BY <1>g, <1>1, <2>4, <2>7, <2>d, PlacedStep
  <2>15. Alone'
    <3> SUFFICES ASSUME NEW e \in Calls \ disturbed', Opened(e)'
                 PROVE  /\ \A d \in Calls : Copies(d)' /\ call'[d].name = call'[e].name => d = e
                        /\ dir'[call'[e].name] = call'[e].file
      BY DEF Alone
    <3>1. Opened(e) /\ e \in Calls \ disturbed
      BY <2>8, <2>12
    <3>2. call[e].name # q.name /\ call[e].name \in Names
      BY <3>1, <2>8, OpenedFields DEF Users
    <3> QED
      BY <3>1, <3>2, <2>d, <2>12 DEF FInv, Alone
  <2>16. Marked'
    BY <1>0 DEF FInv, Marked, ShortLast
  <2>17. Marks'
    <3>1. Marks
      BY DEF FInv
    <3> QED
      BY <3>1, <1>0, <2>8, <2>12 DEF Marks
  <2> QED
    BY <2>9, <2>10, <2>11, <2>14, <2>15, <2>16, <2>17 DEF FInv
<1> QED
  BY <1>1, <1>2, <1>3 DEF DeleteFile

\* The file that an upload opens is emptied, and its users are disturbed.
LEMMA UploadOpenStep ==
  ASSUME FInv, NEW c \in Calls, UploadOpen(c)
  PROVE  FInv'
<1>q. call[c] \in Records /\ Call(c) /\ call \in [Calls -> Records] /\ disturbed \subseteq Calls
      /\ dir \in [Names -> Makers] /\ data \in [Calls \cup Names -> Seq(Chunks)]
  BY DEF FInv, Types
<1>1. PICK q \in Records : q = call[c]
  BY <1>q
<1>0. q.kind = "upload" /\ q.spc = "open"
  BY <1>1, IsField DEF UploadOpen
<1>g. /\ q.cpc # "idle" /\ q.status = "none" /\ q.result \in {"none", "false"} /\ q.file = NoCall /\ q.name \in Names
      /\ q.size = 0 /\ q.pos = 0
  BY <1>0, <1>1, <1>q, IdleFields DEF Call, General, Opened, Sending
<1>2. PICK f : f = IF dir[q.name] = NoCall THEN c ELSE dir[q.name]
  OBVIOUS
<1>n. ASSUME NEW m, Named(c, m), m \in Names PROVE FALSE
  BY <1>n, <1>1, <1>g DEF Named
<1>3. /\ f \in Calls \cup Names /\ f # NoCall /\ (f = c \/ Named(f, q.name)) /\ (f = c => dir[q.name] = NoCall)
  <2>1. dir[q.name] = NoCall \/ (dir[q.name] \in Calls \cup Names /\ Named(dir[q.name], q.name))
    BY <1>q, <1>g DEF FInv, Placed, Makers
  <2> QED
    BY <1>2, <2>1, <1>n, <1>g
<1>4. ASSUME NEW d \in Calls, Opened(d), call[d].file = f PROVE call[d].name = q.name /\ d # c
  <2>1. call[d].name \in Names /\ Named(f, call[d].name)
    BY <1>4, OpenedFields
  <2>2. f # c
    BY <2>1, <1>n
  <2> QED
    BY <1>1, <1>3, <1>4, <1>g, <2>1, <2>2, SameName DEF Opened
<1>5. PICK r : r = [q EXCEPT !.spc = "copy", !.file = f]
  OBVIOUS
<1>6. r \in Records
  BY <1>3, <1>5 DEF Records, SpcT, Makers
<1>7. /\ r.spc = "copy" /\ r.file = f
      /\ r.kind = q.kind /\ r.name = q.name /\ r.cpc = q.cpc /\ r.more = q.more /\ r.sent = q.sent /\ r.tail = q.tail
      /\ r.up = q.up /\ r.down = q.down /\ r.pos = q.pos /\ r.cut = q.cut /\ r.told = q.told /\ r.half = q.half
      /\ r.status = q.status /\ r.result = q.result /\ r.size = q.size /\ r.bad = q.bad /\ r.torn = q.torn
  BY <1>5 DEF Records
<1>8. /\ Moves(c, r) /\ dir' = [dir EXCEPT ![q.name] = f] /\ data' = [data EXCEPT ![f] = <<>>]
      /\ disturbed' = disturbed \cup (Users(q.name) \ {c}) \cup (IF Writers(q.name) # {} THEN {c} ELSE {})
  <2>1. call' = [call EXCEPT ![c].spc = "copy", ![c].file = f]
    BY <1>1, <1>2 DEF UploadOpen
  <2>2. Moves(c, r)
    BY <2>1, <1>1, <1>5 DEF Moves
  <2> QED
    BY <2>2, <1>1, <1>2 DEF UploadOpen
<1>9. call'[c] = r /\ call' \in [Calls -> Records] /\ \A d \in Calls \ {c} : call'[d] = call[d]
  BY <1>q, <1>6, <1>8, Move
<1>10. disturbed \subseteq disturbed' /\ disturbed' \subseteq Calls
       /\ (\A d \in Calls \ disturbed' : d # c => d \notin Users(q.name))
       /\ (c \notin disturbed' => Writers(q.name) = {})
  BY <1>8, <1>q DEF Users
<1>d. /\ dir' \in [Names -> Makers] /\ dir'[q.name] = f /\ \A m \in Names : m # q.name => dir'[m] = dir[m]
  BY <1>3, <1>8, <1>q, <1>g DEF Makers
<1>e. <<>> \in Seq(Chunks) /\ Len(<<>>) = 0 /\ \A i \in DOMAIN <<>> : FALSE
  OBVIOUS
<1>f. /\ data' \in [Calls \cup Names -> Seq(Chunks)] /\ data'[f] = <<>>
      /\ \A e \in Calls \cup Names : e # f => data'[e] = data[e]
  BY <1>3, <1>8, <1>q, <1>e
<1>11. Types'
  BY <1>9, <1>10, <1>d, <1>f DEF FInv, Types
<1>12. ASSUME NEW d \in Calls \ {c} PROVE Call(d)'
  <2>1. ASSUME call[d].spc = "stat", dir'[call[d].name] = NoCall
        PROVE  dir[call[d].name] = NoCall \/ d \in disturbed'
    <3>1. call[d].name \in Names
      BY <2>1 DEF FInv, Call, General
    <3> QED
      BY <2>1, <3>1, <1>3, <1>d
  <2>2. ASSUME d \notin disturbed', Opened(d) PROVE data'[call[d].file] = data[call[d].file]
    <3>1. call[d].name # q.name
      BY <2>2, <1>10 DEF Users, Opened
    <3> QED
      BY <2>2, <3>1, <1>4, <1>f, OpenedFields
  <2> QED
    BY <2>1, <2>2, <1>6, <1>8, <1>10, Others
<1>13. Call(c)'
  <2>1. General(c)'
    BY <1>0, <1>1, <1>q, <1>g, <1>3, <1>7, <1>9 DEF Call, General, Opened
  <2>2. Sending(c)'
    <3>1. /\ \A i \in DOMAIN q.up : q.up[i].by = c
          /\ q.half => q.cpc # "write"
          /\ \A i \in DOMAIN q.up : q.up[i].short => i = Len(q.up)
          /\ q.result = "none" =>
              /\ \A i \in DOMAIN q.up : q.up[i] = Chunk(c, q.size + i, q.tail /\ q.size + i = q.sent)
              /\ ~q.cut => q.size + Len(q.up) = q.sent
              /\ q.tail /\ ~q.cut => q.up # <<>>
      BY <1>0, <1>1, <1>q DEF Call, Sending
    <3> QED
      BY <3>1, <1>g, <1>7, <1>9 DEF Sending
  <2>3. Kept(c)'
    BY <1>e, <1>f, <1>g, <1>7, <1>9 DEF Kept
  <2>4. Listing(c)'
    BY <1>0, <1>7, <1>9 DEF Listing
  <2> QED
    BY <1>0, <1>7, <1>9, <2>1, <2>2, <2>3, <2>4, NotDownload DEF Call
<1>14. Placed'
  <2>1. Later(f, q.name)
    <3>1. CASE f = c
      BY <3>1, <1>7, <1>9 DEF Later
    <3>2. CASE f # c
      BY <3>2, <1>3, <1>9 DEF Named, Later
    <3> QED
      BY <3>1, <3>2
  <2> QED
    BY <2>1, <1>1, <1>g, <1>7, <1>9, <1>d, PlacedStep
<1>15. Alone'
  <2> SUFFICES ASSUME NEW e \in Calls \ disturbed', Opened(e)'
               PROVE  /\ \A d \in Calls : Copies(d)' /\ call'[d].name = call'[e].name => d = e
                      /\ dir'[call'[e].name] = call'[e].file
    BY DEF Alone
  <2>1. CASE e = c
    <3>1. ASSUME NEW d \in Calls, d # c, Copies(d)', call'[d].name = q.name PROVE FALSE
      <4>1. Copies(d) /\ call[d].name = q.name
        BY <3>1, <1>9 DEF Copies
      <4>2. d \in Writers(q.name)
        BY <4>1, IsField DEF Copies, Writers
      <4> QED
        BY <4>2, <2>1, <1>10
    <3> QED
      BY <2>1, <3>1, <1>7, <1>9, <1>d
  <2>2. CASE e # c
    <3>1. Opened(e) /\ e \in Calls \ disturbed /\ call'[e] = call[e]
      BY <2>2, <1>9, <1>10 DEF Opened
    <3>2. call[e].name # q.name /\ call[e].name \in Names
      BY <2>2, <3>1, <1>10, OpenedFields DEF Users
    <3>3. /\ \A d \in Calls : Copies(d) /\ call[d].name = call[e].name => d = e
          /\ dir[call[e].name] = call[e].file
      BY <3>1 DEF FInv, Alone
    <3>4. ASSUME NEW d \in Calls, Copies(d)', call'[d].name = call[e].name PROVE d = e
      <4>1. d # c
        BY <3>2, <3>4, <1>7, <1>9
      <4>2. Copies(d) /\ call[d].name = call[e].name
        BY <3>4, <4>1, <1>9 DEF Copies
      <4> QED
        BY <3>3, <4>2
    <3> QED
      BY <3>1, <3>2, <3>3, <3>4, <1>d
  <2> QED
    BY <2>1, <2>2
<1>16. Marked'
  BY <1>e, <1>f DEF FInv, Marked, ShortLast
<1>17. Marks'
  <2> SUFFICES ASSUME NEW e \in Calls \cup Names, NEW j \in DOMAIN data'[e]
               PROVE  /\ data'[e][j].by \in Calls \ disturbed' =>
                            call'[data'[e][j].by].file = e /\ call'[data'[e][j].by].kind = "upload"
                      /\ data'[e][j].by \in Names =>
                            data'[e][j].by = e /\ \A d \in Calls : call'[d].kind = "upload" => call'[d].file # e
                      /\ \A k \in DOMAIN data'[e] :
                            data'[e][k].by # data'[e][j].by => data'[e][j].by \in disturbed' \cup {NoCall}
    BY DEF Marks
  <2>0. e # f /\ data'[e] = data[e]
    BY <1>e, <1>f
  <2>1. PICK b : b = data[e][j].by
    OBVIOUS
  <2>2. /\ b \in Calls \ disturbed => call[b].file = e /\ call[b].kind = "upload"
        /\ b \in Names => b = e /\ \A d \in Calls : call[d].kind = "upload" => call[d].file # e
        /\ \A k \in DOMAIN data[e] : data[e][k].by # b => b \in disturbed \cup {NoCall}
    BY <2>0, <2>1 DEF FInv, Marks
  <2>3. ASSUME b \in Calls \ disturbed' PROVE call'[b].file = e /\ call'[b].kind = "upload"
    <3>1. b \in Calls /\ call[b].file = e /\ call[b].kind = "upload"
      BY <2>2, <2>3, <1>10
    <3>2. b # c
      BY <3>1, <1>1, <1>g
    <3> QED
      BY <3>1, <3>2, <1>9
  <2>4. ASSUME b \in Names, NEW d \in Calls, call'[d].kind = "upload" PROVE call'[d].file # e
    <3>1. CASE d = c
      BY <3>1, <2>0, <1>7, <1>9
    <3>2. CASE d # c
      BY <3>2, <2>2, <2>4, <1>9
    <3> QED
      BY <3>1, <3>2
  <2> QED
    BY <2>0, <2>1, <2>2, <2>3, <2>4, <1>10
<1> QED
  BY <1>11, <1>12, <1>13, <1>14, <1>15, <1>16, <1>17 DEF FInv

\* What a write makes of a file: chunks that were there, the new one, or
\* bytes of several; at the end of a file of whole chunks, one chunk more.
Writes(w, s, p, x) ==
  /\ w \in Seq(Chunks) /\ ShortLast(w)
  /\ \A k \in DOMAIN w : w[k].by \in {x.by, NoCall} \/ (k \in DOMAIN s /\ w[k] = s[k])
  /\ p = Len(s) /\ (\A k \in DOMAIN s : ~s[k].short) =>
       /\ Len(w) = p + 1 /\ DOMAIN w = 1..(p + 1) /\ w[p + 1] = x
       /\ \A k \in 1..p : k \in DOMAIN s /\ w[k] = s[k]

\* A write into a file does that, wherever the handler's position is.
LEMMA WritesChunk ==
  ASSUME NEW s \in Seq(Chunks), ShortLast(s), NEW p \in Nat, NEW x \in Chunks
  PROVE  Writes(Written(s, p, x), s, p, x)
<1>1. PICK n \in Nat : n = (IF p < Len(s) THEN Len(s) ELSE p + 1)
  BY LenProperties
<1>s. Len(s) \in Nat /\ DOMAIN s = 1..Len(s) /\ \A k \in 1..Len(s) : s[k] \in Chunks
  BY LenProperties, ElementOfSeq
<1>n. /\ p < Len(s) => n = Len(s)
      /\ ~(p < Len(s)) => n = p + 1
      /\ (p < Len(s) <=> p + 1 <= Len(s)) /\ (p < Len(s) <=> ~(p >= Len(s)))
  <2>1. Len(s) \in Nat
    BY LenProperties
  <2> QED
    BY <2>1, <1>1
<1>g. \A b \in BOOLEAN : Garbled(b) \in Chunks /\ Garbled(b).by = NoCall /\ Garbled(b).short = b
  BY DEF Garbled, Chunk, Chunks, Makers
<1>b. x.short \in BOOLEAN /\ \A k \in 1..Len(s) : s[k].short \in BOOLEAN
  BY <1>s DEF Chunks
<1>2. PICK w : w = Written(s, p, x)
  OBVIOUS
<1>3. w = [k \in 1..n |->
     IF k = p + 1 THEN IF x.short /\ k <= Len(s) THEN Garbled(s[k].short) ELSE x
     ELSE IF k > Len(s) THEN Garbled(FALSE)
     ELSE IF s[k].short /\ p >= Len(s) THEN Garbled(FALSE) ELSE s[k]]
  BY <1>1, <1>2 DEF Written
<1>4. DOMAIN w = 1..n
  BY <1>3
<1>5. ASSUME NEW k \in 1..n
      PROVE  /\ k = p + 1 /\ x.short /\ k <= Len(s) => w[k] = Garbled(s[k].short)
             /\ k = p + 1 /\ ~(x.short /\ k <= Len(s)) => w[k] = x
             /\ k # p + 1 /\ k > Len(s) => w[k] = Garbled(FALSE)
             /\ k # p + 1 /\ ~(k > Len(s)) /\ s[k].short /\ p >= Len(s) => w[k] = Garbled(FALSE)
             /\ k # p + 1 /\ ~(k > Len(s)) /\ ~(s[k].short /\ p >= Len(s)) => w[k] = s[k]
  BY <1>3
<1>k. ASSUME NEW k \in 1..n PROVE k \in Nat /\ k >= 1 /\ k <= n /\ (k <= Len(s) => k \in 1..Len(s)) /\ (~(k > Len(s)) <=> k <= Len(s))
  BY <1>s
<1>6. ASSUME NEW k \in 1..n
      PROVE  /\ w[k] \in Chunks
             /\ w[k].by \in {x.by, NoCall} \/ (k \in DOMAIN s /\ w[k] = s[k])
             /\ w[k].short => k = n
  <2>0. k \in Nat /\ k >= 1 /\ k <= n /\ (k <= Len(s) => k \in 1..Len(s)) /\ (~(k > Len(s)) <=> k <= Len(s))
    BY <1>k
  <2>1. CASE k = p + 1 /\ x.short /\ k <= Len(s)
    <3>1. PICK b \in BOOLEAN : b = s[k].short
      BY <2>0, <2>1, <1>b
    <3>2. w[k] = Garbled(b)
      BY <2>1, <3>1, <1>5
    <3>3. b => k = Len(s) 
      BY <2>0, <2>1, <3>1, <1>s DEF ShortLast
    <3>4. k = Len(s) => k = n
      BY <2>1, <1>1, <1>s
    <3> QED
      BY <3>2, <3>3, <3>4, <1>g
  <2>2. CASE k = p + 1 /\ ~(x.short /\ k <= Len(s))
    <3>1. w[k] = x
      BY <2>2, <1>5
    <3>2. ~(k <= Len(s)) => k = n
      BY <2>2, <1>n
    <3> QED
      BY <2>2, <3>1, <3>2
  <2>3. CASE k # p + 1 /\ k > Len(s)
    BY <2>3, <1>5, <1>g
  <2>4. CASE k # p + 1 /\ ~(k > Len(s)) /\ s[k].short /\ p >= Len(s)
    BY <2>4, <1>5, <1>g
  <2>5. CASE k # p + 1 /\ ~(k > Len(s)) /\ ~(s[k].short /\ p >= Len(s))
    <3>1. w[k] = s[k]
      BY <2>5, <1>5
    <3>2. k \in 1..Len(s)
      BY <2>0, <2>5
    <3>3. s[k].short => k = Len(s) /\ ~(p >= Len(s))
      BY <2>5, <3>2, <1>s DEF ShortLast
    <3>4. ~(p >= Len(s)) => n = Len(s)
      BY <1>n
    <3> QED
      BY <3>1, <3>2, <3>3, <3>4, <1>s
  <2> QED
    BY <2>1, <2>2, <2>3, <2>4, <2>5
<1>7. w \in Seq(Chunks) /\ Len(w) = n
  <2>1. w = [k \in 1..n |-> w[k]]
    BY <1>3
  <2>2. w \in [1..n -> Chunks]
    BY <2>1, <1>6
  <2>3. w \in Seq(Chunks)
    <3>1. [k \in 1..n |-> w[k]] \in Seq(Chunks)
      BY <1>6
    <3> QED
      BY <2>1, <3>1
  <2>4. Len(w) \in Nat /\ DOMAIN w = 1..Len(w)
    BY <2>3, LenProperties
  <2>5. Len(w) = n
    BY <1>4, <2>4
  <2> QED
    BY <2>3, <2>5
<1>8. ShortLast(w)
  BY <1>4, <1>6, <1>7 DEF ShortLast
<1>9. ASSUME p = Len(s), \A k \in DOMAIN s : ~s[k].short
      PROVE  /\ Len(w) = p + 1 /\ DOMAIN w = 1..(p + 1) /\ w[p + 1] = x
             /\ \A k \in 1..p : k \in DOMAIN s /\ w[k] = s[k]
  <2>1. n = p + 1 /\ p + 1 \in 1..n /\ ~(p + 1 <= Len(s))
    BY <1>1, <1>9, <1>s
  <2>2. w[p + 1] = x
    BY <2>1, <1>5
  <2>3. ASSUME NEW k \in 1..p PROVE k \in DOMAIN s /\ w[k] = s[k]
    <3>1. k \in 1..n /\ k # p + 1 /\ ~(k > Len(s)) /\ k \in DOMAIN s
      BY <2>1, <1>9, <1>s
    <3>2. ~s[k].short
      BY <3>1, <1>9
    <3> QED
      BY <3>1, <3>2, <1>5
  <2> QED
    BY <2>1, <2>2, <2>3, <1>4, <1>7
<1> QED
  BY <1>2, <1>4, <1>6, <1>7, <1>8, <1>9 DEF Writes

\* The record of an upload whose handler has taken the chunk x, u is what is
\* left on the stream; the write worked if ok.
Took(q, r, x, u, ok) ==
  /\ r \in Records /\ r.kind = q.kind /\ r.name = q.name /\ r.cpc = q.cpc /\ r.more = q.more /\ r.sent = q.sent
  /\ r.tail = q.tail /\ r.cut = q.cut /\ r.told \subseteq q.told /\ r.file = q.file /\ r.down = q.down
  /\ r.result = q.result
  /\ ok => r.bad = q.bad
  /\ ~ok => r.bad = TRUE
  /\ x.short => /\ r.spc = "done" /\ r.up = <<>> /\ r.status \in {"none", "OK"} /\ r.half = FALSE
                /\ q.cut => r.status = "none"
                /\ ~q.cut => r.size = q.size + 1
  /\ ~x.short => /\ r.half = q.half /\ r.size = q.size + 1
                 /\ r.spc = "copy" /\ r.up = u /\ r.status = q.status
                 /\ ok => r.pos = q.pos + 1
                 /\ ~ok => r.pos = q.pos

Taken(c, q, r, x, u, ok) ==
  /\ q.kind = "upload" /\ q.spc = "copy" /\ q.up # <<>>
  /\ x \in Chunks /\ u \in Seq(Chunks) /\ ok \in BOOLEAN
  /\ x = Head(q.up) /\ u = Tail(q.up) /\ Moves(c, r) /\ Took(q, r, x, u, ok)
  /\ ok => data' = [data EXCEPT ![q.file] = Written(data[q.file], q.pos, x)] /\ ~q.bad
  /\ ~ok => data' = data

\* What the handler's round of the loop does (server.cpp:60-66).
LEMMA Takes ==
  ASSUME FInv, NEW c \in Calls, UploadChunk(c), NEW q \in Records, q = call[c]
  PROVE  /\ q.kind = "upload" /\ q.spc = "copy" /\ q.up # <<>>
         /\ dir' = dir /\ disturbed' = disturbed
         /\ \E ok, r, x, u : Taken(c, q, r, x, u, ok)
<1>1. q.kind = "upload" /\ q.spc = "copy" /\ q.up # <<>> /\ dir' = dir /\ disturbed' = disturbed
  BY IsField DEF UploadChunk
<1>s. q.up \in Seq(Chunks) /\ q.size \in Nat /\ q.pos \in Nat /\ q.bad \in BOOLEAN
  BY Fields
<1>2. PICK x \in Chunks, u \in Seq(Chunks) : x = Head(q.up) /\ u = Tail(q.up)
  BY <1>1, <1>s, HeadTailProperties
<1>3. PICK n \in Nat, p \in Nat : n = q.size + 1 /\ p = q.pos + 1
  BY <1>s
<1>a. PICK t : t = [q EXCEPT !.up = u, !.size = n]
  OBVIOUS
<1>b. /\ t \in Records /\ t.up = u /\ t.size = n /\ t.pos = q.pos
  BY <1>a DEF Records, ChunkSeqs
<1>c. PICK ok \in {FALSE, ~q.bad} :
        LET z == [q EXCEPT !.up = u, !.size = n]
            v == IF ok THEN [z EXCEPT !.pos = z.pos + 1] ELSE [z EXCEPT !.bad = TRUE]
        IN  /\ data' = IF ok THEN [data EXCEPT ![z.file] = Written(@, z.pos, x)] ELSE data
            /\ call' = [call EXCEPT ![c] = IF x.short THEN Return(v, "OK", TRUE) ELSE v]
  BY <1>2, <1>3 DEF UploadChunk
<1>f. LET v == IF ok THEN [t EXCEPT !.pos = t.pos + 1] ELSE [t EXCEPT !.bad = TRUE]
      IN  call' = [call EXCEPT ![c] = IF x.short THEN Return(v, "OK", TRUE) ELSE v]
  BY <1>a, <1>c
<1>d. PICK v : v = (IF ok THEN [t EXCEPT !.pos = p] ELSE [t EXCEPT !.bad = TRUE])
  OBVIOUS
<1>e. t.pos + 1 = p /\ t.file = q.file
  BY <1>a, <1>b, <1>3 DEF Records
<1>4. /\ ok \in BOOLEAN
      /\ ok => ~q.bad
      /\ v = (IF ok THEN [t EXCEPT !.pos = p] ELSE [t EXCEPT !.bad = TRUE])
      /\ data' = IF ok THEN [data EXCEPT ![q.file] = Written(@, q.pos, x)] ELSE data
      /\ Moves(c, IF x.short THEN Return(v, "OK", TRUE) ELSE v)
  <2>1. ok \in BOOLEAN /\ (ok => ~q.bad)
    BY <1>s
  <2>2. data' = IF ok THEN [data EXCEPT ![q.file] = Written(@, q.pos, x)] ELSE data
    BY <1>c, <1>e, <1>a, <1>b
  <2>3. call' = [call EXCEPT ![c] = IF x.short THEN Return(v, "OK", TRUE) ELSE v]
    BY <1>f, <1>d, <1>e
  <2> QED
    BY <1>d, <2>1, <2>2, <2>3 DEF Moves
<1>5. PICK r : r = IF x.short THEN Return(v, "OK", TRUE) ELSE v
  OBVIOUS
<1>6. /\ v \in Records /\ v.kind = q.kind /\ v.name = q.name /\ v.cpc = q.cpc /\ v.more = q.more /\ v.sent = q.sent
      /\ v.tail = q.tail /\ v.half = q.half /\ v.cut = q.cut /\ v.told = q.told /\ v.file = q.file /\ v.down = q.down
      /\ v.result = q.result /\ v.size = n /\ v.up = u /\ v.spc = q.spc /\ v.status = q.status
      /\ (ok => v.bad = q.bad /\ v.pos = p) /\ (~ok => v.bad = TRUE /\ v.pos = q.pos)
  <2>0. /\ t.kind = q.kind /\ t.name = q.name /\ t.cpc = q.cpc /\ t.more = q.more /\ t.sent = q.sent
        /\ t.tail = q.tail /\ t.half = q.half /\ t.cut = q.cut /\ t.told = q.told /\ t.file = q.file /\ t.down = q.down
        /\ t.result = q.result /\ t.spc = q.spc /\ t.status = q.status /\ t.bad = q.bad /\ t.torn = q.torn
    BY <1>a DEF Records
  <2>1. CASE ok
    <3>1. v = [t EXCEPT !.pos = p]
      BY <2>1, <1>4
    <3>2. v \in Records
      BY <3>1, <1>b DEF Records
    <3>3. /\ v.kind = t.kind /\ v.name = t.name /\ v.cpc = t.cpc /\ v.more = t.more /\ v.sent = t.sent
          /\ v.tail = t.tail /\ v.half = t.half /\ v.cut = t.cut /\ v.told = t.told /\ v.file = t.file /\ v.down = t.down
          /\ v.result = t.result /\ v.size = t.size /\ v.up = t.up /\ v.spc = t.spc /\ v.status = t.status
          /\ v.bad = t.bad /\ v.pos = p
      BY <3>1, <1>b DEF Records
    <3> QED
      BY <2>0, <2>1, <1>b, <3>2, <3>3
  <2>2. CASE ~ok
    <3>1. v = [t EXCEPT !.bad = TRUE]
      BY <2>2, <1>4
    <3>2. v \in Records
      BY <3>1, <1>b DEF Records
    <3>3. /\ v.kind = t.kind /\ v.name = t.name /\ v.cpc = t.cpc /\ v.more = t.more /\ v.sent = t.sent
          /\ v.tail = t.tail /\ v.half = t.half /\ v.cut = t.cut /\ v.told = t.told /\ v.file = t.file /\ v.down = t.down
          /\ v.result = t.result /\ v.size = t.size /\ v.up = t.up /\ v.spc = t.spc /\ v.status = t.status
          /\ v.bad = TRUE /\ v.pos = t.pos
      BY <3>1, <1>b DEF Records
    <3> QED
      BY <2>0, <2>2, <1>b, <3>2, <3>3
  <2> QED
    BY <2>1, <2>2
<1>7. Took(q, r, x, u, ok)
  <2>1. CASE x.short
    <3>0. PICK s \in StatusT, b \in BOOLEAN : s = "OK" /\ b = TRUE
      BY DEF StatusT
    <3>1. r = Return(v, s, b)
      BY <2>1, <3>0, <1>5
    <3>2. /\ r \in Records /\ r.spc = "done" /\ r.up = <<>> /\ r.half = FALSE
          /\ r.status \in {"none", s} /\ (v.cut => r.status = "none") /\ (~v.cut => r.size = v.size)
          /\ r.kind = v.kind /\ r.name = v.name /\ r.cpc = v.cpc /\ r.more = v.more /\ r.sent = v.sent
          /\ r.tail = v.tail /\ r.cut = v.cut /\ r.told \subseteq v.told /\ r.file = v.file
          /\ r.bad = v.bad /\ r.down = v.down /\ r.result = v.result
      <4>1. ReturnedAs(v, s, r)
        BY <3>1, <1>6, Returned
      <4> QED
        BY <4>1 DEF ReturnedAs
    <3> QED
      BY <2>1, <3>0, <3>2, <1>3, <1>6 DEF Took
  <2>2. CASE ~x.short
    BY <2>2, <1>1, <1>3, <1>5, <1>6 DEF Took
  <2> QED
    BY <2>1, <2>2
<1>8. Moves(c, r)
  BY <1>4, <1>5
<1>9. /\ ok => data' = [data EXCEPT ![q.file] = Written(data[q.file], q.pos, x)] /\ ~q.bad
      /\ ~ok => data' = data
  BY <1>4
<1>10. ok \in BOOLEAN
  BY <1>4
<1>11. Taken(c, q, r, x, u, ok)
  BY <1>1, <1>2, <1>7, <1>8, <1>9, <1>10 DEF Taken
<1> QED
  BY <1>1, <1>11

\* The chunk that c sent after those the handler has taken.
Following(c, q, x) ==
  q.result = "none" => x = Chunk(c, q.size + 1, q.tail /\ q.size + 1 = q.sent)

\* The upload's own counts, when its handler has taken a chunk.
LEMMA TakenCounts ==
  ASSUME FInv, NEW c \in Calls, NEW q \in Records, q = call[c],
         NEW r, NEW x, NEW u, NEW ok, Taken(c, q, r, x, u, ok), call'[c] = r
  PROVE  General(c)' /\ Sending(c)' /\ x.by = c /\ Following(c, q, x)
<1>t. /\ x \in Chunks /\ u \in Seq(Chunks) /\ x = Head(q.up) /\ u = Tail(q.up) /\ Took(q, r, x, u, ok)
      /\ q.kind = "upload" /\ q.spc = "copy" /\ q.up # <<>> /\ ok \in BOOLEAN
  BY DEF Taken
<1>q. Call(c)
  BY DEF FInv
<1>g. /\ q.cpc # "idle" /\ q.status = "none" /\ q.result \in {"none", "false"} /\ q.file # NoCall /\ q.name \in Names
      /\ q.file \in Calls \cup Names
  BY <1>q, <1>t, IdleFields DEF Call, General, Opened, Sending
<1>s. /\ q.up \in Seq(Chunks) /\ q.size \in Nat /\ q.sent \in Nat /\ q.tail \in BOOLEAN /\ q.cut \in BOOLEAN
  BY Fields
<1>u. /\ Len(q.up) \in Nat /\ Len(q.up) # 0 /\ DOMAIN q.up = 1..Len(q.up) /\ Len(u) = Len(q.up) - 1
      /\ x = q.up[1] /\ DOMAIN u = 1..(Len(q.up) - 1)
      /\ \A i \in 1..(Len(q.up) - 1) : u[i] = q.up[i + 1]
  BY <1>s, <1>t, HeadTailProperties, LenProperties, EmptySeq
<1>1. PICK l \in Nat : l = Len(q.up)
  BY <1>u
<1>v. /\ l # 0 /\ DOMAIN q.up = 1..l /\ Len(u) = l - 1 /\ x = q.up[1] /\ DOMAIN u = 1..(l - 1)
      /\ \A i \in 1..(l - 1) : u[i] = q.up[i + 1]
  BY <1>1, <1>u
<1>w. \A i \in 1..(l - 1) : i + 1 \in 1..l
  BY <1>v
<1>2. /\ \A i \in 1..l : q.up[i].by = c
      /\ q.half => q.cpc # "write"
      /\ \A i \in 1..l : q.up[i].short => i = l
      /\ q.result = "none" =>
            /\ \A i \in 1..l : q.up[i] = Chunk(c, q.size + i, q.tail /\ q.size + i = q.sent)
            /\ ~q.cut => q.size + l = q.sent
            /\ q.tail /\ ~q.cut => q.up # <<>>
  BY <1>q, <1>t, <1>1, <1>v DEF Call, Sending
<1>3. 1 \in 1..l
  BY <1>v
<1>4. x.by = c /\ (q.result = "none" => x = Chunk(c, q.size + 1, q.tail /\ q.size + 1 = q.sent))
  BY <1>2, <1>3, <1>v
<1>5. x.short => l = 1
  BY <1>2, <1>3, <1>v
<1>6. General(c)'
  <2>1. Len(u) <= Window /\ Len(<<>>) = 0 /\ 0 <= Window
    BY <1>q, <1>1, <1>v DEF Call, General
  <2>2. Len(r.up) <= Window /\ r.spc \in {"copy", "done"} /\ (r.status # "none" => r.spc = "done")
    BY <2>1, <1>g, <1>t DEF Took
  <2>3. /\ Len(q.down) <= Window /\ q.sent <= MaxLen /\ (q.more => q.sent + 1 <= MaxLen /\ ~q.tail)
        /\ (q.told # {} => q.cut)
        /\ q.cpc \in {"write", "finish", "done"}
        /\ (q.cpc # "done" => q.result = "none")
    BY <1>q, <1>t DEF Call, General
  <2> QED
    BY <1>g, <1>t, <2>2, <2>3 DEF General, Opened, Took
<1>7. Sending(c)'
  <2>1. ASSUME NEW i \in DOMAIN u PROVE u[i].by = c /\ (u[i].short => i = Len(u))
    <3>1. i \in 1..(l - 1) /\ u[i] = q.up[i + 1] /\ i + 1 \in 1..l
      BY <1>v, <1>w
    <3>2. i + 1 = l => i = Len(u)
      BY <3>1, <1>v
    <3> QED
      BY <3>1, <3>2, <1>2
  <2>2. ASSUME q.result = "none", NEW i \in DOMAIN u
        PROVE  u[i] = Chunk(c, (q.size + 1) + i, q.tail /\ (q.size + 1) + i = q.sent)
    <3>1. i \in 1..(l - 1) /\ u[i] = q.up[i + 1] /\ i + 1 \in 1..l
      BY <1>v, <1>w
    <3>2. q.size + (i + 1) = (q.size + 1) + i
      BY <3>1, <1>s, Shift
    <3>3. u[i] = Chunk(c, q.size + (i + 1), q.tail /\ q.size + (i + 1) = q.sent)
      BY <3>1, <1>2, <2>2
    <3> QED
      BY <3>2, <3>3
  <2>3. ASSUME q.result = "none", ~q.cut PROVE (q.size + 1) + Len(u) = q.sent
    <3>1. q.size + l = q.sent /\ Len(u) = l - 1 /\ q.size \in Nat
      BY <1>2, <2>3, <1>s, <1>v
    <3> QED
      BY <3>1
  <2>4. ASSUME q.result = "none", ~q.cut, q.tail, ~x.short PROVE u # <<>>
    <3>1. l # 1
      <4>1. ASSUME l = 1 PROVE FALSE
        <5>1. q.size + 1 = q.sent
          BY <1>2, <2>4, <4>1
        <5>2. PICK m, b : m = q.size + 1 /\ b = TRUE
          OBVIOUS
        <5>3. x = Chunk(c, m, b)
          BY <1>4, <2>4, <5>1, <5>2
        <5>4. x.short = b
          BY <5>3, ChunkFields
        <5> QED
          BY <5>2, <5>4, <2>4
      <4> QED
        BY <4>1
    <3>2. Len(u) # 0
      BY <3>1, <1>v
    <3> QED
      BY <3>2, EmptySeq
  <2>5. ASSUME q.result = "none", x.short, ~q.cut PROVE q.size + 1 = q.sent
    BY <1>2, <1>5, <2>5
  <2>6. \A i \in DOMAIN <<>> : FALSE
    OBVIOUS
  <2>7. CASE x.short
    <3>1. r.kind = "upload" /\ r.up = <<>> /\ r.spc = "done" /\ r.half = FALSE /\ r.cpc = q.cpc
          /\ (r.status = "OK" => ~q.cut /\ r.size = q.size + 1) /\ r.result = q.result /\ r.sent = q.sent
      BY <2>7, <1>s, <1>t DEF Took
    <3> QED
      BY <3>1, <2>5, <2>6, <2>7, <1>2, <1>g DEF Sending
  <2>8. CASE ~x.short
    <3>1. r.kind = "upload" /\ r.up = u /\ r.spc = "copy" /\ r.half = q.half /\ r.cpc = q.cpc
          /\ r.status = "none" /\ r.result = q.result /\ r.size = q.size + 1 /\ r.more = q.more /\ r.sent = q.sent
          /\ r.tail = q.tail /\ r.cut = q.cut
      BY <2>8, <1>g, <1>t DEF Took
    <3> QED
      BY <3>1, <2>1, <2>2, <2>3, <2>4, <2>8, <1>2, <1>g DEF Sending
  <2> QED
    BY <2>7, <2>8
<1> QED
  BY <1>4, <1>6, <1>7 DEF Following

\* What the handler did to the file, and the size when it is through.
Wrote(q, r, s, w, x, ok) ==
  /\ ok => Writes(w, s, q.pos, x)
  /\ ~ok => w = s
  /\ r.status = "OK" /\ q.result = "none" => q.size + 1 = q.sent

\* What an undisturbed upload has written, when its handler has taken a chunk.
LEMMA TakenKept ==
  ASSUME FInv, NEW c \in Calls, c \notin disturbed, NEW q \in Records, q = call[c],
         NEW r, NEW x, NEW u, NEW ok, Taken(c, q, r, x, u, ok), call'[c] = r,
         x.by = c, q.result \in {"none", "false"}, Following(c, q, x),
         NEW s \in Seq(Chunks), s = data[q.file], q.file # NoCall,
         NEW w, w = data'[q.file], Wrote(q, r, s, w, x, ok)
  PROVE  Kept(c)'
<1>q. Call(c)
  BY DEF FInv
<1>t. /\ q.kind = "upload" /\ q.spc = "copy" /\ Took(q, r, x, u, ok) /\ x \in Chunks /\ ok \in BOOLEAN
      /\ ok => ~q.bad
  BY DEF Taken
<1>o. /\ ok => Writes(w, s, q.pos, x)
      /\ ~ok => w = s
      /\ r.status = "OK" /\ q.result = "none" => q.size + 1 = q.sent
  BY DEF Wrote
<1>s. q.size \in Nat /\ q.pos \in Nat /\ q.bad \in BOOLEAN
  BY Fields
<1>1. /\ \A k \in DOMAIN s : s[k].by = c /\ ~s[k].short
      /\ q.pos = Len(s)
      /\ ~q.bad /\ q.result = "none" =>
            q.size = q.pos /\ \A k \in DOMAIN s : s[k] = Chunk(c, k, FALSE)
  BY <1>q, <1>t DEF Call, Kept, Opened
<1>2. DOMAIN s = 1..q.pos
  BY <1>1, LenProperties
<1>3. ASSUME ok
      PROVE  /\ w \in Seq(Chunks) /\ Len(w) = q.pos + 1 /\ DOMAIN w = 1..(q.pos + 1) /\ w[q.pos + 1] = x
             /\ \A k \in 1..q.pos : w[k] = s[k]
  BY <1>1, <1>3, <1>o DEF Writes
<1>c. \A k \in 1..(q.pos + 1) : k \in 1..q.pos \/ k = q.pos + 1
  BY <1>s
<1>4. \A k \in DOMAIN w : w[k].by = c
  <2>1. CASE ok
    <3> SUFFICES ASSUME NEW k \in DOMAIN w PROVE w[k].by = c
      OBVIOUS
    <3>1. k \in 1..q.pos \/ k = q.pos + 1
      BY <2>1, <1>3, <1>c
    <3>2. CASE k \in 1..q.pos
      BY <2>1, <3>2, <1>1, <1>2, <1>3
    <3>3. CASE k = q.pos + 1
      BY <2>1, <3>3, <1>3
    <3> QED
      BY <3>1, <3>2, <3>3
  <2>2. CASE ~ok
    BY <2>2, <1>o, <1>1
  <2> QED
    BY <2>1, <2>2, <1>t
<1>5. ASSUME ~x.short
      PROVE  /\ r.pos = Len(w)
             /\ \A k \in DOMAIN w : ~w[k].short
  <2>1. CASE ok
    <3>1. r.pos = q.pos + 1
      BY <2>1, <1>5, <1>t DEF Took
    <3>2. r.pos = Len(w)
      BY <2>1, <3>1, <1>3
    <3>3. ASSUME NEW k \in DOMAIN w PROVE ~w[k].short
      <4>1. k \in 1..q.pos \/ k = q.pos + 1
        BY <2>1, <1>3, <1>c
      <4>2. CASE k \in 1..q.pos
        BY <2>1, <4>2, <1>1, <1>2, <1>3
      <4>3. CASE k = q.pos + 1
        BY <2>1, <4>3, <1>3, <1>5
      <4> QED
        BY <4>1, <4>2, <4>3
    <3> QED
      BY <3>2, <3>3
  <2>2. CASE ~ok
    BY <2>2, <1>o, <1>1, <1>5, <1>t DEF Took
  <2> QED
    BY <2>1, <2>2, <1>t
<1>6. ASSUME ~r.bad, q.result = "none"
      PROVE  /\ ok /\ q.size = q.pos /\ Len(w) = q.size + 1
             /\ \A k \in 1..q.size : w[k] = Chunk(c, k, FALSE)
             /\ w[q.size + 1] = Chunk(c, q.size + 1, q.tail /\ q.size + 1 = q.sent)
  <2>1. ok /\ ~q.bad
    BY <1>6, <1>t DEF Took
  <2>2. q.size = q.pos /\ \A k \in 1..q.pos : s[k] = Chunk(c, k, FALSE)
    BY <2>1, <1>1, <1>2, <1>6
  <2>3. Len(w) = q.pos + 1 /\ w[q.pos + 1] = x /\ \A k \in 1..q.pos : w[k] = s[k]
    BY <2>1, <1>3
  <2>4. x = Chunk(c, q.size + 1, q.tail /\ q.size + 1 = q.sent)
    BY <1>6 DEF Following
  <2>5. w[q.size + 1] = x /\ Len(w) = q.size + 1
    BY <2>2, <2>3
  <2>6. \A k \in 1..q.size : w[k] = Chunk(c, k, FALSE)
    BY <2>2, <2>3
  <2> QED
    BY <2>1, <2>2, <2>4, <2>5, <2>6
<1>7. ASSUME ~x.short, ~r.bad, q.result = "none"
      PROVE  /\ r.size = r.pos
             /\ \A k \in DOMAIN w : w[k] = Chunk(c, k, FALSE)
  <2>1. r.size = q.size + 1 /\ r.pos = Len(w)
    BY <1>5, <1>7, <1>t DEF Took
  <2>2. PICK m, b : m = q.size + 1 /\ b = (q.tail /\ q.size + 1 = q.sent)
    OBVIOUS
  <2>3. x = Chunk(c, m, b)
    BY <1>7, <2>2 DEF Following
  <2>4. x.short = b
    BY <2>3, ChunkFields
  <2>5. x = Chunk(c, q.size + 1, FALSE)
    <3>1. b = FALSE
      BY <2>2, <2>4, <1>7
    <3> QED
      BY <2>2, <2>3, <3>1
  <2>6. DOMAIN w = 1..(q.size + 1) /\ w[q.size + 1] = x /\ \A k \in 1..q.size : w[k] = Chunk(c, k, FALSE)
    BY <1>3, <1>6, <1>7
  <2> QED
    <3>1. ASSUME NEW k \in DOMAIN w PROVE w[k] = Chunk(c, k, FALSE)
      <4>1. k \in 1..q.size \/ k = q.size + 1
        BY <2>6, <1>s
      <4> QED
        BY <4>1, <2>5, <2>6
    <3>2. r.size = r.pos
      BY <2>1, <1>6, <1>7
    <3> QED
      BY <3>1, <3>2
<1>8. ASSUME r.status = "OK", q.result = "none", ~r.bad
      PROVE  w = [k \in 1..q.sent |-> Chunk(c, k, q.tail /\ k = q.sent)]
  <2>1. q.size + 1 = q.sent
    BY <1>8, <1>o
  <2>2. w \in Seq(Chunks) /\ DOMAIN w = 1..q.sent
    BY <2>1, <1>3, <1>6, <1>8
  <2>3. w = [k \in 1..q.sent |-> w[k]]
    BY <2>2, LenProperties
  <2>4. ASSUME NEW k \in 1..q.sent PROVE w[k] = Chunk(c, k, q.tail /\ k = q.sent)
    <3>1. CASE k \in 1..q.size
      <4>1. k # q.sent
        BY <2>1, <3>1, <1>s
      <4> QED
        BY <3>1, <4>1, <1>6, <1>8
    <3>2. CASE k = q.size + 1
      BY <2>1, <3>2, <1>6, <1>8
    <3> QED
      BY <2>1, <3>1, <3>2, <1>s
  <2> QED
    BY <2>3, <2>4
<1>9. /\ r.kind = "upload" /\ r.file = q.file /\ r.result = q.result /\ r.more = q.more /\ r.sent = q.sent /\ r.tail = q.tail
      /\ r.spc = "copy" => ~x.short
  BY <1>t DEF Took
<1>10. Local(c)' = [k \in 1..q.sent |-> Chunk(c, k, q.tail /\ k = q.sent)]
  BY <1>9 DEF Local
<1> QED
  <2>1. ASSUME r.status = "OK", r.result # "false", ~r.bad PROVE data'[r.file] = Local(c)'
    BY <2>1, <1>8, <1>9, <1>10
  <2>2. ASSUME r.spc = "copy"
        PROVE  /\ r.pos = Len(data'[r.file])
               /\ \A k \in DOMAIN data'[r.file] : ~data'[r.file][k].short
               /\ ~r.bad /\ r.result = "none" =>
                    /\ r.size = r.pos
                    /\ \A k \in DOMAIN data'[r.file] : data'[r.file][k] = Chunk(c, k, FALSE)
    BY <2>2, <1>5, <1>7, <1>9
  <2>3. \A k \in DOMAIN data'[r.file] : data'[r.file][k].by = c
    BY <1>4, <1>9
  <2> QED
    BY <2>1, <2>2, <2>3 DEF Kept

\* w is what c, whose handler was writing, has made of the contents s.
Filled(c, s, w) ==
  /\ \A k \in DOMAIN w : w[k].by \in {c, NoCall} \/ (k \in DOMAIN s /\ w[k] = s[k])
  /\ w # s /\ c \notin disturbed => \A k \in DOMAIN w : w[k].by = c

\* Marks, for place j of the contents w of file f.
MarkedAt(f, w, j) ==
  /\ w[j].by \in Calls \ disturbed => call[w[j].by].file = f /\ call[w[j].by].kind = "upload"
  /\ w[j].by \notin Names
  /\ \A k \in DOMAIN w : w[k].by # w[j].by => w[j].by \in disturbed \cup {NoCall}

\* Who made the chunks of the file, when a handler has written to it.
LEMMA TakenMarks ==
  ASSUME FInv, NEW c \in Calls, Copies(c), NEW f \in Calls \cup Names, f = call[c].file,
         NEW s \in Seq(Chunks), s = data[f], NEW w, Filled(c, s, w), NEW j \in DOMAIN w
  PROVE  MarkedAt(f, w, j)
<1>h. /\ \A k \in DOMAIN w : w[k].by \in {c, NoCall} \/ (k \in DOMAIN s /\ w[k] = s[k])
      /\ w # s /\ c \notin disturbed => \A k \in DOMAIN w : w[k].by = c
  BY DEF Filled
<1> SUFFICES /\ w[j].by \in Calls \ disturbed => call[w[j].by].file = f /\ call[w[j].by].kind = "upload"
             /\ w[j].by \notin Names
             /\ \A k \in DOMAIN w : w[k].by # w[j].by => w[j].by \in disturbed \cup {NoCall}
  BY DEF MarkedAt
<1>0. f # NoCall
  BY DEF FInv, Call, General, Copies, Opened
<1>1. ASSUME NEW i \in DOMAIN s
      PROVE  /\ s[i].by \in Calls \ disturbed => call[s[i].by].file = f /\ call[s[i].by].kind = "upload" /\ s[i].by = c
             /\ s[i].by \notin Names
             /\ s[i].by \in Makers
             /\ \A k \in DOMAIN s : s[k].by # s[i].by => s[i].by \in disturbed \cup {NoCall}
  <2>1. PICK b : b = s[i].by
    OBVIOUS
  <2>2. /\ b \in Calls \ disturbed => call[b].file = f /\ call[b].kind = "upload"
        /\ b \in Names => b = f /\ \A d \in Calls : call[d].kind = "upload" => call[d].file # f
        /\ \A k \in DOMAIN s : s[k].by # b => b \in disturbed \cup {NoCall}
    BY <2>1 DEF FInv, Marks
  <2>3. b \notin Names
    BY <2>2 DEF Copies
  <2>4. ASSUME b \in Calls \ disturbed PROVE b = c
    <3>1. Opened(b) /\ Opened(c)
      BY <2>2, <2>4, <1>0 DEF Opened
    <3>2. call[b].name \in Names /\ call[c].name \in Names /\ Named(f, call[b].name) /\ Named(f, call[c].name)
      BY <2>2, <2>4, <3>1, OpenedFields
    <3>3. call[c].name = call[b].name
      BY <3>2, SameName
    <3> QED
      BY <2>4, <3>1, <3>3 DEF FInv, Alone
  <2>5. b \in Makers
    <3>1. s[i] \in Chunks
      BY ElementOfSeq, LenProperties
    <3> QED
      BY <2>1, <3>1 DEF Chunks
  <2> QED
    BY <2>1, <2>2, <2>3, <2>4, <2>5
<1>2. ASSUME NEW k \in DOMAIN w
      PROVE  w[k].by \notin Names /\ w[k].by \in Makers /\ (w[k].by \in Calls \ disturbed => w[k].by = c)
  <2>1. CASE w[k].by \in {c, NoCall}
    BY <2>1 DEF Makers
  <2>2. CASE k \in DOMAIN s /\ w[k] = s[k]
    BY <2>2, <1>1
  <2> QED
    BY <2>1, <2>2, <1>h
<1>3. call[c].kind = "upload" /\ call[c].file = f
  BY DEF Copies
<1>4. ASSUME NEW k \in DOMAIN w, w[k].by # w[j].by PROVE w[j].by \in disturbed \cup {NoCall}
  <2>1. CASE c \in disturbed
    BY <2>1, <1>2 DEF Makers
  <2>2. CASE c \notin disturbed /\ w # s
    BY <2>2, <1>4, <1>h
  <2>3. CASE w = s
    BY <2>3, <1>1, <1>4
  <2> QED
    BY <2>1, <2>2, <2>3
<1> QED
  BY <1>2, <1>3, <1>4

\* A handler writes a chunk: it is alone with the file, or all are disturbed.
LEMMA UploadChunkStep ==
  ASSUME FInv, NEW c \in Calls, UploadChunk(c)
  PROVE  FInv'
<1>q. call[c] \in Records /\ Call(c) /\ call \in [Calls -> Records] /\ disturbed \subseteq Calls
      /\ data \in [Calls \cup Names -> Seq(Chunks)]
  BY DEF FInv, Types
<1>1. PICK q \in Records : q = call[c]
  BY <1>q
<1>0. q.kind = "upload" /\ q.spc = "copy" /\ q.up # <<>> /\ dir' = dir /\ disturbed' = disturbed
  BY <1>1, Takes
<1>2. PICK ok, r, x, u : Taken(c, q, r, x, u, ok)
  BY <1>1, Takes
<1>3. /\ x \in Chunks /\ u \in Seq(Chunks) /\ ok \in BOOLEAN /\ x = Head(q.up) /\ u = Tail(q.up)
      /\ Moves(c, r) /\ Took(q, r, x, u, ok) /\ (ok => ~q.bad)
      /\ (ok => data' = [data EXCEPT ![q.file] = Written(data[q.file], q.pos, x)])
      /\ (~ok => data' = data)
  BY <1>2 DEF Taken
<1>4. r \in Records /\ r.kind = "upload" /\ r.name = q.name /\ r.file = q.file /\ r.result = q.result
  BY <1>0, <1>3 DEF Took
<1>5. call'[c] = r /\ call' \in [Calls -> Records] /\ \A d \in Calls \ {c} : call'[d] = call[d]
  BY <1>q, <1>3, <1>4, Move
<1>6. General(c)' /\ Sending(c)' /\ x.by = c /\ Following(c, q, x)
  BY <1>1, <1>2, <1>5, TakenCounts
<1>g. Opened(c) /\ Copies(c) /\ q.file # NoCall /\ q.file \in Calls \cup Names /\ q.result \in {"none", "false"}
      /\ q.name \in Names
  BY <1>0, <1>1, <1>q DEF Call, General, Sending, Opened, Copies
<1>7. PICK f \in Calls \cup Names : f = q.file
  BY <1>g
<1>8. PICK s \in Seq(Chunks) : s = data[f] /\ ShortLast(s)
  BY <1>q DEF FInv, Marked
<1>9. PICK p \in Nat : p = q.pos
  BY Fields
<1>10. PICK w : w = data'[f]
  OBVIOUS
<1>11. ok => Writes(w, s, p, x) /\ w = Written(s, p, x)
  <2>1. ASSUME ok PROVE w = Written(s, p, x)
    BY <2>1, <1>q, <1>3, <1>7, <1>8, <1>9, <1>10
  <2>2. Writes(Written(s, p, x), s, p, x)
    BY <1>3, <1>8, WritesChunk
  <2> QED
    BY <2>1, <2>2
<1>12. ~ok => w = s
  BY <1>3, <1>8, <1>10
<1>13. /\ w \in Seq(Chunks) /\ ShortLast(w)
       /\ \A k \in DOMAIN w : w[k].by \in {c, NoCall} \/ (k \in DOMAIN s /\ w[k] = s[k])
  <2>1. CASE ok
    BY <2>1, <1>6, <1>11 DEF Writes
  <2>2. CASE ~ok
    BY <2>2, <1>8, <1>12
  <2> QED
    BY <2>1, <2>2, <1>3
<1>14. data' \in [Calls \cup Names -> Seq(Chunks)] /\ \A e \in Calls \cup Names : e # f => data'[e] = data[e]
  <2>1. CASE ok
    <3>1. Written(s, p, x) \in Seq(Chunks) /\ data' = [data EXCEPT ![f] = Written(s, p, x)]
      BY <2>1, <1>3, <1>7, <1>8, <1>9, <1>11, <1>13
    <3> QED
      BY <3>1, <1>q
  <2>2. CASE ~ok
    BY <2>2, <1>3, <1>q
  <2> QED
    BY <2>1, <2>2, <1>3
<1>15. Types'
  BY <1>0, <1>5, <1>14 DEF FInv, Types
<1>16. Kept(c)'
  <2>1. CASE c \in disturbed
    BY <2>1, <1>0 DEF Kept
  <2>2. CASE c \notin disturbed
    <3>1. r.status = "OK" /\ q.result = "none" => q.size + 1 = q.sent
      <4>1. (r.status = "OK" => r.size = q.size + 1) /\ r.sent = q.sent
        BY <1>3, <1>g DEF Took
      <4> QED
        BY <4>1, <1>4, <1>5, <1>6, <1>7, <1>g DEF Sending, Opened
    <3> QED
      <4>1. s = data[q.file] /\ w = data'[q.file] /\ (ok => Writes(w, s, q.pos, x))
        BY <1>7, <1>8, <1>9, <1>10, <1>11
      <4>2. Wrote(q, r, s, w, x, ok)
        BY <4>1, <3>1, <1>12 DEF Wrote
      <4> QED
        BY <4>1, <4>2, <2>2, <1>1, <1>2, <1>5, <1>6, <1>g, TakenKept
  <2> QED
    BY <2>1, <2>2
<1>17. ASSUME NEW d \in Calls \ {c} PROVE Call(d)'
  <2>1. ASSUME d \notin disturbed, Opened(d) PROVE data'[call[d].file] = data[call[d].file]
    <3>1. call[d].file # f
      <4>1. ASSUME call[d].file = f PROVE FALSE
        <5>1. call[d].name \in Names /\ Named(f, call[d].name) /\ Named(f, q.name)
          BY <2>1, <4>1, <1>1, <1>7, <1>g, OpenedFields
        <5>2. q.name = call[d].name
          BY <5>1, <1>g, SameName
        <5> QED
          BY <2>1, <5>2, <1>1, <1>g DEF FInv, Alone
      <4> QED
        BY <4>1
    <3> QED
      BY <2>1, <3>1, <1>14, OpenedFields
  <2> QED
    BY <2>1, <1>0, <1>3, <1>4, Others
<1>18. Call(c)'
  <2>1. Listing(c)'
    BY <1>4, <1>5 DEF Listing
  <2> QED
    BY <2>1, <1>4, <1>5, <1>6, <1>16, NotDownload DEF Call
<1>19. \A d \in Calls : /\ call'[d].name = call[d].name /\ call'[d].file = call[d].file
                        /\ call'[d].kind = call[d].kind
                        /\ Copies(d)' => Copies(d)
                        /\ Opened(d)' <=> Opened(d)
  BY <1>0, <1>1, <1>4, <1>5, <1>g DEF Copies, Opened
<1>20. Placed'
  <2>1. Placed
    BY DEF FInv
  <2> QED
    BY <2>1, <1>0, <1>19 DEF Placed, Named
<1>21. Alone'
  <2>1. Alone
    BY DEF FInv
  <2> QED
    BY <2>1, <1>0, <1>19 DEF Alone
<1>22. Marked'
  <2> SUFFICES ASSUME NEW e \in Calls \cup Names PROVE ShortLast(data'[e])
    BY DEF Marked, ShortLast
  <2>1. CASE e = f
    BY <2>1, <1>10, <1>13
  <2>2. CASE e # f
    BY <2>2, <1>14 DEF FInv, Marked
  <2> QED
    BY <2>1, <2>2
<1>23. Marks'
  <2> SUFFICES ASSUME NEW e \in Calls \cup Names, NEW j \in DOMAIN data'[e]
               PROVE  /\ data'[e][j].by \in Calls \ disturbed' =>
                            call'[data'[e][j].by].file = e /\ call'[data'[e][j].by].kind = "upload"
                      /\ data'[e][j].by \in Names =>
                            data'[e][j].by = e /\ \A d \in Calls : call'[d].kind = "upload" => call'[d].file # e
                      /\ \A k \in DOMAIN data'[e] :
                            data'[e][k].by # data'[e][j].by => data'[e][j].by \in disturbed' \cup {NoCall}
    BY DEF Marks
  <2>1. CASE e = f
    <3>1. w # s /\ c \notin disturbed => \A k \in DOMAIN w : w[k].by = c
      BY <1>0, <1>4, <1>5, <1>7, <1>10, <1>16, <1>g DEF Kept, Opened
    <3>2. /\ w[j].by \in Calls \ disturbed => call[w[j].by].file = f /\ call[w[j].by].kind = "upload"
          /\ w[j].by \notin Names
          /\ \A k \in DOMAIN w : w[k].by # w[j].by => w[j].by \in disturbed \cup {NoCall}
      <4>1. Filled(c, s, w)
        BY <1>13, <3>1 DEF Filled
      <4>2. j \in DOMAIN w /\ f = call[c].file /\ s = data[f] /\ Copies(c)
        BY <2>1, <1>1, <1>7, <1>8, <1>10, <1>g
      <4>3. MarkedAt(f, w, j)
        BY <4>1, <4>2, TakenMarks
      <4> QED
        BY <4>3 DEF MarkedAt
    <3> QED
      BY <2>1, <3>2, <1>0, <1>10, <1>19
  <2>2. CASE e # f
    <3>1. PICK b : b = data[e][j].by
      OBVIOUS
    <3>2. data'[e] = data[e]
      BY <2>2, <1>14
    <3>3. /\ b \in Calls \ disturbed => call[b].file = e /\ call[b].kind = "upload"
          /\ b \in Names => b = e /\ \A d \in Calls : call[d].kind = "upload" => call[d].file # e
          /\ \A k \in DOMAIN data[e] : data[e][k].by # b => b \in disturbed \cup {NoCall}
      BY <3>1, <3>2 DEF FInv, Marks
    <3> QED
      BY <3>1, <3>2, <3>3, <1>0, <1>19
  <2> QED
    BY <2>1, <2>2
<1> QED
  BY <1>15, <1>17, <1>18, <1>20, <1>21, <1>22, <1>23 DEF FInv

-----------------------------------------------------------------------------
(* The invariant and what follows from it *)

\* The invariant holds when the server starts.
LEMMA InitInvariant ==
  ASSUME Init
  PROVE  FInv
<1>1. PICK there \in SUBSET Names : dir = [n \in Names |-> IF n \in there THEN n ELSE NoCall]
  BY DEF Init
<1>2. \A c \in Calls : call[c] = Idle
  BY DEF Init
<1>3. \A f \in Calls \cup Names :
        \/ f \in Names /\ data[f] = <<Chunk(f, 1, FALSE), Chunk(f, 2, TRUE)>>
        \/ f \notin Names /\ data[f] = <<>>
  BY DEF Init, Old
<1>4. ASSUME NEW f \in Calls \cup Names
      PROVE  /\ data[f] \in Seq(Chunks) /\ ShortLast(data[f])
             /\ \A j \in DOMAIN data[f] : data[f][j].by = f /\ f \in Names
  <2>1. CASE f \in Names /\ data[f] = <<Chunk(f, 1, FALSE), Chunk(f, 2, TRUE)>>
    <3>1. PICK x, y : x = Chunk(f, 1, FALSE) /\ y = Chunk(f, 2, TRUE)
      OBVIOUS
    <3>2. x \in Chunks /\ y \in Chunks /\ x.by = f /\ y.by = f /\ ~x.short
      BY <3>1, <2>1 DEF Chunk, Chunks, Makers
    <3>3. data[f] = <<x, y>>
      BY <2>1, <3>1
    <3>4. <<x, y>> \in Seq(Chunks) /\ Len(<<x, y>>) = 2 /\ DOMAIN <<x, y>> = 1..2
          /\ <<x, y>>[1] = x /\ <<x, y>>[2] = y
      BY <3>2
    <3>5. \A j \in 1..2 : j = 1 \/ j = 2
      OBVIOUS
    <3> QED
      BY <2>1, <3>2, <3>3, <3>4, <3>5 DEF ShortLast
  <2>2. CASE f \notin Names /\ data[f] = <<>>
    <3>1. <<>> \in Seq(Chunks) /\ \A i \in DOMAIN <<>> : FALSE
      OBVIOUS
    <3> QED
      BY <2>2, <3>1 DEF ShortLast
  <2> QED
    BY <1>3, <2>1, <2>2
<1>5. Types
  <2>1. call \in [Calls -> Records]
    BY <1>2, IdleFields DEF Init
  <2>2. dir \in [Names -> Makers]
    BY <1>1 DEF Makers
  <2>3. data \in [Calls \cup Names -> Seq(Chunks)]
    BY <1>4 DEF Init
  <2> QED
    BY <2>1, <2>2, <2>3 DEF Init, Types
<1>6. \A c \in Calls : ~Opened(c) /\ ~Copies(c) /\ call[c].kind = "none"
  BY <1>2, IdleFields DEF Opened, Copies
<1>7. Placed
  BY <1>1, <1>6 DEF Placed, Named
<1>8. Alone
  BY <1>6 DEF Alone
<1>9. Marked
  BY <1>4 DEF Marked
<1>10. Marks
  <2> SUFFICES ASSUME NEW f \in Calls \cup Names, NEW j \in DOMAIN data[f]
               PROVE  /\ data[f][j].by \in Calls \ disturbed =>
                           call[data[f][j].by].file = f /\ call[data[f][j].by].kind = "upload"
                      /\ data[f][j].by \in Names =>
                           data[f][j].by = f /\ \A c \in Calls : call[c].kind = "upload" => call[c].file # f
                      /\ \A k \in DOMAIN data[f] :
                           data[f][k].by # data[f][j].by => data[f][j].by \in disturbed \cup {NoCall}
    BY DEF Marks
  <2>1. data[f][j].by = f /\ f \in Names /\ f \notin Calls
    BY <1>4
  <2>2. \A k \in DOMAIN data[f] : data[f][k].by = f
    BY <1>4
  <2> QED
    BY <2>1, <2>2, <1>6
<1>11. ASSUME NEW c \in Calls PROVE Call(c)
  <2>1. Len(<<>>) = 0 /\ 0 <= Window /\ 0 <= MaxLen
    OBVIOUS
  <2>2. General(c)
    BY <1>2, <2>1, IdleFields DEF General, Opened
  <2>3. Sending(c) /\ Kept(c) /\ Receiving(c) /\ Listing(c)
    BY <1>6 DEF Sending, Kept, Receiving, Listing
  <2> QED
    BY <2>2, <2>3 DEF Call
<1> QED
  BY <1>5, <1>7, <1>8, <1>9, <1>10, <1>11 DEF FInv

\* Every step of a client, a handler or the connection keeps the invariant.
LEMMA NextInvariant ==
  ASSUME FInv, [Next]_vars
  PROVE  FInv'
<1>1. ASSUME NEW c \in Calls, Client(c) PROVE FInv'
  BY <1>1, UploadWriteStep, UploadWritesDoneStep, DownloadReadStep, FinishStep DEF Client
<1>2. ASSUME NEW c \in Calls, Handler(c) PROVE FInv'
  BY <1>2, UploadOpenStep, ReturningStep, UploadChunkStep, DownloadOpenStep, DownloadChunkStep,
     DeleteFileStep, ListEntryStep, ListStatStep DEF Handler
<1>h. ASSUME NEW c \in Calls, Hears(c) PROVE FInv'
  <2>1. "client" \in Sides /\ "server" \in Sides
    BY DEF Sides
  <2> QED
    BY <1>h, <2>1, LearnStep DEF Hears
<1>3. CASE Next
  BY <1>1, <1>2, <1>3, <1>h, StartStep, CutStep DEF Next
<1>4. CASE UNCHANGED vars
  <2>1. call' = call /\ dir' = dir /\ data' = data /\ disturbed' = disturbed
    BY <1>4 DEF vars
  <2>2. Types' /\ Placed' /\ Alone' /\ Marked' /\ Marks'
    BY <2>1 DEF FInv, Types, Placed, Named, Alone, Opened, Copies, Marked, ShortLast, Marks
  <2>3. ASSUME NEW c \in Calls PROVE Call(c)'
    <3>1. General(c)' <=> General(c)
      BY <2>1 DEF General, Opened
    <3>2. Sending(c)' <=> Sending(c)
      BY <2>1 DEF Sending, Opened
    <3>3. Kept(c)' <=> Kept(c)
      BY <2>1 DEF Kept, Opened, Local
    <3>4. Fed(c)' <=> Fed(c)
      BY <2>1, FedNow DEF Fed
    <3>5. Receiving(c)' <=> Receiving(c)
      BY <2>1, <3>4 DEF Receiving, Opened
    <3>6. Listing(c)' <=> Listing(c)
      BY <2>1 DEF Listing
    <3> QED
      BY <3>1, <3>2, <3>3, <3>5, <3>6 DEF FInv, Call
  <2> QED
    BY <2>2, <2>3 DEF FInv
<1> QED
  BY <1>3, <1>4

\* The inductive invariant: what is on every stream and in every file at any
\* moment, whatever the calls do and wherever connections break
\* (server.cpp:46-170, client.cpp:33-185).
THEOREM FilesInvariance == Spec => []FInv
  BY InitInvariant, NextInvariant, PTL DEF Spec

\* Whatever the other calls do: a client that was told its upload succeeded
\* finds the file whole, under its name and with the reported size, unless a
\* write failed or another call opened or deleted the file (server.cpp:46-75,
\* client.cpp:58-85).
THEOREM UploadsAreKept == Spec => []UploadKept
<1>1. FInv => UploadKept
  <2> SUFFICES ASSUME FInv, NEW c \in Calls \ disturbed, Succeeded(c, "upload"),
                      call[c].file # NoCall, ~call[c].bad
               PROVE  /\ dir[call[c].name] = call[c].file
                      /\ data[call[c].file] = Local(c)
                      /\ call[c].size = call[c].sent
    BY DEF UploadKept
  <2>1. Call(c) /\ Opened(c) /\ call[c].kind = "upload" /\ call[c].result = "true"
    BY DEF FInv, Succeeded, Opened
  <2>2. call[c].status = "OK"
    BY <2>1 DEF Call, General
  <2>3. dir[call[c].name] = call[c].file
    BY <2>1 DEF FInv, Alone
  <2>4. data[call[c].file] = Local(c)
    BY <2>1, <2>2 DEF Call, Kept
  <2>5. call[c].size = call[c].sent
    BY <2>1, <2>2 DEF Call, Sending
  <2> QED
    BY <2>3, <2>4, <2>5
<1> QED
  BY <1>1, FilesInvariance, PTL

\* What a download that succeeds has is a beginning of the file as it was
\* opened, and every chunk of it, with or without a chunk marked is_last, unless
\* the file was being overwritten, the server failed to read it or the client to
\* write its own (server.cpp:98-118, client.cpp:113-129).
THEOREM DownloadsAreWhole == Spec => []DownloadWhole
<1>1. FInv => DownloadWhole
  <2> SUFFICES ASSUME FInv, NEW c \in Calls \ disturbed, Succeeded(c, "download")
               PROVE  /\ \A k \in DOMAIN call[c].got :
                           k \in DOMAIN call[c].snap /\ call[c].got[k] = call[c].snap[k]
                      /\ ~call[c].bad /\ ~call[c].torn => call[c].got = call[c].snap
    BY DEF DownloadWhole
  <2>q. PICK q \in Records : q = call[c]
    BY DEF FInv, Types
  <2>1. Call(c) /\ q.kind = "download" /\ q.result = "true"
    BY <2>q DEF FInv, Succeeded
  <2>2. q.status = "OK" /\ q.cpc = "done"
    BY <2>1, <2>q DEF Call, General
  <2>3. FedBy(q)
    BY <2>1, <2>2, <2>q DEF Call, Receiving, Fed
  <2>4. q.got \in Seq(Chunks) /\ q.snap \in Seq(Chunks)
    BY Fields
  <2>5. /\ Len(q.got) \in Nat /\ DOMAIN q.got = 1..Len(q.got)
        /\ Len(q.snap) \in Nat /\ DOMAIN q.snap = 1..Len(q.snap) /\ Len(<<>>) = 0
    BY <2>4, LenProperties
  <2>6. Len(q.got) <= Len(q.snap) /\ Follows(q.got, q.snap, 0)
    BY <2>3 DEF FedBy
  <2>7. ASSUME NEW k \in DOMAIN q.got PROVE k \in DOMAIN q.snap /\ q.got[k] = q.snap[k]
    <3>1. 0 + k = k /\ k \in DOMAIN q.snap
      BY <2>5, <2>6
    <3> QED
      BY <3>1, <2>6 DEF Follows
  <2>8. ASSUME ~q.bad, ~q.torn PROVE q.got = q.snap
    <3>1. q.down = <<>> /\ Len(q.got) + Len(q.down) = Len(q.snap)
      BY <2>2, <2>3, <2>8 DEF FedBy, FlowsBy
    <3>2. Len(q.got) = Len(q.snap)
      BY <3>1, <2>5
    <3>3. \A k \in 1..Len(q.got) : q.got[k] = q.snap[k]
      BY <2>5, <2>7
    <3> QED
      BY <3>2, <3>3, <2>4, SeqEqual
  <2> QED
    BY <2>7, <2>8, <2>q
<1> QED
  BY <1>1, FilesInvariance, PTL

\* Chunks of two uploads meet in one file only if the uploads overlapped, and the
\* state keeps its types (server.cpp:46-66).
THEOREM MixedByOverlapOnly == Spec => []MixedByOverlap
<1>1. FInv => TypeOK
  <2> SUFFICES ASSUME FInv PROVE TypeOK
    OBVIOUS
  <2>1. dir \in [Names -> Calls \cup Names \cup {NoCall}] /\ disturbed \subseteq Calls
    BY DEF FInv, Types, Makers
  <2>2. ASSUME NEW c \in Calls
        PROVE  /\ call[c].cpc \in {"idle", "write", "read", "finish", "done"}
               /\ call[c].spc \in {"none", "open", "copy", "remove", "list", "stat", "done"}
               /\ Len(call[c].up) <= Window /\ Len(call[c].down) <= Window
               /\ call[c].sent + (IF call[c].more THEN 1 ELSE 0) <= MaxLen
               /\ call[c].status = "none" \/ call[c].spc = "done"
    <3>1. call[c] \in Records /\ General(c)
      BY DEF FInv, Types, Call
    <3>2. call[c].cpc \in CpcT /\ call[c].spc \in SpcT
      BY <3>1, Fields
    <3>3. call[c].sent + (IF call[c].more THEN 1 ELSE 0) <= MaxLen
      <4>1. call[c].sent \in Nat /\ MaxLen \in Nat
        BY <3>1, Fields DEF ServiceAssumption
      <4>2. call[c].sent <= MaxLen /\ (call[c].more => call[c].sent + 1 <= MaxLen)
        BY <3>1 DEF General
      <4>3. CASE call[c].more
        BY <4>1, <4>2, <4>3
      <4>4. CASE ~call[c].more
        BY <4>1, <4>2, <4>4
      <4> QED
        BY <4>3, <4>4
    <3> QED
      BY <3>1, <3>2, <3>3 DEF General, CpcT, SpcT
  <2> QED
    BY <2>1, <2>2 DEF TypeOK
<1>2. FInv => \A f \in DOMAIN data : \A j, k \in DOMAIN data[f] :
                data[f][j].by # data[f][k].by =>
                  {data[f][j].by, data[f][k].by} \subseteq disturbed \cup {NoCall}
  <2> SUFFICES ASSUME FInv, NEW f \in DOMAIN data, NEW j \in DOMAIN data[f], NEW k \in DOMAIN data[f],
                      data[f][j].by # data[f][k].by
               PROVE  data[f][j].by \in disturbed \cup {NoCall} /\ data[f][k].by \in disturbed \cup {NoCall}
    OBVIOUS
  <2>1. f \in Calls \cup Names
    BY DEF FInv, Types
  <2> QED
    BY <2>1 DEF FInv, Marks
<1>3. FInv => MixedByOverlap
  BY <1>1, <1>2 DEF MixedByOverlap
<1> QED
  BY <1>3, FilesInvariance, PTL

\* ListFiles reports a missing directory only if a file was deleted while it
\* looked, or the directory or an entry could not be read (server.cpp:131-144).
THEOREM ListingsFailByDelete == Spec => []ListFailsByDelete
<1>1. FInv => ListFailsByDelete
  <2> SUFFICES ASSUME FInv, NEW c \in Calls, Is(c, "list", "spc", "done"), call[c].status = "NOT_FOUND"
               PROVE  c \in disturbed \/ call[c].torn
    BY DEF ListFailsByDelete
  <2>1. call[c].kind = "list"
    BY IsField
  <2> QED
    BY <2>1 DEF FInv, Call, Listing
<1> QED
  BY <1>1, FilesInvariance, PTL

=============================================================================
