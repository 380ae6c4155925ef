----------------------------- MODULE LibcurlWrap -----------------------------
(***************************************************************************)
(* libcurl_wrap_cli_request(): one HTTP request per call, from the client  *)
(* threads and the plotting thread, each step of which may fail and jump   *)
(* to the common clean-up; the callbacks that libcurl runs in between; and *)
(* the initialisation of libcurl, which the first curl_easy_init() does by *)
(* itself, as the application never calls libcurl_wrap_init_global().      *)
(*                                                                         *)
(* Of a header only the name counts and whether its value says "chunked";  *)
(* of a body its length, of a reply the pieces libcurl delivers it in. An  *)
(* object is a heap block: the handle, the URL, the list of headers, the   *)
(* two buffers that the write callback grows.                              *)
(***************************************************************************)
EXTENDS Integers, Sequences, FiniteSets

CONSTANTS
  Threads,      \* threads that make requests
  Reqs,         \* the requests they make, see Req
  HDRS_MAX_NUM, \* headers looked at
  MaxCalls      \* bound: requests of each thread

Null == -1
Names == {"Transfer-Encoding", "User-Agent", "prefix", "other", "malformed"}
Header == [name : Names, chunked : BOOLEAN]
Req == [method : {"GET", "POST", "PUT", "MAX"}, headers : Seq(Header), body : Nat \cup {Null},
        reply : Nat, status : Nat, wantHeaders : BOOLEAN]

ASSUME RequestsAssumption ==
  /\ Reqs \subseteq Req /\ Reqs # {}
  /\ HDRS_MAX_NUM \in Nat /\ MaxCalls \in Nat

VARIABLES
  pc,           \* where each thread is
  call,         \* the locals and the results of each thread's request
  calls,        \* requests each thread has begun
  initialized,  \* libcurl's own counter
  seen,         \* what each thread read of it in global_init()
  ready,        \* history: an initialisation of libcurl has succeeded
  refused       \* history: one has failed

vars == <<pc, call, calls, initialized, seen, ready, refused>>
initvars == <<initialized, seen, ready, refused>>

Objects == {"curl", "url", "hdr_list", "lost_list", "data", "hdr"}
Pcs == {"idle", "easy_init", "load", "store", "global_init", "open", "url", "options", "headers",
        "buffers", "perform", "handover", "end", "return"}

(* The heap blocks of a call, the ones its pointers hold, the ones given to *)
(* the caller and the ones nobody holds; the headers to send, and whether a *)
(* failure cut them; whether the length of a POST was set and where the     *)
(* body is read from; what is left of it and what was sent; the pieces of   *)
(* the reply delivered, and those of reply and header stored; the return    *)
(* value and the HTTP status.                                               *)
NewCall(req) ==
  [req |-> req, heap |-> {}, ptr |-> {}, out |-> {}, lost |-> {}, list |-> <<>>, cut |-> FALSE,
   sized |-> FALSE, source |-> "none", left |-> 0, sent |-> 0,
   fed |-> 0, data |-> 0, hdr |-> 0, ret |-> -1, code |-> 404]

NoCall == NewCall(CHOOSE r \in Reqs : TRUE)

Call ==
  [req : Reqs, heap : SUBSET Objects, ptr : SUBSET Objects, out : SUBSET Objects,
   lost : SUBSET Objects, list : Seq(Header), cut : BOOLEAN, sized : BOOLEAN,
   source : {"none", "body", "stdin"}, left : Nat, sent : Nat,
   fed : Nat, data : Nat, hdr : Nat, ret : -1..1, code : Nat]

-----------------------------------------------------------------------------
(* find_header(): the first header that matches, or 0. Names are compared   *)
(* over the length of the header's, so a prefix of the needle matches it.   *)
Matches(h, needle, val) ==
  /\ h.name \in {needle, "prefix"}
  /\ val => h.chunked

Looked(headers) == SubSeq(headers, 1, IF Len(headers) < HDRS_MAX_NUM THEN Len(headers) ELSE HDRS_MAX_NUM)

FindHeader(headers, needle, val) ==
  LET hits == {i \in 1..Len(Looked(headers)) : Matches(headers[i], needle, val)} IN
  IF hits = {} THEN 0 ELSE CHOOSE i \in hits : \A j \in hits : i <= j

(* Mutant: one header less than find_header() looks at. *)
Appended_short(headers, failed) ==
  SubSeq(Looked(headers), 1 + Cardinality(failed), IF Len(headers) < HDRS_MAX_NUM THEN Len(headers) ELSE HDRS_MAX_NUM - 1)

(* set_headers(): the list if the appends in `failed' return NULL, which    *)
(* replaces the list, and whether that drops a list.                        *)
Appended(headers, failed) ==
  LET hs == Looked(headers) IN
  SubSeq(hs, 1 + (IF failed = {} THEN 0 ELSE CHOOSE i \in failed : \A j \in failed : j <= i), Len(hs))
Dropped(failed) == \E i \in failed : i > 1 /\ (i - 1) \notin failed

Alloc(c, os) == [c EXCEPT !.heap = @ \cup os, !.ptr = @ \cup os]

To(t, p, c) ==
  /\ pc' = [pc EXCEPT ![t] = p]
  /\ call' = [call EXCEPT ![t] = c]

-----------------------------------------------------------------------------
Init ==
  /\ pc = [t \in Threads |-> "idle"]
  /\ call = [t \in Threads |-> NoCall]
  /\ calls = [t \in Threads |-> 0]
  /\ initialized = 0
  /\ seen = [t \in Threads |-> 0]
  /\ ready = FALSE /\ refused = FALSE

(* The call begins: 404 unless it succeeds, and the check of the method.    *)
Begin(t, req) ==
  /\ pc[t] = "idle" /\ calls[t] < MaxCalls
  /\ calls' = [calls EXCEPT ![t] = @ + 1]
  /\ To(t, IF req.method = "MAX" THEN "end" ELSE "easy_init", NewCall(req))
  /\ UNCHANGED initvars

(* curl_easy_init() and global_init(), which count without a lock. *)
EasyInit(t) ==
  /\ pc[t] = "easy_init"
  /\ To(t, IF initialized = 0 THEN "load" ELSE "open", call[t])
  /\ UNCHANGED <<calls, initvars>>

Load(t) ==
  /\ pc[t] = "load"
  /\ seen' = [seen EXCEPT ![t] = initialized]
  /\ To(t, "store", call[t])
  /\ UNCHANGED <<calls, initialized, ready, refused>>

(* Mutant: the counter is tested after it was increased. *)
Store_pre(t) ==
  /\ pc[t] = "store"
  /\ initialized' = seen[t] + 1
  /\ To(t, IF seen[t] + 1 = 0 THEN "global_init" ELSE "open", call[t])
  /\ UNCHANGED <<calls, seen, ready, refused>>

Store(t) ==
  /\ pc[t] = "store"
  /\ initialized' = seen[t] + 1
  /\ To(t, IF seen[t] = 0 THEN "global_init" ELSE "open", call[t])
  /\ UNCHANGED <<calls, seen, ready, refused>>

GlobalInit(t) ==
  /\ pc[t] = "global_init"
  /\ \/ /\ ready' = TRUE
        /\ To(t, "open", call[t])
        /\ UNCHANGED <<initialized, refused>>
     \/ /\ initialized' = initialized - 1
        /\ refused' = TRUE
        /\ To(t, "end", call[t])
        /\ UNCHANGED ready
  /\ UNCHANGED <<calls, seen>>

Open(t) ==
  /\ pc[t] = "open"
  /\ \/ To(t, "url", Alloc(call[t], {"curl"}))
     \/ To(t, "end", call[t])
  /\ UNCHANGED <<calls, initvars>>

-----------------------------------------------------------------------------
(* Host, port and size of the URL, its memory, and CURLOPT_URL. *)
SetUrl(t) ==
  /\ pc[t] = "url"
  /\ \/ To(t, "end", call[t])
     \/ \E p \in {"end", "options"} : To(t, p, Alloc(call[t], {"url"}))
  /\ UNCHANGED <<calls, initvars>>

(* The options of POST and PUT. Without a read function libcurl reads the   *)
(* standard input, if it has to send a body of unknown length.              *)
Source(req) ==
  CASE req.method = "GET" -> "none"
    [] req.method # "GET" /\ req.body # Null -> "body"
    [] req.method = "PUT" /\ req.body = Null -> "stdin"
    [] OTHER -> IF FindHeader(req.headers, "Transfer-Encoding", TRUE) > 0 THEN "stdin" ELSE "none"

MethodOptions(t) ==
  LET req == call[t].req
      source == Source(req)
  IN
  /\ pc[t] = "options"
  /\ \/ req.method # "GET" /\ To(t, "end", call[t])
     \/ To(t, "headers",
           [call[t] EXCEPT !.source = source,
                           !.left = IF source = "body" THEN req.body ELSE 0,
                           !.sized = /\ req.method = "POST"
                                     /\ FindHeader(req.headers, "Transfer-Encoding", TRUE) = 0])
  /\ UNCHANGED <<calls, initvars>>

SetHeaders(t) ==
  LET c == call[t] IN
  /\ pc[t] = "headers"
  /\ \E failed \in SUBSET (1..Len(Looked(c.req.headers))), accepted \in BOOLEAN :
       LET list == Appended(c.req.headers, failed)
           dropped == IF Dropped(failed) THEN {"lost_list"} ELSE {}
           kept == IF list = <<>> THEN {} ELSE {"hdr_list"}
       IN  To(t, "buffers", [Alloc(c, kept) EXCEPT !.heap = @ \cup dropped, !.lost = dropped,
                                                   !.list = IF accepted THEN list ELSE <<>>,
                                                   !.cut = failed # {} \/ ~accepted])
  /\ UNCHANGED <<calls, initvars>>

(* The two buffers with their callbacks, and the remaining options. *)
SetBuffers(t) ==
  /\ pc[t] = "buffers"
  /\ \/ \E os \in {{}, {"data"}, {"data", "hdr"}} : To(t, "end", Alloc(call[t], os))
     \/ To(t, "perform", Alloc(call[t], {"data", "hdr"}))
  /\ UNCHANGED <<calls, initvars>>

-----------------------------------------------------------------------------
(* curl_easy_perform() with the callbacks, in any order.                    *)

(* Mutant: the room that libcurl offers is filled, whatever is left. *)
ReadBody_over(t, room) ==
  LET c == call[t] IN
  /\ pc[t] = "perform" /\ c.source = "body" /\ c.left > 0
  /\ To(t, "perform", [c EXCEPT !.left = @ - room, !.sent = @ + room])
  /\ UNCHANGED <<calls, initvars>>

(* curl_read_body_callback(): as much of the body as there is room for. *)
ReadBody(t, room) ==
  LET c == call[t]
      n == IF c.left > room THEN room ELSE c.left
  IN
  /\ pc[t] = "perform" /\ c.source = "body" /\ c.left > 0
  /\ To(t, "perform", [c EXCEPT !.left = @ - n, !.sent = @ + n])
  /\ UNCHANGED <<calls, initvars>>

(* Mutant: a piece that cannot be stored is skipped. *)
WriteBody_skip(t) ==
  LET c == call[t] IN
  /\ pc[t] = "perform" /\ c.fed < c.req.reply
  /\ \E n \in 0..1 : To(t, "perform", [c EXCEPT !.fed = @ + 1, !.data = @ + n])
  /\ UNCHANGED <<calls, initvars>>

(* curl_write_body_callback() for a piece of the reply, or of its header: a *)
(* piece that cannot be stored ends the transfer.                           *)
WriteBody(t) ==
  LET c == call[t] IN
  /\ pc[t] = "perform" /\ c.fed < c.req.reply
  /\ \E stored \in BOOLEAN :
       IF stored THEN To(t, "perform", [c EXCEPT !.fed = @ + 1, !.data = @ + 1])
       ELSE To(t, "end", [c EXCEPT !.fed = @ + 1, !.ret = 1])
  /\ UNCHANGED <<calls, initvars>>

WriteHeader(t) ==
  LET c == call[t] IN
  /\ pc[t] = "perform" /\ c.hdr = 0
  /\ \E stored \in BOOLEAN :
       IF stored THEN To(t, "perform", [c EXCEPT !.hdr = 1])
       ELSE To(t, "end", [c EXCEPT !.ret = 1])
  /\ UNCHANGED <<calls, initvars>>

(* No connection, a time-out, or a connection that is cut. *)
PerformFails(t) ==
  /\ pc[t] = "perform"
  /\ To(t, "end", [call[t] EXCEPT !.ret = 1])
  /\ UNCHANGED <<calls, initvars>>

PerformEnds(t) ==
  /\ pc[t] = "perform"
  /\ call[t].fed = call[t].req.reply /\ call[t].hdr = 1
  /\ To(t, "handover", call[t])
  /\ UNCHANGED <<calls, initvars>>

(* Mutant: the pointers keep what they gave. *)
HandOver_keep(t) ==
  LET c == call[t] IN
  /\ pc[t] = "handover"
  /\ To(t, "end", [c EXCEPT !.out = IF c.data > 0 THEN {"data"} ELSE {},
                            !.code = c.req.status, !.ret = 0])
  /\ UNCHANGED <<calls, initvars>>

(* The buffers that hold something become the caller's, then the status is  *)
(* asked for, which may fail.                                               *)
HandOver(t) ==
  LET c == call[t]
      given == (IF c.data > 0 THEN {"data"} ELSE {})
                 \cup (IF c.req.wantHeaders /\ c.hdr > 0 THEN {"hdr"} ELSE {})
      gave == [c EXCEPT !.out = given, !.ptr = @ \ given]
  IN
  /\ pc[t] = "handover"
  /\ \/ To(t, "end", gave)
     \/ To(t, "end", [gave EXCEPT !.code = c.req.status, !.ret = 0])
  /\ UNCHANGED <<calls, initvars>>

(* Mutant: the buffer of the headers is forgotten. *)
End_forget(t) ==
  /\ pc[t] = "end"
  /\ To(t, "return", [call[t] EXCEPT !.heap = @ \ (call[t].ptr \ {"hdr"}), !.ptr = {}])
  /\ UNCHANGED <<calls, initvars>>

(* The label end: what the pointers still hold is freed. *)
End(t) ==
  /\ pc[t] = "end"
  /\ To(t, "return", [call[t] EXCEPT !.heap = @ \ call[t].ptr, !.ptr = {}])
  /\ UNCHANGED <<calls, initvars>>

(* curl_req() and plottingThr() free a response whatever was returned. *)
Caller(t) ==
  /\ pc[t] = "return"
  /\ To(t, "idle", [NoCall EXCEPT !.heap = call[t].heap \ call[t].out, !.lost = call[t].lost])
  /\ UNCHANGED <<calls, initvars>>

Request(t) ==
  \/ \E req \in Reqs : Begin(t, req)
  \/ EasyInit(t) \/ Load(t) \/ Store(t) \/ GlobalInit(t) \/ Open(t)
  \/ SetUrl(t) \/ MethodOptions(t) \/ SetHeaders(t) \/ SetBuffers(t)
  \/ \E room \in 1..2 : ReadBody(t, room)
  \/ WriteBody(t) \/ WriteHeader(t) \/ PerformFails(t) \/ PerformEnds(t)
  \/ HandOver(t) \/ End(t) \/ Caller(t)

Next == \E t \in Threads : Request(t)

Spec == Init /\ [][Next]_vars

-----------------------------------------------------------------------------
(* Every variable has its type. *)
TypeOK ==
  /\ pc \in [Threads -> Pcs]
  /\ call \in [Threads -> Call]
  /\ calls \in [Threads -> Nat] /\ seen \in [Threads -> Int]
  /\ initialized \in Int /\ ready \in BOOLEAN /\ refused \in BOOLEAN

(* A block of the heap has one owner: a pointer of the call or the caller   *)
(* ("Avoid double referencing"), so that nothing is freed twice or used     *)
(* after it was freed; only a list that a failed append replaced has none.  *)
OneOwner ==
  \A t \in Threads : LET c == call[t] IN
    /\ c.heap = c.ptr \cup c.out \cup c.lost
    /\ c.ptr \cap c.out = {} /\ c.lost \cap (c.ptr \cup c.out) = {}

(* Whatever step failed, a call leaves nothing on the heap once the caller  *)
(* has freed the response, but for such a list.                             *)
NothingLeaks == \A t \in Threads : pc[t] = "idle" => call[t].heap \subseteq {"lost_list"}

(* A call that returns 0 gives the status and the whole reply; one that     *)
(* fails says 404, and the caller never gets a part of a reply.             *)
RepliesWhole ==
  \A t \in Threads : LET c == call[t] IN
    pc[t] = "return" =>
      /\ IF c.ret = 0 THEN c.code = c.req.status /\ (c.req.reply > 0 => "data" \in c.out)
         ELSE c.code = 404
      /\ "data" \in c.out => c.data = c.req.reply

(* A POST says where its body ends: find_header() has seen a chunked header *)
(* only if set_headers() sends it. (A name that is a prefix of the one      *)
(* looked for, and a failure while the list is built, break this.)          *)
PostIsFramed ==
  \A t \in Threads : LET c == call[t] IN
    pc[t] = "perform" /\ c.req.method = "POST" /\ ~c.cut
      /\ (\A i \in 1..Len(c.req.headers) : c.req.headers[i].name # "prefix")
    => \/ c.sized /\ c.sent + c.left = (IF c.req.body = Null THEN 0 ELSE c.req.body)
       \/ \E i \in 1..Len(c.list) : c.list[i].name = "Transfer-Encoding" /\ c.list[i].chunked

(* libcurl is initialised by the first curl_easy_init() of any thread, and  *)
(* another thread may use it before that is done (libcurl_wrap.h wants it   *)
(* initialised "once at the beginning"). Unless an initialisation fails,    *)
(* this can happen only while a thread is still inside global_init(): a     *)
(* request that begins later finds a libcurl that was initialised, if       *)
(* perhaps twice, by two threads that both read a counter of 0.             *)
Using == {"open", "url", "options", "headers", "buffers", "perform", "handover"}
Initialising == \E t \in Threads : pc[t] = "global_init"
UnreadyOnlyMeanwhile ==
  ~refused /\ (\E t \in Threads : pc[t] \in Using) => ready \/ Initialising

-----------------------------------------------------------------------------
(* The inductive invariant. Of a call c that is at p: who owns which block, *)
(* what the results say of the transfer, and how the body is framed; of the *)
(* threads together: who initialises libcurl.                                *)
Early == {"easy_init", "load", "store", "global_init", "open", "url", "options", "headers"}

Blocks(p, c) ==
  /\ c.heap = c.ptr \cup c.out \cup c.lost
  /\ c.ptr \cap c.out = {}
  /\ c.lost \subseteq {"lost_list"}
  /\ "lost_list" \notin c.ptr \cup c.out
  /\ p \in {"idle", "return"} => c.ptr = {}
  /\ p \in Early => c.lost = {}
  /\ p \notin {"end", "return"} => c.out = {}
  /\ p \in {"perform", "handover"} => {"data", "hdr"} \subseteq c.ptr

Outcome(p, c) ==
  /\ c.ret = 0 => /\ p \in {"end", "return"}
                  /\ c.code = c.req.status
                  /\ c.req.reply > 0 => "data" \in c.out
  /\ c.ret # 0 => c.code = 404
  /\ "data" \in c.out => c.data = c.req.reply
  /\ p \in Early \cup {"buffers"} => c.fed = 0 /\ c.data = 0
  /\ p \in {"perform", "handover"} => c.data = c.fed
  /\ p = "handover" => c.fed = c.req.reply

Framing(p, c) ==
  /\ p \in Early => c.sent = 0
  /\ p \in {"headers", "buffers", "perform"} /\ c.req.method = "POST" =>
       /\ c.sized \/ FindHeader(c.req.headers, "Transfer-Encoding", TRUE) # 0
       /\ c.sent + c.left = (IF c.req.body = Null THEN 0 ELSE c.req.body)
  /\ p \in {"buffers", "perform"} /\ ~c.cut => c.list = Looked(c.req.headers)

CallOK(p, c) == p \in Pcs /\ c \in Call /\ Blocks(p, c) /\ Outcome(p, c) /\ Framing(p, c)

(* Who has counted, or has seen that somebody has, can rely on a thread that *)
(* is inside global_init() or that has left it with success.                *)
Initialisation ==
  ~refused =>
    /\ initialized \in Nat /\ \A t \in Threads : seen[t] \in Nat
    /\ \/ initialized # 0
       \/ \E t \in Threads : \/ pc[t] = "store" /\ seen[t] # 0
                             \/ pc[t] \in Using
       => ready \/ Initialising

IInv == TypeOK /\ Initialisation /\ \A t \in Threads : CallOK(pc[t], call[t])
=============================================================================
