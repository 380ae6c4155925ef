------------------------- MODULE LibcurlWrapProofs -------------------------
(***************************************************************************)
(* Proofs about LibcurlWrap for any threads, any requests, any number of   *)
(* headers and calls.                                                      *)
(***************************************************************************)
EXTENDS LibcurlWrap, Extrema, SequenceTheorems, TLAPS

(* A call that begins holds nothing and says that nothing was found.       *)
LEMMA NewCallOK ==
  ASSUME NEW req \in Reqs, NEW p \in {"idle", "easy_init", "end"}
  PROVE  CallOK(p, NewCall(req))
<1>1. <<>> \in Seq(Header)
  BY EmptySeq
<1>2. NewCall(req) \in Call
  BY <1>1 DEF NewCall, Call, Objects
<1>3. Blocks(p, NewCall(req))
  BY DEF Blocks, NewCall, Early
<1>4. Outcome(p, NewCall(req))
  BY DEF Outcome, NewCall, Early
<1>5. Framing(p, NewCall(req))
  BY DEF Framing, NewCall, Early
<1> QED BY <1>2, <1>3, <1>4, <1>5 DEF CallOK, Pcs

(* A thread that is in no call holds nothing.                               *)
LEMMA NoCallOK == CallOK("idle", NoCall)
<1>1. (CHOOSE r \in Reqs : TRUE) \in Reqs
  BY RequestsAssumption
<1> QED BY <1>1, NewCallOK DEF NoCall

(* The headers looked at are a sequence of headers.                        *)
LEMMA LookedType ==
  ASSUME NEW headers \in Seq(Header)
  PROVE  Looked(headers) \in Seq(Header)
<1> DEFINE n == IF Len(headers) < HDRS_MAX_NUM THEN Len(headers) ELSE HDRS_MAX_NUM
<1>1. n \in Nat /\ n <= Len(headers)
  BY RequestsAssumption, LenProperties
<1>2. \A i \in 1..n : headers[i] \in Header
  BY <1>1, ElementOfSeq
<1> HIDE DEF n
<1>3. SubSeq(headers, 1, n) \in Seq(Header)
  BY <1>1, <1>2, SubSeqProperties
<1> QED BY <1>3 DEF Looked, n

(* A step of one thread leaves the calls of the others alone.              *)
LEMMA ToOK ==
  ASSUME TypeOK, \A u \in Threads : CallOK(pc[u], call[u]),
         NEW t \in Threads, NEW p, NEW c, To(t, p, c), CallOK(p, c)
  PROVE  /\ pc' \in [Threads -> Pcs] /\ call' \in [Threads -> Call]
         /\ \A u \in Threads : CallOK(pc[u], call[u])'
<1>1. pc' \in [Threads -> Pcs] /\ call' \in [Threads -> Call]
  BY DEF To, TypeOK, CallOK
<1>2. ASSUME NEW u \in Threads PROVE CallOK(pc'[u], call'[u])
  <2>1. CASE u = t BY <2>1 DEF To, TypeOK
  <2>2. CASE u # t BY <2>2 DEF To, TypeOK
  <2> QED BY <2>1, <2>2
<1> QED BY <1>1, <1>2 DEF CallOK, Blocks, Outcome, Framing

(* Nothing is allocated before curl_easy_init() returns: a call that moves  *)
(* on, or gives up, without a change is still in order.                     *)
LEMMA MovesOn ==
  ASSUME NEW c, NEW p \in Early, NEW q \in (Early \ {"headers"}) \cup {"end"}, CallOK(p, c)
  PROVE  CallOK(q, c)
<1>1. Blocks(q, c) BY DEF CallOK, Blocks, Early
<1>2. Outcome(q, c) BY DEF CallOK, Outcome, Early
<1>3. Framing(q, c) BY DEF CallOK, Framing, Early
<1> QED BY <1>1, <1>2, <1>3 DEF CallOK, Early, Pcs

(* A failure, from wherever it jumps to the label end, leaves the call in   *)
(* order: what was allocated is still held by a pointer.                    *)
LEMMA GivesUp ==
  ASSUME NEW c, NEW p \in Early \cup {"buffers", "perform"}, CallOK(p, c)
  PROVE  CallOK("end", c)
<1>1. Blocks("end", c) BY DEF CallOK, Blocks, Early
<1>2. Outcome("end", c) BY DEF CallOK, Outcome, Early
<1>3. Framing("end", c) BY DEF CallOK, Framing, Early
<1> QED BY <1>1, <1>2, <1>3 DEF CallOK, Pcs

(* What a call allocates is held by its pointers.                           *)
LEMMA AllocOK ==
  ASSUME NEW c, NEW p \in (Early \cup {"buffers", "perform"}), CallOK(p, c),
         NEW os \in SUBSET (Objects \ {"lost_list"})
  PROVE  CallOK(p, Alloc(c, os))
<1> DEFINE d == Alloc(c, os)
<1>0. c \in Call BY DEF CallOK
<1>1. d \in Call /\ d.heap = c.heap \cup os /\ d.ptr = c.ptr \cup os
  BY <1>0 DEF Alloc, Call
<1>2. /\ d.req = c.req /\ d.out = c.out /\ d.lost = c.lost /\ d.list = c.list /\ d.cut = c.cut
      /\ d.sized = c.sized /\ d.left = c.left /\ d.sent = c.sent /\ d.fed = c.fed
      /\ d.data = c.data /\ d.hdr = c.hdr /\ d.ret = c.ret /\ d.code = c.code
  BY <1>0 DEF Alloc, Call
<1> HIDE DEF d
<1>3. Blocks(p, d)
  <2>1. c.out = {} BY DEF CallOK, Blocks, Early
  <2> QED BY <1>1, <1>2, <2>1 DEF CallOK, Blocks, Early
<1>4. Outcome(p, d) BY <1>1, <1>2 DEF CallOK, Outcome, Early
<1>5. Framing(p, d) BY <1>1, <1>2 DEF CallOK, Framing
<1>6. CallOK(p, d) BY <1>1, <1>3, <1>4, <1>5 DEF CallOK
<1> QED BY <1>6 DEF d

(* The headers sent are headers.                                            *)
LEMMA AppendedType ==
  ASSUME NEW headers \in Seq(Header), NEW failed \in SUBSET (1..Len(Looked(headers)))
  PROVE  /\ Appended(headers, failed) \in Seq(Header)
         /\ failed = {} => Appended(headers, failed) = Looked(headers)
<1> DEFINE hs == Looked(headers)
           n == IF failed = {} THEN 0 ELSE CHOOSE i \in failed : \A j \in failed : j <= i
<1>1. hs \in Seq(Header) /\ Len(hs) \in Nat
  BY LookedType, LenProperties
<1>2. n \in 0..Len(hs)
  <2>1. CASE failed = {} BY <2>1, <1>1
  <2>2. CASE failed # {}
    <3>1. \E i \in failed : \A j \in failed : j <= i BY <2>2, <1>1, HasMax
    <3>2. n \in failed BY <3>1, <2>2
    <3>3. failed \subseteq 1..Len(hs) OBVIOUS
    <3> HIDE DEF n, hs
    <3> QED BY <3>2, <3>3, <1>1
  <2> QED BY <2>1, <2>2
<1>3. Appended(headers, failed) = SubSeq(hs, 1 + n, Len(hs))
  BY DEF Appended
<1>4. failed = {} => n = 0
  OBVIOUS
<1> HIDE DEF hs, n
<1>5. SubSeq(hs, 1 + n, Len(hs)) \in Seq(Header)
  BY <1>1, <1>2, SubSeqProperties, ElementOfSeq
<1>6. SubSeq(hs, 1, Len(hs)) = hs
  BY <1>1, SubSeqFull
<1>7. failed = {} => SubSeq(hs, 1 + n, Len(hs)) = hs
  BY <1>4, <1>6
<1> QED BY <1>3, <1>5, <1>7 DEF hs

(* MethodOptions: a POST without a length has seen a chunked header.        *)
LEMMA OptionsOK ==
  ASSUME NEW c, CallOK("options", c), NEW source \in {"none", "body", "stdin"},
         c.req \in Req, source = Source(c.req),
         NEW found, found = FindHeader(c.req.headers, "Transfer-Encoding", TRUE)
  PROVE  CallOK("headers", [c EXCEPT !.source = source,
                                     !.left = IF source = "body" THEN c.req.body ELSE 0,
                                     !.sized = /\ c.req.method = "POST"
                                               /\ found = 0])
<1> DEFINE d == [c EXCEPT !.source = source,
                          !.left = IF source = "body" THEN c.req.body ELSE 0,
                          !.sized = /\ c.req.method = "POST"
                                    /\ found = 0]
<1>0. c \in Call BY DEF CallOK
<1>1. source = "body" => c.req.body \in Nat
  BY DEF Source, Req, Null
<1>2. d \in Call
  BY <1>0, <1>1 DEF Call
<1>3. /\ d.req = c.req /\ d.heap = c.heap /\ d.ptr = c.ptr /\ d.out = c.out /\ d.lost = c.lost
      /\ d.list = c.list /\ d.cut = c.cut /\ d.sent = c.sent /\ d.fed = c.fed /\ d.data = c.data
      /\ d.hdr = c.hdr /\ d.ret = c.ret /\ d.code = c.code
  BY <1>0 DEF Call
<1>4. d.sized = (c.req.method = "POST" /\ found = 0)
  BY <1>0 DEF Call
<1>5. d.left = IF source = "body" THEN c.req.body ELSE 0
  BY <1>0 DEF Call
<1> HIDE DEF d
<1>6. Blocks("headers", d) BY <1>3 DEF CallOK, Blocks, Early
<1>7. Outcome("headers", d) BY <1>3 DEF CallOK, Outcome, Early
<1>8. Framing("headers", d)
  <2>1. d.sent = 0 BY <1>3 DEF CallOK, Framing, Early
  <2>2. d.req.method = "POST" => d.sized \/ FindHeader(d.req.headers, "Transfer-Encoding", TRUE) # 0
    BY <1>3, <1>4
  <2>3. d.req.method = "POST" => d.left = (IF d.req.body = Null THEN 0 ELSE d.req.body)
    BY <1>3, <1>5 DEF Source, Null, Req
  <2>4. d.left \in Nat BY <1>2 DEF Call
  <2>5. d.sent + d.left = d.left BY <2>1, <2>4
  <2> QED BY <2>1, <2>2, <2>3, <2>5 DEF Framing
<1>9. CallOK("headers", d) BY <1>2, <1>6, <1>7, <1>8 DEF CallOK, Pcs
<1> QED BY <1>9 DEF d

(* SetHeaders: a list that a failed append replaced is the only block that  *)
(* no pointer holds, and without a failure every header looked at is sent.  *)
LEMMA HeadersOK ==
  ASSUME NEW c, CallOK("headers", c),
         NEW list \in Seq(Header), NEW cut \in BOOLEAN, ~cut => list = Looked(c.req.headers),
         NEW kept \in {{}, {"hdr_list"}}, NEW dropped \in {{}, {"lost_list"}}
  PROVE  CallOK("buffers", [Alloc(c, kept) EXCEPT !.heap = @ \cup dropped, !.lost = dropped,
                                                  !.list = list, !.cut = cut])
<1> DEFINE b == Alloc(c, kept)
           d == [b EXCEPT !.heap = @ \cup dropped, !.lost = dropped, !.list = list, !.cut = cut]
<1>1. kept \in SUBSET (Objects \ {"lost_list"}) /\ dropped \in SUBSET Objects
  BY DEF Objects
<1>2. CallOK("headers", b)
  BY <1>1, AllocOK DEF Early
<1>3. b.req = c.req
  BY DEF Alloc, CallOK, Call
<1> HIDE DEF b
<1>4. b \in Call BY <1>2 DEF CallOK
<1>5. d \in Call
  BY <1>1, <1>4 DEF Call
<1>6. /\ d.req = b.req /\ d.ptr = b.ptr /\ d.out = b.out /\ d.sized = b.sized /\ d.source = b.source
      /\ d.left = b.left /\ d.sent = b.sent /\ d.fed = b.fed /\ d.data = b.data /\ d.hdr = b.hdr
      /\ d.ret = b.ret /\ d.code = b.code
  BY <1>4 DEF Call
<1>7. /\ d.heap = b.heap \cup dropped /\ d.lost = dropped /\ d.list = list /\ d.cut = cut
  BY <1>4 DEF Call
<1> HIDE DEF d
<1>8. Blocks("buffers", d)
  <2>1. b.lost = {} /\ b.out = {} BY <1>2 DEF CallOK, Blocks, Early
  <2> QED BY <1>2, <1>6, <1>7, <2>1 DEF CallOK, Blocks, Early
<1>9. Outcome("buffers", d) BY <1>2, <1>6 DEF CallOK, Outcome, Early
<1>10. Framing("buffers", d) BY <1>2, <1>3, <1>6, <1>7 DEF CallOK, Framing, Early
<1>11. CallOK("buffers", d) BY <1>5, <1>8, <1>9, <1>10 DEF CallOK, Pcs
<1> QED BY <1>11 DEF b, d

(* SetBuffers: both buffers are there when the transfer begins.             *)
LEMMA BuffersOK ==
  ASSUME NEW c, CallOK("buffers", c)
  PROVE  CallOK("perform", Alloc(c, {"data", "hdr"}))
<1> DEFINE d == Alloc(c, {"data", "hdr"})
<1>1. c \in Call BY DEF CallOK
<1>2. d \in Call
  BY <1>1 DEF Call, Alloc, Objects
<1>3. /\ d.req = c.req /\ d.out = c.out /\ d.lost = c.lost /\ d.list = c.list /\ d.cut = c.cut
      /\ d.sized = c.sized /\ d.source = c.source /\ d.left = c.left /\ d.sent = c.sent /\ d.fed = c.fed
      /\ d.data = c.data /\ d.hdr = c.hdr /\ d.ret = c.ret /\ d.code = c.code
  BY <1>1 DEF Call, Alloc
<1>4. /\ d.heap = c.heap \cup {"data", "hdr"} /\ d.ptr = c.ptr \cup {"data", "hdr"}
  BY <1>1 DEF Call, Alloc
<1> HIDE DEF d
<1>5. Blocks("perform", d)
  BY <1>3, <1>4 DEF CallOK, Blocks, Early
<1>6. Outcome("perform", d)
  BY <1>1, <1>3, <1>4 DEF CallOK, Outcome, Early, Call
<1>7. Framing("perform", d)
  BY <1>3, <1>4 DEF CallOK, Framing, Early
<1>8. CallOK("perform", d) BY <1>2, <1>5, <1>6, <1>7 DEF CallOK, Pcs
<1> QED BY <1>8 DEF d

(* ReadBody: what was sent and what is left stay the body.                  *)
LEMMA ReadOK ==
  ASSUME NEW c, CallOK("perform", c), NEW n \in 0..c.left
  PROVE  CallOK("perform", [c EXCEPT !.left = @ - n, !.sent = @ + n])
<1> DEFINE d == [c EXCEPT !.left = @ - n, !.sent = @ + n]
<1>1. c \in Call BY DEF CallOK
<1>2. d \in Call
  <2>1. c.left - n \in Nat /\ c.sent + n \in Nat
    <3>1. c.left \in Nat /\ c.sent \in Nat BY <1>1 DEF Call
    <3> QED BY <3>1
  <2> QED BY <1>1, <2>1 DEF Call
<1>3. /\ d.req = c.req /\ d.heap = c.heap /\ d.ptr = c.ptr /\ d.out = c.out /\ d.lost = c.lost
      /\ d.list = c.list /\ d.cut = c.cut /\ d.sized = c.sized /\ d.source = c.source /\ d.fed = c.fed
      /\ d.data = c.data /\ d.hdr = c.hdr /\ d.ret = c.ret /\ d.code = c.code
  BY <1>1 DEF Call
<1>4. d.left = c.left - n /\ d.sent = c.sent + n
  BY <1>1 DEF Call
<1> HIDE DEF d
<1>5. Blocks("perform", d)
  BY <1>3, <1>4 DEF CallOK, Blocks, Early
<1>6. Outcome("perform", d)
  BY <1>1, <1>3, <1>4 DEF CallOK, Outcome, Early, Call
<1>7. Framing("perform", d)
  <2>1. d.sent + d.left = c.sent + c.left BY <1>1, <1>4 DEF Call
  <2> QED BY <1>3, <2>1 DEF CallOK, Framing, Early
<1>8. CallOK("perform", d) BY <1>2, <1>5, <1>6, <1>7 DEF CallOK, Pcs
<1> QED BY <1>8 DEF d

(* WriteBody: a piece that was stored counts.                               *)
LEMMA StoreOK ==
  ASSUME NEW c, CallOK("perform", c)
  PROVE  CallOK("perform", [c EXCEPT !.fed = @ + 1, !.data = @ + 1])
<1> DEFINE d == [c EXCEPT !.fed = @ + 1, !.data = @ + 1]
<1>1. c \in Call BY DEF CallOK
<1>2. d \in Call
  <2>1. c.fed + 1 \in Nat /\ c.data + 1 \in Nat
    <3>1. c.fed \in Nat /\ c.data \in Nat BY <1>1 DEF Call
    <3> QED BY <3>1
  <2> QED BY <1>1, <2>1 DEF Call
<1>3. /\ d.req = c.req /\ d.heap = c.heap /\ d.ptr = c.ptr /\ d.out = c.out /\ d.lost = c.lost
      /\ d.list = c.list /\ d.cut = c.cut /\ d.sized = c.sized /\ d.source = c.source /\ d.left = c.left
      /\ d.sent = c.sent /\ d.hdr = c.hdr /\ d.ret = c.ret /\ d.code = c.code
  BY <1>1 DEF Call
<1>4. d.fed = c.fed + 1 /\ d.data = c.data + 1
  BY <1>1 DEF Call
<1> HIDE DEF d
<1>5. Blocks("perform", d)
  BY <1>3, <1>4 DEF CallOK, Blocks, Early
<1>6. Outcome("perform", d)
  <2>1. c.out = {} /\ c.data = c.fed BY DEF CallOK, Blocks, Outcome
  <2> QED BY <1>3, <1>4, <2>1 DEF CallOK, Outcome, Early
<1>7. Framing("perform", d)
  BY <1>3, <1>4 DEF CallOK, Framing, Early
<1>8. CallOK("perform", d) BY <1>2, <1>5, <1>6, <1>7 DEF CallOK, Pcs
<1> QED BY <1>8 DEF d

(* WriteHeader: the header is stored.                                       *)
LEMMA HeaderOK ==
  ASSUME NEW c, CallOK("perform", c)
  PROVE  CallOK("perform", [c EXCEPT !.hdr = 1])
<1> DEFINE d == [c EXCEPT !.hdr = 1]
<1>1. c \in Call BY DEF CallOK
<1>2. d \in Call
  BY <1>1 DEF Call
<1>3. /\ d.req = c.req /\ d.heap = c.heap /\ d.ptr = c.ptr /\ d.out = c.out /\ d.lost = c.lost
      /\ d.list = c.list /\ d.cut = c.cut /\ d.sized = c.sized /\ d.source = c.source /\ d.left = c.left
      /\ d.sent = c.sent /\ d.fed = c.fed /\ d.data = c.data /\ d.ret = c.ret /\ d.code = c.code
  BY <1>1 DEF Call
<1>4. d.hdr = 1
  BY <1>1 DEF Call
<1> HIDE DEF d
<1>5. Blocks("perform", d)
  BY <1>3, <1>4 DEF CallOK, Blocks, Early
<1>6. Outcome("perform", d)
  BY <1>1, <1>3, <1>4 DEF CallOK, Outcome, Early, Call
<1>7. Framing("perform", d)
  BY <1>3, <1>4 DEF CallOK, Framing, Early
<1>8. CallOK("perform", d) BY <1>2, <1>5, <1>6, <1>7 DEF CallOK, Pcs
<1> QED BY <1>8 DEF d

(* A transfer that fails, with a piece that was not stored or without: the  *)
(* caller gets nothing.                                                     *)
LEMMA FailOK ==
  ASSUME NEW c, CallOK("perform", c), NEW fed \in Nat
  PROVE  CallOK("end", [c EXCEPT !.fed = fed, !.ret = 1])
<1> DEFINE d == [c EXCEPT !.fed = fed, !.ret = 1]
<1>1. c \in Call BY DEF CallOK
<1>2. d \in Call
  <2>1. 1 \in -1..1 OBVIOUS
  <2> QED BY <1>1, <2>1 DEF Call
<1>3. /\ d.req = c.req /\ d.heap = c.heap /\ d.ptr = c.ptr /\ d.out = c.out /\ d.lost = c.lost
      /\ d.list = c.list /\ d.cut = c.cut /\ d.sized = c.sized /\ d.source = c.source /\ d.left = c.left
      /\ d.sent = c.sent /\ d.data = c.data /\ d.hdr = c.hdr /\ d.code = c.code
  BY <1>1 DEF Call
<1>4. d.fed = fed /\ d.ret = 1
  BY <1>1 DEF Call
<1> HIDE DEF d
<1>5. Blocks("end", d)
  BY <1>3, <1>4 DEF CallOK, Blocks, Early
<1>6. Outcome("end", d)
  <2>1. c.out = {} /\ c.ret # 0 BY DEF CallOK, Blocks, Outcome
  <2> QED BY <1>3, <1>4, <2>1 DEF CallOK, Outcome, Early
<1>7. Framing("end", d)
  BY <1>3, <1>4 DEF CallOK, Framing, Early
<1>8. CallOK("end", d) BY <1>2, <1>5, <1>6, <1>7 DEF CallOK, Pcs
<1> QED BY <1>8 DEF d

(* HandOver: what the caller is given no pointer holds any more, and the    *)
(* reply is whole.                                                          *)
LEMMA HandOverOK ==
  ASSUME NEW c, CallOK("handover", c), c.req \in Req,
         NEW given \in SUBSET {"data", "hdr"}, c.data > 0 => "data" \in given,
         NEW code, NEW ret, \/ code = c.code /\ ret = c.ret
                            \/ code = c.req.status /\ ret = 0
  PROVE  CallOK("end", [c EXCEPT !.out = given, !.ptr = @ \ given, !.code = code, !.ret = ret])
<1> DEFINE d == [c EXCEPT !.out = given, !.ptr = @ \ given, !.code = code, !.ret = ret]
<1>1. c \in Call BY DEF CallOK
<1>2. d \in Call
  <2>1. code \in Nat /\ ret \in -1..1 BY <1>1 DEF Call, Req
  <2>2. given \in SUBSET Objects /\ c.ptr \ given \in SUBSET Objects BY <1>1 DEF Call, Objects
  <2> QED BY <1>1, <2>1, <2>2 DEF Call
<1>3. /\ d.req = c.req /\ d.heap = c.heap /\ d.lost = c.lost /\ d.list = c.list /\ d.cut = c.cut
      /\ d.sized = c.sized /\ d.source = c.source /\ d.left = c.left /\ d.sent = c.sent /\ d.fed = c.fed
      /\ d.data = c.data /\ d.hdr = c.hdr
  BY <1>1 DEF Call
<1>4. d.out = given /\ d.ptr = c.ptr \ given /\ d.code = code /\ d.ret = ret
  BY <1>1 DEF Call
<1> HIDE DEF d
<1>5. Blocks("end", d)
  <2>1. c.out = {} /\ given \subseteq c.ptr BY DEF CallOK, Blocks, Early
  <2> QED BY <1>3, <1>4, <2>1 DEF CallOK, Blocks, Early
<1>6. Outcome("end", d)
  <2>1. c.data = c.req.reply /\ c.ret # 0 /\ c.code = 404 BY DEF CallOK, Outcome
  <2> QED BY <1>3, <1>4, <2>1 DEF Outcome, Early
<1>7. Framing("end", d)
  BY <1>3, <1>4 DEF CallOK, Framing, Early
<1>8. CallOK("end", d) BY <1>2, <1>5, <1>6, <1>7 DEF CallOK, Pcs
<1> QED BY <1>8 DEF d

(* End: only what the caller was given, and a lost list, is still there.    *)
LEMMA EndOK ==
  ASSUME NEW c, CallOK("end", c)
  PROVE  CallOK("return", [c EXCEPT !.heap = @ \ c.ptr, !.ptr = {}])
<1> DEFINE d == [c EXCEPT !.heap = @ \ c.ptr, !.ptr = {}]
<1>1. c \in Call BY DEF CallOK
<1>2. d \in Call
  BY <1>1 DEF Call
<1>3. /\ d.req = c.req /\ d.out = c.out /\ d.lost = c.lost /\ d.list = c.list /\ d.cut = c.cut
      /\ d.sized = c.sized /\ d.source = c.source /\ d.left = c.left /\ d.sent = c.sent /\ d.fed = c.fed
      /\ d.data = c.data /\ d.hdr = c.hdr /\ d.ret = c.ret /\ d.code = c.code
  BY <1>1 DEF Call
<1>4. d.heap = c.heap \ c.ptr /\ d.ptr = {}
  BY <1>1 DEF Call
<1> HIDE DEF d
<1>5. Blocks("return", d)
  BY <1>3, <1>4 DEF CallOK, Blocks, Early
<1>6. Outcome("return", d)
  BY <1>1, <1>3, <1>4 DEF CallOK, Outcome, Early, Call
<1>7. Framing("return", d)
  BY <1>3, <1>4 DEF CallOK, Framing, Early
<1>8. CallOK("return", d) BY <1>2, <1>5, <1>6, <1>7 DEF CallOK, Pcs
<1> QED BY <1>8 DEF d

(* Caller: the response is freed; a lost list stays.                        *)
LEMMA CallerOK ==
  ASSUME NEW c, CallOK("return", c)
  PROVE  CallOK("idle", [NoCall EXCEPT !.heap = c.heap \ c.out, !.lost = c.lost])
<1> DEFINE d == [NoCall EXCEPT !.heap = c.heap \ c.out, !.lost = c.lost]
<1>1. c \in Call /\ NoCall \in Call BY NoCallOK DEF CallOK
<1>2. d \in Call
  BY <1>1 DEF Call
<1>3. /\ d.ptr = {} /\ d.out = {} /\ d.ret = -1 /\ d.code = 404 /\ d.sent = 0 /\ d.fed = 0 /\ d.data = 0
      /\ d.heap = c.heap \ c.out /\ d.lost = c.lost
  BY DEF NoCall, NewCall
<1> HIDE DEF d
<1>4. Blocks("idle", d)
  BY <1>3 DEF CallOK, Blocks, Early
<1>5. Outcome("idle", d) BY <1>3 DEF Outcome, Early
<1>6. Framing("idle", d) BY <1>3 DEF Framing, Early
<1>7. CallOK("idle", d) BY <1>2, <1>4, <1>5, <1>6 DEF CallOK, Pcs
<1> QED BY <1>7 DEF d

(* PerformEnds: every piece of the reply was delivered, and stored.         *)
LEMMA EndsOK ==
  ASSUME NEW c, CallOK("perform", c), c.fed = c.req.reply
  PROVE  CallOK("handover", c)
<1>1. Blocks("handover", c) BY DEF CallOK, Blocks, Early
<1>2. Outcome("handover", c) BY DEF CallOK, Outcome, Early
<1>3. Framing("handover", c) BY DEF CallOK, Framing, Early
<1> QED BY <1>1, <1>2, <1>3 DEF CallOK, Pcs

(* Each step of a thread keeps its call in order.                           *)
LEMMA CallStep ==
  ASSUME IInv, NEW t \in Threads, Request(t)
  PROVE  \E p, d : To(t, p, d) /\ CallOK(p, d)
<1> DEFINE c == call[t]
           Goal == \E p, d : To(t, p, d) /\ CallOK(p, d)
<1>1. CallOK(pc[t], c) BY DEF IInv
<1>2. c \in Call /\ c.req \in Req /\ c.req.headers \in Seq(Header)
  BY <1>1, RequestsAssumption DEF CallOK, Call, Req
<1>3. ASSUME NEW req \in Reqs, Begin(t, req) PROVE Goal
  BY <1>3, NewCallOK DEF Begin
<1>4. CASE EasyInit(t)
  <2>1. PICK q \in {"load", "open"} : To(t, q, c) BY <1>4 DEF EasyInit
  <2>2. CallOK(q, c) BY <1>1, <1>4, MovesOn DEF EasyInit, Early
  <2> QED BY <2>1, <2>2
<1>5. CASE Load(t)
  <2>1. To(t, "store", c) BY <1>5 DEF Load
  <2>2. CallOK("store", c) BY <1>1, <1>5, MovesOn DEF Load, Early
  <2> QED BY <2>1, <2>2
<1>6. CASE Store(t)
  <2>1. PICK q \in {"global_init", "open"} : To(t, q, c) BY <1>6 DEF Store
  <2>2. CallOK(q, c) BY <1>1, <1>6, MovesOn DEF Store, Early
  <2> QED BY <2>1, <2>2
<1>7. CASE GlobalInit(t)
  <2>1. PICK q \in {"open", "end"} : To(t, q, c) BY <1>7 DEF GlobalInit
  <2>2. CallOK(q, c) BY <1>1, <1>7, MovesOn DEF GlobalInit, Early
  <2> QED BY <2>1, <2>2
<1>8. CASE Open(t)
  <2>1. CallOK("open", Alloc(c, {"curl"}))
    BY <1>1, <1>8, AllocOK DEF Open, Early, Objects
  <2>2. CallOK("url", Alloc(c, {"curl"})) /\ CallOK("end", c)
    BY <1>1, <1>8, <2>1, MovesOn DEF Open, Early
  <2> QED BY <1>8, <2>2 DEF Open
<1>9. CASE SetUrl(t)
  <2>1. CallOK("url", Alloc(c, {"url"}))
    BY <1>1, <1>9, AllocOK DEF SetUrl, Early, Objects
  <2>2. \A p \in {"end", "options"} : CallOK(p, Alloc(c, {"url"})) /\ CallOK("end", c)
    BY <1>1, <1>9, <2>1, MovesOn DEF SetUrl, Early
  <2> QED BY <1>9, <2>2 DEF SetUrl
<1>10. CASE MethodOptions(t)
  <2>1. CallOK("options", c) /\ CallOK("end", c)
    BY <1>1, <1>10, MovesOn DEF MethodOptions, Early
  <2>2. Source(c.req) \in {"none", "body", "stdin"}
    BY <1>2 DEF Source, Req
  <2>3. CallOK("headers",
          [c EXCEPT !.source = Source(c.req),
                    !.left = IF Source(c.req) = "body" THEN c.req.body ELSE 0,
                    !.sized = /\ c.req.method = "POST"
                              /\ FindHeader(c.req.headers, "Transfer-Encoding", TRUE) = 0])
    BY <1>2, <2>1, <2>2, OptionsOK
  <2> QED BY <1>10, <2>1, <2>3 DEF MethodOptions
<1>11. CASE SetHeaders(t)
  <2>1. CallOK("headers", c) BY <1>1, <1>11 DEF SetHeaders
  <2>2. PICK failed \in SUBSET (1..Len(Looked(c.req.headers))), accepted \in BOOLEAN :
          LET all == Appended(c.req.headers, failed)
              dropped == IF Dropped(failed) THEN {"lost_list"} ELSE {}
              kept == IF all = <<>> THEN {} ELSE {"hdr_list"}
          IN  To(t, "buffers", [Alloc(c, kept) EXCEPT
                                  !.heap = @ \cup dropped, !.lost = dropped,
                                  !.list = IF accepted THEN all ELSE <<>>,
                                  !.cut = failed # {} \/ ~accepted])
    BY <1>11 DEF SetHeaders
  <2> DEFINE list == IF accepted THEN Appended(c.req.headers, failed) ELSE <<>>
             cut == failed # {} \/ ~accepted
             dropped == IF Dropped(failed) THEN {"lost_list"} ELSE {}
             kept == IF Appended(c.req.headers, failed) = <<>> THEN {} ELSE {"hdr_list"}
  <2>3. To(t, "buffers", [Alloc(c, kept) EXCEPT !.heap = @ \cup dropped, !.lost = dropped,
                                                !.list = list, !.cut = cut])
    BY <2>2
  <2>4. list \in Seq(Header) /\ cut \in BOOLEAN /\ (~cut => list = Looked(c.req.headers))
    BY <1>2, AppendedType, EmptySeq
  <2>5. kept \in {{}, {"hdr_list"}} /\ dropped \in {{}, {"lost_list"}}
    OBVIOUS
  <2> HIDE DEF list, cut, kept, dropped
  <2> QED BY <2>1, <2>3, <2>4, <2>5, HeadersOK
<1>12. CASE SetBuffers(t)
  <2>1. CallOK("buffers", c) BY <1>1, <1>12 DEF SetBuffers
  <2>2. ASSUME NEW os \in {{}, {"data"}, {"data", "hdr"}} PROVE CallOK("end", Alloc(c, os))
    <3>1. CallOK("buffers", Alloc(c, os)) BY <2>1, AllocOK DEF Objects
    <3> QED BY <3>1, GivesUp
  <2>3. CallOK("perform", Alloc(c, {"data", "hdr"})) BY <2>1, BuffersOK
  <2> QED BY <1>12, <2>2, <2>3 DEF SetBuffers
<1>13. ASSUME NEW room \in 1..2, ReadBody(t, room) PROVE Goal
  <2> DEFINE n == IF c.left > room THEN room ELSE c.left
  <2>1. n \in 0..c.left
    <3>1. c.left \in Nat BY <1>2 DEF Call
    <3> QED BY <3>1
  <2>2. To(t, "perform", [c EXCEPT !.left = @ - n, !.sent = @ + n]) /\ CallOK("perform", c)
    BY <1>1, <1>13 DEF ReadBody
  <2> HIDE DEF n
  <2>3. CallOK("perform", [c EXCEPT !.left = @ - n, !.sent = @ + n])
    BY <2>1, <2>2, ReadOK
  <2> QED BY <2>2, <2>3
<1>14. CASE WriteBody(t)
  <2>1. CallOK("perform", c) BY <1>1, <1>14 DEF WriteBody
  <2>2. CallOK("perform", [c EXCEPT !.fed = @ + 1, !.data = @ + 1])
    BY <2>1, StoreOK
  <2>3. CallOK("end", [c EXCEPT !.fed = @ + 1, !.ret = 1])
    <3>1. c.fed + 1 \in Nat
      <4>1. c.fed \in Nat BY <1>2 DEF Call
      <4> QED BY <4>1
    <3> QED BY <2>1, <3>1, FailOK
  <2> QED BY <1>14, <2>2, <2>3 DEF WriteBody
<1>15. ASSUME CallOK("perform", c) PROVE CallOK("end", [c EXCEPT !.ret = 1])
  <2>1. [c EXCEPT !.ret = 1] = [c EXCEPT !.fed = c.fed, !.ret = 1] /\ c.fed \in Nat
    BY <1>2 DEF Call
  <2>2. CallOK("end", [c EXCEPT !.fed = c.fed, !.ret = 1])
    BY <1>15, <2>1, FailOK
  <2> QED BY <2>1, <2>2
<1>16. CASE WriteHeader(t)
  <2>1. CallOK("perform", c) BY <1>1, <1>16 DEF WriteHeader
  <2>2. CallOK("perform", [c EXCEPT !.hdr = 1])
    BY <2>1, HeaderOK
  <2> QED BY <1>15, <1>16, <2>1, <2>2 DEF WriteHeader
<1>17. CASE PerformFails(t)
  BY <1>1, <1>15, <1>17 DEF PerformFails
<1>18. CASE PerformEnds(t)
  <2>1. CallOK("handover", c) BY <1>1, <1>18, EndsOK DEF PerformEnds
  <2> QED BY <1>18, <2>1 DEF PerformEnds
<1>19. CASE HandOver(t)
  <2> DEFINE given == (IF c.data > 0 THEN {"data"} ELSE {})
                        \cup (IF c.req.wantHeaders /\ c.hdr > 0 THEN {"hdr"} ELSE {})
             gave == [c EXCEPT !.out = given, !.ptr = @ \ given]
             d(code, ret) == [c EXCEPT !.out = given, !.ptr = @ \ given, !.code = code, !.ret = ret]
  <2>1. CallOK("handover", c) BY <1>1, <1>19 DEF HandOver
  <2>2. given \in SUBSET {"data", "hdr"} /\ (c.data > 0 => "data" \in given)
    OBVIOUS
  <2>3. \/ To(t, "end", gave)
        \/ To(t, "end", [gave EXCEPT !.code = c.req.status, !.ret = 0])
    BY <1>19 DEF HandOver
  <2> HIDE DEF given
  <2>4. CallOK("end", d(c.code, c.ret)) /\ CallOK("end", d(c.req.status, 0))
    BY <1>2, <2>1, <2>2, HandOverOK
  <2>5. gave = d(c.code, c.ret) /\ [gave EXCEPT !.code = c.req.status, !.ret = 0] = d(c.req.status, 0)
    BY <1>2 DEF Call
  <2> QED BY <2>3, <2>4, <2>5
<1>20. CASE End(t)
  <2>1. CallOK("end", c) BY <1>1, <1>20 DEF End
  <2> QED BY <1>20, <2>1, EndOK DEF End
<1>21. CASE Caller(t)
  <2>1. CallOK("return", c) BY <1>1, <1>21 DEF Caller
  <2> QED BY <1>21, <2>1, CallerOK DEF Caller
<1> QED
  BY <1>3, <1>4, <1>5, <1>6, <1>7, <1>8, <1>9, <1>10, <1>11, <1>12, <1>13, <1>14,
     <1>16, <1>17, <1>18, <1>19, <1>20, <1>21 DEF Request

(* Initially every thread is idle, and nobody has counted.                  *)
LEMMA InitIInv == Init => IInv
<1> SUFFICES ASSUME Init PROVE IInv
  OBVIOUS
<1>1. CallOK("idle", NoCall) BY NoCallOK
<1>2. \A t \in Threads : CallOK(pc[t], call[t])
  BY <1>1 DEF Init
<1>3. TypeOK
  <2>1. pc \in [Threads -> Pcs] /\ call \in [Threads -> Call]
    BY <1>1 DEF Init, CallOK
  <2>2. calls \in [Threads -> Nat] /\ seen \in [Threads -> Int]
    BY DEF Init
  <2>3. initialized \in Int
    BY DEF Init
  <2>4. ready \in BOOLEAN /\ refused \in BOOLEAN
    BY Zenon DEF Init
  <2> QED BY <2>1, <2>2, <2>3, <2>4 DEF TypeOK
<1>4. Initialisation
  BY DEF Init, Initialisation, Using
<1> QED BY <1>2, <1>3, <1>4 DEF IInv

(* The rest of the types.                                                   *)
LEMMA CountersType ==
  ASSUME TypeOK, NEW t \in Threads, Request(t)
  PROVE  /\ calls' \in [Threads -> Nat] /\ seen' \in [Threads -> Int]
         /\ initialized' \in Int /\ ready' \in BOOLEAN /\ refused' \in BOOLEAN
<1>1. ASSUME NEW req \in Reqs, Begin(t, req)
      PROVE  calls' \in [Threads -> Nat] /\ UNCHANGED initvars
  BY <1>1 DEF TypeOK, Begin
<1>2. CASE Load(t)
  <2>1. seen' = [seen EXCEPT ![t] = initialized] /\ UNCHANGED <<calls, initialized, ready, refused>>
    BY <1>2 DEF Load
  <2> QED BY <2>1 DEF TypeOK
<1>3. CASE Store(t)
  <2>1. initialized' = seen[t] + 1 /\ UNCHANGED <<calls, seen, ready, refused>>
    BY <1>3 DEF Store
  <2>2. seen[t] \in Int BY DEF TypeOK
  <2>3. initialized' \in Int BY <2>1, <2>2
  <2> QED BY <2>1, <2>3 DEF TypeOK
<1>4. CASE GlobalInit(t)
  <2>1. /\ \/ ready' = TRUE /\ refused' = refused /\ initialized' = initialized
           \/ ready' = ready /\ refused' = TRUE /\ initialized' = initialized - 1
        /\ UNCHANGED <<calls, seen>>
    BY <1>4 DEF GlobalInit
  <2>2. initialized' \in Int BY <2>1 DEF TypeOK
  <2> QED BY <2>1, <2>2 DEF TypeOK
<1>5. CASE UNCHANGED <<calls, initvars>> BY <1>5 DEF TypeOK, initvars
<1>6. ASSUME NEW room \in 1..2, ReadBody(t, room) PROVE UNCHANGED <<calls, initvars>>
  BY <1>6 DEF ReadBody
<1>7. ASSUME \/ EasyInit(t) \/ Open(t) \/ SetUrl(t) \/ MethodOptions(t) \/ SetHeaders(t)
             \/ SetBuffers(t) \/ WriteBody(t) \/ WriteHeader(t) \/ PerformFails(t)
             \/ PerformEnds(t) \/ HandOver(t) \/ End(t) \/ Caller(t)
      PROVE  UNCHANGED <<calls, initvars>>
  BY <1>7 DEF EasyInit, Open, SetUrl, MethodOptions, SetHeaders, SetBuffers, WriteBody,
              WriteHeader, PerformFails, PerformEnds, HandOver, End, Caller
<1>8. CASE \E req \in Reqs : Begin(t, req)
  BY <1>1, <1>8 DEF TypeOK, initvars
<1> QED BY <1>2, <1>3, <1>4, <1>5, <1>6, <1>7, <1>8 DEF Request

(* A thread that counts, or that goes on because another one has counted,   *)
(* leaves somebody inside global_init(), or libcurl initialised, unless an  *)
(* initialisation has failed.                                               *)
LEMMA InitialisationStep ==
  ASSUME IInv, NEW t \in Threads, Request(t)
  PROVE  Initialisation'
<1> SUFFICES ASSUME ~refused' PROVE Initialisation'
  BY DEF Initialisation
<1> DEFINE Stays == UNCHANGED <<initialized, seen, ready, refused>>
<1>1. PICK p, c : To(t, p, c) /\ CallOK(p, c)
  BY CallStep
<1>2. pc' = [pc EXCEPT ![t] = p] /\ pc \in [Threads -> Pcs] /\ initialized \in Int
      /\ seen \in [Threads -> Int] /\ ready \in BOOLEAN
  BY <1>1 DEF To, IInv, TypeOK
<1>3. CASE Load(t)
  <2>1. pc'[t] = "store" /\ pc[t] = "load" /\ seen' = [seen EXCEPT ![t] = initialized]
        /\ UNCHANGED <<initialized, ready, refused>>
    BY <1>2, <1>3 DEF Load, To
  <2>2. Initialising => Initialising'
    BY <1>2, <2>1 DEF Initialising
  <2> QED BY <1>2, <2>1, <2>2 DEF IInv, Initialisation, Using
<1>4. CASE Store(t)
  <2>1. pc[t] = "store" /\ initialized' = seen[t] + 1 /\ UNCHANGED <<seen, ready, refused>>
        /\ pc'[t] = (IF seen[t] = 0 THEN "global_init" ELSE "open")
    BY <1>2, <1>4 DEF Store, To
  <2>2. initialized' \in Nat /\ \A u \in Threads : seen'[u] \in Nat
    BY <2>1 DEF IInv, Initialisation
  <2>3. CASE seen[t] = 0
    BY <2>1, <2>2, <2>3 DEF Initialisation, Initialising
  <2>4. CASE seen[t] # 0
    <3>1. ready \/ Initialising BY <2>1, <2>4 DEF IInv, Initialisation
    <3>2. Initialising => Initialising' BY <1>2, <2>1 DEF Initialising
    <3> QED BY <2>1, <2>2, <3>1, <3>2 DEF Initialisation
  <2> QED BY <2>3, <2>4
<1>5. CASE GlobalInit(t)
  <2>1. ready' = TRUE /\ UNCHANGED <<initialized, seen, refused>>
    BY <1>5 DEF GlobalInit
  <2> QED BY <2>1 DEF IInv, Initialisation
<1>6. ASSUME Stays, pc[t] # "global_init", p # "store",
             p \in Using => pc[t] \in Using \/ initialized # 0
      PROVE  Initialisation'
  <2>1. Initialising => Initialising' BY <1>2, <1>6 DEF Initialising
  <2>2. ASSUME NEW u \in Threads, \/ pc'[u] = "store" /\ seen'[u] # 0
                                  \/ pc'[u] \in Using
        PROVE  ready \/ Initialising
    <3>1. CASE u = t BY <1>2, <1>6, <2>2, <3>1 DEF IInv, Initialisation
    <3>2. CASE u # t BY <1>2, <1>6, <2>2, <3>2 DEF IInv, Initialisation
    <3> QED BY <3>1, <3>2
  <2>3. (\E u \in Threads : \/ pc'[u] = "store" /\ seen'[u] # 0
                            \/ pc'[u] \in Using) => ready' \/ Initialising'
    BY <1>6, <2>1, <2>2
  <2>4. initialized' # 0 => ready' \/ Initialising'
    BY <1>6, <2>1 DEF IInv, Initialisation
  <2>5. initialized' \in Nat /\ \A u \in Threads : seen'[u] \in Nat
    BY <1>6 DEF IInv, Initialisation
  <2> QED BY <2>3, <2>4, <2>5 DEF Initialisation
<1>7. pc'[t] = p
  BY <1>2
<1>8. ASSUME NEW req \in Reqs, Begin(t, req) PROVE Initialisation'
  BY <1>2, <1>6, <1>7, <1>8 DEF Begin, To, initvars, Using
<1>9. CASE EasyInit(t)
  BY <1>2, <1>6, <1>7, <1>9 DEF EasyInit, To, initvars, Using
<1>10. CASE Open(t) \/ SetUrl(t) \/ MethodOptions(t) \/ SetHeaders(t)
  <2>1. /\ pc[t] \in Using /\ p # "store" /\ Stays
    BY <1>2, <1>7, <1>10 DEF Open, SetUrl, MethodOptions, SetHeaders, To, initvars, Using
  <2> QED BY <1>6, <2>1 DEF Using
<1>11. CASE SetBuffers(t) \/ WriteBody(t) \/ WriteHeader(t) \/ PerformFails(t) \/ PerformEnds(t)
            \/ HandOver(t) \/ \E room \in 1..2 : ReadBody(t, room)
  <2>1. /\ pc[t] \in Using /\ p # "store" /\ Stays
    BY <1>2, <1>7, <1>11 DEF SetBuffers, WriteBody, WriteHeader, PerformFails, PerformEnds,
       HandOver, ReadBody, To, initvars, Using
  <2> QED BY <1>6, <2>1 DEF Using
<1>12. CASE End(t) \/ Caller(t)
  BY <1>2, <1>6, <1>7, <1>12 DEF End, Caller, To, initvars, Using
<1> QED
  BY <1>3, <1>4, <1>5, <1>8, <1>9, <1>10, <1>11, <1>12 DEF Request

(* Every step keeps the invariant.                                          *)
LEMMA NextIInv == IInv /\ [Next]_vars => IInv'
<1> SUFFICES ASSUME IInv, [Next]_vars PROVE IInv'
  OBVIOUS
<1>1. ASSUME NEW t \in Threads, Request(t) PROVE IInv'
  <2>1. PICK p, c : To(t, p, c) /\ CallOK(p, c) BY <1>1, CallStep
  <2>2. /\ pc' \in [Threads -> Pcs] /\ call' \in [Threads -> Call]
        /\ \A u \in Threads : CallOK(pc[u], call[u])'
    BY <2>1, ToOK DEF IInv
  <2>3. /\ calls' \in [Threads -> Nat] /\ seen' \in [Threads -> Int]
        /\ initialized' \in Int /\ ready' \in BOOLEAN /\ refused' \in BOOLEAN
    BY <1>1, CountersType DEF IInv
  <2>4. Initialisation' BY <1>1, InitialisationStep
  <2> QED BY <2>2, <2>3, <2>4 DEF IInv, TypeOK
<1>2. CASE UNCHANGED vars
  <2>1. TypeOK' BY <1>2 DEF vars, IInv, TypeOK
  <2>2. Initialisation' BY <1>2 DEF vars, IInv, Initialisation, Initialising
  <2>3. pc' = pc /\ call' = call BY <1>2 DEF vars
  <2>4. ASSUME NEW u \in Threads PROVE CallOK(pc'[u], call'[u])
    BY <2>3 DEF IInv
  <2> QED BY <2>1, <2>2, <2>4 DEF IInv, CallOK, Blocks, Outcome, Framing
<1> QED BY <1>1, <1>2 DEF Next

-----------------------------------------------------------------------------
(* The invariant holds throughout: every call, whatever step of it fails,   *)
(* is in order wherever its thread is.                                      *)
THEOREM Inductive == Spec => []IInv
BY InitIInv, NextIInv, PTL DEF Spec

(* Every variable has its type.                                             *)
THEOREM TypeCorrect == Spec => []TypeOK
<1>1. IInv => TypeOK BY DEF IInv
<1> QED BY Inductive, <1>1, PTL

(* A block of libcurl_wrap_cli_request() has one owner: nothing is freed    *)
(* twice, or used after it was freed.                                       *)
THEOREM OwnerUnique == Spec => []OneOwner
<1>1. IInv => OneOwner BY DEF IInv, CallOK, Blocks, OneOwner
<1> QED BY Inductive, <1>1, PTL

(* After the caller has freed the response of libcurl_wrap_cli_request()    *)
(* nothing of the call is left, but for a list that a failed append lost.   *)
THEOREM CleansUp == Spec => []NothingLeaks
<1>1. IInv => NothingLeaks BY DEF IInv, CallOK, Blocks, NothingLeaks
<1> QED BY Inductive, <1>1, PTL

(* What libcurl_wrap_cli_request() returns: the status and the whole reply, *)
(* or 404 and never a part of a reply.                                      *)
THEOREM WholeOrNothing == Spec => []RepliesWhole
<1>1. IInv => RepliesWhole BY DEF IInv, CallOK, Outcome, RepliesWhole
<1> QED BY Inductive, <1>1, PTL

(* A POST has a length or is sent with the chunked header that              *)
(* find_header() saw.                                                       *)
THEOREM BodyFramed == Spec => []PostIsFramed
<1>1. ASSUME IInv PROVE PostIsFramed
  <2> SUFFICES ASSUME NEW t \in Threads, pc[t] = "perform", call[t].req.method = "POST",
                      ~call[t].cut,
                      \A i \in 1..Len(call[t].req.headers) : call[t].req.headers[i].name # "prefix",
                      FindHeader(call[t].req.headers, "Transfer-Encoding", TRUE) # 0
               PROVE  \E i \in 1..Len(call[t].list) :
                        call[t].list[i].name = "Transfer-Encoding" /\ call[t].list[i].chunked
    BY <1>1 DEF PostIsFramed, IInv, CallOK, Framing
  <2> DEFINE hs == call[t].req.headers
             n == IF Len(hs) < HDRS_MAX_NUM THEN Len(hs) ELSE HDRS_MAX_NUM
  <2>1. call[t].list = Looked(hs)
    BY <1>1 DEF IInv, CallOK, Framing
  <2>2. hs \in Seq(Header) /\ Len(hs) \in Nat
    BY <1>1, RequestsAssumption, LenProperties DEF IInv, CallOK, Call, Req
  <2>3. n \in Nat /\ n <= Len(hs)
    BY <2>2, RequestsAssumption
  <2>4. Looked(hs) = SubSeq(hs, 1, n) BY DEF Looked
  <2>5. PICK i \in 1..Len(Looked(hs)) : Matches(hs[i], "Transfer-Encoding", TRUE)
    BY DEF FindHeader
  <2> HIDE DEF n, hs
  <2>6. Len(SubSeq(hs, 1, n)) = n /\ \A j \in 1..n : SubSeq(hs, 1, n)[j] = hs[j]
    BY <2>2, <2>3, SubSeqProperties, ElementOfSeq
  <2>7. i \in 1..Len(hs) /\ Looked(hs)[i] = hs[i]
    BY <2>2, <2>3, <2>4, <2>5, <2>6
  <2>8. hs[i].name = "Transfer-Encoding" /\ hs[i].chunked
    BY <2>5, <2>7 DEF Matches, hs
  <2> QED BY <2>1, <2>5, <2>7, <2>8
<1> QED BY Inductive, <1>1, PTL

(* As the application leaves the initialisation of libcurl to the first     *)
(* curl_easy_init(), a thread may use it too early, but unless an           *)
(* initialisation fails only while another one is inside global_init().     *)
THEOREM UsedInitialised == Spec => []UnreadyOnlyMeanwhile
<1>1. IInv => UnreadyOnlyMeanwhile BY DEF IInv, Initialisation, UnreadyOnlyMeanwhile
<1> QED BY Inductive, <1>1, PTL
=============================================================================
