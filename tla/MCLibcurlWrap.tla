--------------------------- MODULE MCLibcurlWrap ---------------------------
(* LibcurlWrap for TLC: the requests of the instance. *)
EXTENDS LibcurlWrap, TLC

Symmetry == Permutations(Threads)

Hdr(name, chunked) == [name |-> name, chunked |-> chunked]
Chunked == Hdr("Transfer-Encoding", TRUE)
Get == [method |-> "GET", headers |-> <<>>, body |-> Null, reply |-> 2, status |-> 503,
        wantHeaders |-> FALSE]

(* A GET as the application makes it, and without a reply; POSTs with and   *)
(* without a length, the chunked header being the last one looked at, or    *)
(* beyond it; PUTs with and without a body; a method that does not exist.   *)
SomeReqs ==
  {Get, [Get EXCEPT !.method = "MAX"],
   [Get EXCEPT !.reply = 0, !.headers = <<Hdr("User-Agent", FALSE)>>],
   [Get EXCEPT !.method = "POST", !.body = 3, !.reply = 1, !.wantHeaders = TRUE],
   [Get EXCEPT !.method = "POST", !.body = 1, !.reply = 1,
               !.headers = <<Hdr("other", FALSE), Chunked>>],
   [Get EXCEPT !.method = "POST", !.body = Null, !.reply = 1, !.headers = <<Hdr("prefix", TRUE)>>],
   [Get EXCEPT !.method = "POST", !.body = 1, !.reply = 1,
               !.headers = <<Hdr("other", TRUE), Hdr("malformed", FALSE), Chunked>>],
   [Get EXCEPT !.method = "PUT", !.body = 2, !.reply = 1],
   [Get EXCEPT !.method = "PUT"]}
=============================================================================
