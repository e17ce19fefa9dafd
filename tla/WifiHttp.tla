------------------------------ MODULE WifiHttp ------------------------------
(***************************************************************************)
(* WifiHttpClient and WifiHttpResponse: one GET over the borrowed TLS       *)
(* stream, advanced by polls that read a bounded number of bytes, with the  *)
(* bounded response reader between the stream and esp_http_client.          *)
(*                                                                         *)
(* A token stands for a header line, a chunk's line, or a byte of the body. *)
(* The server may close the stream in good order at any point of a framed   *)
(* reply; what it closes without a frame is the whole of it.                *)
(***************************************************************************)
EXTENDS Naturals, Sequences, SequencesExt

CONSTANTS
    Capacity,       \* of the caller's body
    Budget,         \* tokens read by one poll, 512 bytes in the code
    MaxBody         \* bound: bytes of a reply's body

VARIABLES
    reply,          \* what the server sends
    taken,          \* tokens of it that were read
    http,           \* WifiHttpClient::Impl
    parser          \* WifiHttpResponse

vars == <<reply, taken, http, parser>>

Replies ==
    [status : {200, 302, 500}, type : BOOLEAN, framing : {"length", "chunked", "close", "both"},
     body : 0..MaxBody, text : BOOLEAN, date : {"none", "one", "two", "age", "trailer"},
     junk : BOOLEAN]                     \* bytes after the end

Failures == {"invalid", "serverError", "tooLarge"}
States == {"status", "headers", "fixed", "untilClose", "chunkSize", "chunkBody", "chunkEnd",
           "trailers", "done", "failed"}

Fresh == [state |-> "status", failure |-> "invalid", size |-> 0, left |-> 0, type |-> FALSE,
          length |-> FALSE, chunked |-> FALSE, date |-> FALSE, dateBad |-> FALSE]
Closed == [open |-> FALSE, unsent |-> 0, polling |-> FALSE, budget |-> 0,
           finished |-> FALSE, result |-> "pending"]

TypeOK ==
    /\ reply \in Replies /\ taken \in Nat
    /\ http \in [open : BOOLEAN, unsent : 0..2, polling : BOOLEAN, budget : 0..Budget,
                 finished : BOOLEAN,
                 result : {"pending", "ready", "transfer"} \cup Failures]
    /\ parser \in [state : States, failure : Failures, size : 0..Capacity, left : Nat,
                   type : BOOLEAN, length : BOOLEAN, chunked : BOOLEAN,
                   date : BOOLEAN, dateBad : BOOLEAN]

-----------------------------------------------------------------------------
(* Seeded faults.                                                          *)

\* ReadyIsWhole: the end of the stream completes any body that has bytes.
EndsBodyAnywhere(p) == p.state \in {"fixed", "chunkBody", "chunkSize", "untilClose"}

-----------------------------------------------------------------------------
(* The server's reply, as tokens.                                          *)

Token(t, n) == [t |-> t, n |-> n]
Bytes(n) == [i \in 1..n |-> Token("byte", 1)]

Body(r) ==
    CASE r.framing = "chunked" ->
            (IF r.body = 0 THEN <<>>
             ELSE <<Token("chunk", r.body)>> \o Bytes(r.body) \o <<Token("crlf", 0)>>)
            \o <<Token("chunk", 0)>>
            \o (IF r.date = "trailer" THEN <<Token("date", 0)>> ELSE <<>>)
            \o <<Token("blank", 0)>>
      [] OTHER -> Bytes(r.body)

Stream(r) ==
    <<Token("status", r.status), Token("type", IF r.type THEN 1 ELSE 0)>>
    \o (IF r.date \in {"one", "two", "age"} THEN <<Token("date", 0)>> ELSE <<>>)
    \o (IF r.date = "two" THEN <<Token("date", 0)>> ELSE <<>>)
    \o (IF r.date = "age" THEN <<Token("age", 0)>> ELSE <<>>)
    \o (IF r.framing \in {"length", "both"} THEN <<Token("length", r.body)>> ELSE <<>>)
    \o (IF r.framing \in {"chunked", "both"} THEN <<Token("chunked", 0)>> ELSE <<>>)
    \o <<Token("blank", 0)>> \o Body(r) \o (IF r.junk THEN Bytes(1) ELSE <<>>)

-----------------------------------------------------------------------------
(* WifiHttpResponse.                                                       *)

Fail(p, why) == [p EXCEPT !.state = "failed", !.failure = why]

\* An empty body, or one that is not UTF-8, is no reply.
Complete(p) ==
    IF p.size = 0 \/ ~reply.text THEN Fail(p, "invalid") ELSE [p EXCEPT !.state = "done"]

\* A second Date, one in a trailer or a cache's Age spoils the sample.
Dated(p) ==
    [p EXCEPT !.date = TRUE, !.dateBad = @ \/ p.date \/ p.state = "trailers"]

ProcessHeader(p, tok) ==
    CASE tok.t = "date" -> Dated(p)
      [] tok.t = "age" -> [p EXCEPT !.dateBad = TRUE]
      [] p.state = "trailers" -> Fail(p, "invalid")
      [] tok.t = "type" ->
            IF p.type \/ tok.n = 0 THEN Fail(p, "invalid") ELSE [p EXCEPT !.type = TRUE]
      [] tok.t = "length" ->
            IF p.length THEN Fail(p, "invalid")
            ELSE IF tok.n > Capacity THEN Fail(p, "tooLarge")
            ELSE [p EXCEPT !.length = TRUE, !.left = tok.n]
      [] tok.t = "chunked" ->
            IF p.chunked THEN Fail(p, "invalid") ELSE [p EXCEPT !.chunked = TRUE]
      [] OTHER -> Fail(p, "invalid")

EndOfHeaders(p) ==
    IF ~p.type \/ (p.length /\ p.chunked) THEN Fail(p, "invalid")
    ELSE IF p.chunked THEN [p EXCEPT !.state = "chunkSize"]
    ELSE IF ~p.length THEN [p EXCEPT !.state = "untilClose"]
    ELSE IF p.left = 0 THEN Complete(p) ELSE [p EXCEPT !.state = "fixed"]

StoreByte(p) ==
    LET more == [p EXCEPT !.size = @ + 1, !.left = IF p.state = "untilClose" THEN @ ELSE @ - 1]
    IN IF p.size = Capacity THEN Fail(p, "tooLarge")
       ELSE IF p.state = "untilClose" \/ more.left > 0 THEN more
       ELSE IF p.state = "chunkBody" THEN [more EXCEPT !.state = "chunkEnd"] ELSE Complete(more)

ChunkSize(p, n) ==
    IF n > Capacity - p.size THEN Fail(p, "tooLarge")
    ELSE [p EXCEPT !.left = n, !.state = IF n = 0 THEN "trailers" ELSE "chunkBody"]

Feed(p, tok) ==
    CASE p.state = "failed" -> p
      [] p.state = "done" -> Fail(p, "invalid")
      [] p.state \in {"fixed", "untilClose", "chunkBody"} -> StoreByte(p)
      [] p.state = "status" ->
            IF tok.t # "status" THEN Fail(p, "invalid")
            ELSE IF tok.n = 200 THEN [p EXCEPT !.state = "headers"]
            ELSE Fail(p, IF tok.n >= 400 THEN "serverError" ELSE "invalid")
      [] p.state \in {"headers", "trailers"} ->
            IF tok.t # "blank" THEN ProcessHeader(p, tok)
            ELSE IF p.state = "trailers" THEN Complete(p) ELSE EndOfHeaders(p)
      [] p.state = "chunkEnd" ->
            IF tok.t = "crlf" THEN [p EXCEPT !.state = "chunkSize"] ELSE Fail(p, "invalid")
      [] p.state = "chunkSize" ->
            IF tok.t = "chunk" THEN ChunkSize(p, tok.n) ELSE Fail(p, "invalid")

Result(p) == IF p.state = "done" THEN "ready"
             ELSE IF p.state = "failed" THEN p.failure ELSE "pending"

\* Only a body without a frame may end with the stream.
EndsBody(p) == p.state = "untilClose"

EndOfStream(p) ==
    IF EndsBody(p) THEN Complete(p)
    ELSE IF p.state \in {"done", "failed"} THEN p ELSE Fail(p, "invalid")

-----------------------------------------------------------------------------
(* WifiHttpClient.                                                         *)

Init == /\ reply \in Replies /\ taken = 0 /\ http = Closed /\ parser = Fresh

Begin == /\ ~http.open /\ taken = 0
         /\ http' = [Closed EXCEPT !.open = TRUE, !.unsent = 2] /\ parser' = Fresh
         /\ UNCHANGED <<reply, taken>>

PollBegins == /\ http.open /\ ~http.polling /\ ~http.finished
              /\ http' = [http EXCEPT !.polling = TRUE, !.budget = Budget]
              /\ UNCHANGED <<reply, taken, parser>>

Reading == http.polling /\ http.unsent = 0

\* ESP_ERR_HTTP_EAGAIN: the stream would block, the budget is used, or the
\* request is not out.
PollPends == /\ http.polling /\ http' = [http EXCEPT !.polling = FALSE]
             /\ UNCHANGED <<reply, taken, parser>>

Finish(result) == [http EXCEPT !.polling = FALSE, !.finished = TRUE, !.result = result]

\* The buffered request is written before anything is read.
Write == /\ http.polling /\ http.unsent > 0
         /\ http' = [http EXCEPT !.unsent = @ - 1, !.polling = @ /\ http.unsent = 1]
         /\ UNCHANGED <<reply, taken, parser>>

\* A slice is checked before esp_http_client sees it; that reads no further
\* once the reply is complete.
Read == /\ Reading
        /\ \E k \in 1..http.budget :
             /\ taken + k <= Len(Stream(reply))
             /\ taken' = taken + k
             /\ parser' = FoldLeft(Feed, parser, SubSeq(Stream(reply), taken + 1, taken + k))
             /\ http' = IF Result(parser') = "pending" THEN [http EXCEPT !.budget = @ - k]
                        ELSE Finish(Result(parser'))
        /\ UNCHANGED reply

\* FIN; the reply counts only when the reader has seen all of it.
ReadEnd == /\ Reading /\ http.budget > 0
           /\ parser' = EndOfStream(parser)
           /\ http' = Finish(Result(parser'))
           /\ UNCHANGED <<reply, taken>>

StreamFails == /\ http.polling /\ http' = Finish("transfer")
               /\ UNCHANGED <<reply, taken, parser>>

Close == /\ http.open /\ ~http.polling /\ http' = Closed /\ parser' = Fresh
         /\ UNCHANGED <<reply, taken>>

Next == Begin \/ PollBegins \/ PollPends \/ Write \/ Read \/ ReadEnd \/ StreamFails \/ Close

Spec == Init /\ [][Next]_vars

ClockSample == http.finished /\ http.result = "ready" /\ parser.date /\ ~parser.dateBad

-----------------------------------------------------------------------------
(* A reply counts as ready only when it is a plain 200 with one type, one    *)
(* frame and valid text, and a framed body is all there, wherever the        *)
(* stream was cut, closed or sliced by the polls.                            *)
ReadyIsWhole ==
    http.result = "ready" =>
        /\ reply.status = 200 /\ reply.type /\ reply.text /\ reply.framing # "both"
        /\ parser.size \in 1..Capacity
        /\ reply.framing # "close" => parser.size = reply.body

(* The clock is set from a reply's Date only when the server wrote exactly   *)
(* one, in the header of a whole reply that no cache aged.                   *)
ClockIsOwn == ClockSample => reply.date = "one"
=============================================================================
