-------------------------------- MODULE Http --------------------------------
(***************************************************************************)
(* cloak_http_parser_t (libcloak-server/src/http.c): the parser of the     *)
(* admin API's requests, fed with whatever pieces the stream delivers.     *)
(*                                                                         *)
(* The input is a sequence of items: "cr", "lf" and "ctl" (a control       *)
(* character) are one byte each; a "text" item is a run of n other bytes,  *)
(* and as is what a line that consists of it says: a request line has a    *)
(* method and a path, a header line a name and a value.                    *)
(***************************************************************************)
EXTENDS Integers, SequencesExt

CONSTANTS MAX_REQUEST_LINE, MAX_PATH, MAX_HEADER_LINE, MAX_HEADERS,
          MAX_HEADER_BLOCK, MAX_BODY

Methods == {"GET", "POST", "DELETE", "OPTIONS"}

(* cloak_http_parser_init; lengths is empty until a Content-Length is read. *)
NewParser ==
    [state |-> "incomplete", phase |-> "request", status |-> 0,
     line |-> << >>, line_len |-> 0, pending_cr |-> FALSE,
     header_count |-> 0, block_len |-> 0, lengths |-> {},
     body |-> << >>, body_have |-> 0, method |-> "other", path |-> << >>]

Fail(p, status) == [p EXCEPT !.state = "error", !.status = status]

(* method_of: another method is not an error of the parser's. *)
MethodOf(m) == IF m \in Methods THEN m ELSE "other"

(* finish_request_line; path_len is 0 in a line without a proper path. *)
FinishRequestLine(p) ==
    IF Len(p.line) # 1 \/ "method" \notin DOMAIN p.line[1].as THEN Fail(p, 400)
    ELSE LET r == p.line[1].as
         IN IF r.path_len >= MAX_PATH THEN Fail(p, 414)
            ELSE IF r.path_len = 0 THEN Fail(p, 400)
            ELSE [p EXCEPT !.method = MethodOf(r.method), !.path = r.path,
                           !.phase = "headers", !.line = << >>, !.line_len = 0]

(* parse_content_length: v is negative if it is not a number.  A second    *)
(* header must agree with the first.                                       *)
ParseContentLength(p, v) ==
    IF v < 0 THEN Fail(p, 400)
    ELSE IF v > MAX_BODY THEN Fail(p, 413)
    ELSE IF p.lengths \ {v} # {} THEN Fail(p, 400)
    ELSE [p EXCEPT !.lengths = {v}]

(* finish_headers: room says whether there is memory for the body. *)
FinishHeaders(p, room) ==
    IF p.lengths \ {0} = {} THEN [p EXCEPT !.state = "done"]
    ELSE IF ~room THEN Fail(p, 500)
    ELSE [p EXCEPT !.phase = "body"]

(* finish_header_line: an empty line ends the headers. *)
FinishHeaderLine(p, room) ==
    LET q == [p EXCEPT !.line = << >>, !.line_len = 0]
        counted == [q EXCEPT !.header_count = @ + 1]
    IN IF p.line_len = 0 THEN FinishHeaders(q, room)
       ELSE IF p.line[1].as = [folded |-> TRUE] THEN Fail(q, 400)
       ELSE IF counted.header_count > MAX_HEADERS THEN Fail(counted, 431)
       ELSE IF Len(p.line) # 1 \/ "name" \notin DOMAIN p.line[1].as
       THEN Fail(counted, 400)
       ELSE CASE p.line[1].as.name = "transfer-encoding" -> Fail(counted, 501)
              [] p.line[1].as.name = "content-length" ->
                   ParseContentLength(counted, p.line[1].as.value)
              [] OTHER -> counted

(* line_byte, for the bytes of one item. *)
LineItem(p, i, room) ==
    LET cap == IF p.phase = "request" THEN MAX_REQUEST_LINE ELSE MAX_HEADER_LINE
        over == IF p.phase = "request" THEN 414 ELSE 431
    IN IF p.pending_cr
       THEN IF i.k # "lf" THEN Fail(p, 400)
            ELSE LET q == [p EXCEPT !.pending_cr = FALSE]
                 IN IF p.phase = "request" THEN FinishRequestLine(q)
                    ELSE FinishHeaderLine(q, room)
       ELSE CASE i.k = "cr" -> [p EXCEPT !.pending_cr = TRUE]
              [] i.k \in {"lf", "ctl"} -> Fail(p, 400)
              [] OTHER -> IF p.line_len + i.n > cap THEN Fail(p, over)
                          ELSE [p EXCEPT !.line = Append(@, i),
                                         !.line_len = @ + i.n]

(* The body takes what it needs and leaves the rest. *)
BodyItem(p, i) ==
    LET need == (CHOOSE v \in p.lengths : TRUE) - p.body_have
        take == IF i.n < need THEN i.n ELSE need
    IN [p EXCEPT !.body_have = @ + take, !.body = Append(@, i),
                 !.state = IF take = need THEN "done" ELSE @]

(* cloak_http_parser_feed. *)
FeedItem(p, i, room) ==
    LET counted == [p EXCEPT !.block_len = @ + i.n]
    IN CASE p.state # "incomplete" -> p
         [] p.phase = "body" -> BodyItem(p, i)
         [] p.phase = "request" -> LineItem(p, i, room)
         [] OTHER -> IF counted.block_len > MAX_HEADER_BLOCK
                     THEN Fail(counted, 431) ELSE LineItem(counted, i, room)
Feed(p, items, room) == FoldLeft(LAMBDA q, i : FeedItem(q, i, room), p, items)

-----------------------------------------------------------------------------
(* The reference: what a request is, how it is written, and how it has to  *)
(* be answered before its path is even looked at.                          *)

Cr == [k |-> "cr", n |-> 1]
Lf == [k |-> "lf", n |-> 1]
Text(n, as) == [k |-> "text", n |-> n, as |-> as]

(* A request is a record of a request line, a sequence of header lines and *)
(* a sequence of items of a body; each line is one item.                   *)
Line(t) == <<t, Cr, Lf>>
Written(r) == Line(r.line) \o FlattenSeq([i \in DOMAIN r.headers |->
                                            Line(r.headers[i])])
                           \o <<Cr, Lf>> \o r.body

LineVerdict(l) ==
    CASE l.k = "ctl" -> 400
      [] l.n > MAX_REQUEST_LINE -> 414
      [] "method" \notin DOMAIN l.as -> 400
      [] l.as.path_len >= MAX_PATH -> 414
      [] l.as.path_len = 0 -> 400
      [] OTHER -> 0

Lengths(r) == [i \in DOMAIN r.headers |->
                 IF "name" \in DOMAIN r.headers[i].as
                        /\ r.headers[i].as.name = "content-length"
                 THEN {r.headers[i].as.value} ELSE {}]

(* What is wrong with header line i, given the ones before it. *)
HeaderVerdict(r, i) ==
    LET h == r.headers[i]
        size == FoldLeft(LAMBDA s, t : s + t.n + 2, 0, SubSeq(r.headers, 1, i - 1))
        known == UNION {Lengths(r)[j] : j \in 1 .. i - 1}
    IN CASE h.n > MAX_HEADER_LINE \/ size + h.n > MAX_HEADER_BLOCK -> 431
         [] h.k = "ctl" -> 400
         [] size + h.n + 2 > MAX_HEADER_BLOCK -> 431
         [] h.as = [folded |-> TRUE] -> 400
         [] i > MAX_HEADERS -> 431
         [] "name" \notin DOMAIN h.as -> 400
         [] h.as.name = "transfer-encoding" -> 501
         [] h.as.name = "content-length" ->
              CASE h.as.value < 0 -> 400
                [] h.as.value > MAX_BODY -> 413
                [] known \ {h.as.value} # {} -> 400
                [] OTHER -> 0
         [] OTHER -> 0

(* The first thing wrong with a request: a status, or 0. *)
Verdict(r) ==
    LET bad == {i \in DOMAIN r.headers : HeaderVerdict(r, i) # 0}
        block == FoldLeft(LAMBDA s, t : s + t.n + 2, 2, r.headers)
    IN IF LineVerdict(r.line) # 0 THEN LineVerdict(r.line)
       ELSE IF bad # {}
       THEN HeaderVerdict(r, CHOOSE i \in bad : \A j \in bad : i <= j)
       ELSE IF block > MAX_HEADER_BLOCK THEN 431 ELSE 0
=============================================================================
