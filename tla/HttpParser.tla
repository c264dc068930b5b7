----------------------------- MODULE HttpParser -----------------------------
(***************************************************************************)
(* http_parser_execute (util/http/http_parser.c) with the callbacks of     *)
(* CodecHttp (codec/codec_http.cpp), on tokens instead of characters: a    *)
(* token is a word of a message, [k |-> kind, v |-> value], and a header's *)
(* value includes the end of its line.  In a body every token is a byte.   *)
(*                                                                         *)
(* Compressed bodies, the parts of an URL and limits of sizes are left     *)
(* out.                                                                    *)
(***************************************************************************)
EXTENDS Integers, Sequences

T(k, v) == [k |-> k, v |-> v]
crlf == T("crlf", "")
blank == T("blank", "")     \* the empty line after headers
junk == T("junk", "")       \* characters that are nowhere allowed

Unset == -1                 \* content_length is ULLONG_MAX

\* HttpMsg, with the defaults of protobuf.
NoMsg == [decoding |-> FALSE, type |-> "request", method |-> "DELETE", url |-> "",
          ver |-> <<0, 0>>, status |-> 0, headers |-> <<>>, body |-> <<>>, keep |-> 0]

\* http_parser_init with HTTP_BOTH; n: tokens read.
Parser(msg) ==
    [s |-> "start_req_or_res", err |-> FALSE, stop |-> FALSE, n |-> 0,
     type |-> "request", method |-> "DELETE", ver |-> <<0, 0>>, status |-> 0,
     flags |-> {}, left |-> Unset, name |-> "", upgrade |-> FALSE, msg |-> msg]

Error(p) == [p EXCEPT !.err = TRUE]

-----------------------------------------------------------------------------
(* Callbacks *)

on_message_begin(p) == [p EXCEPT !.msg.decoding = TRUE]

on_url(p, url) == [p EXCEPT !.msg.url = url]

on_status(p, status) == [p EXCEPT !.msg.status = status]

\* The name of a header waits in the body for its value.
on_header_field(p, t) == [p EXCEPT !.msg.body = <<t>>]

keep_alive_of(name, value, old) ==
    CASE name = "Keep-Alive" -> value
      [] name = "Connection" /\ value = "keep-alive" -> -1
      [] name = "Connection" /\ value = "close" -> 0
      [] OTHER -> old

on_header_value(p, value) ==
    LET name == p.msg.body[1].v
    IN  [p EXCEPT !.msg.body = <<>>,
                  !.msg.headers = [h \in DOMAIN @ \cup {name} |->
                                      IF h = name THEN value ELSE @[h]],
                  !.msg.keep = keep_alive_of(name, value, @)]

on_body(p, t) == [p EXCEPT !.msg.body = Append(@, t)]

http_message_needs_eof(p) ==
    /\ p.type = "response"
    /\ p.status \notin (100..199) \cup {204, 304}
    /\ "CHUNKED" \notin p.flags /\ p.left = Unset

http_should_keep_alive(p) ==
    /\ IF p.ver[1] > 0 /\ p.ver[2] > 0 THEN "CLOSE" \notin p.flags
                                       ELSE "KEEP_ALIVE" \in p.flags
    /\ ~http_message_needs_eof(p)

on_message_complete(p) ==
    [p EXCEPT !.msg =
        [IF p.status # 0 THEN [@ EXCEPT !.status = p.status, !.type = "response"]
                         ELSE [@ EXCEPT !.method = p.method, !.type = "request"]
         EXCEPT !.ver = p.ver, !.decoding = FALSE,
                !.keep = IF http_should_keep_alive(p) THEN @ ELSE 0]]

-----------------------------------------------------------------------------
(* One step for each token, by the state of the parser *)

\* s_start_req_or_res, s_start_req, s_start_res and s_dead: line ends between
\* messages are skipped, and a word begins a request or a response.
Start(p, t) ==
    LET q == [p EXCEPT !.flags = {}, !.left = Unset]
    IN  CASE t = crlf -> p
          [] t.k = "method" /\ p.s \in {"start_req_or_res", "start_req"} ->
                on_message_begin([q EXCEPT !.type = "request", !.method = t.v, !.s = "url"])
          [] t.k = "version" /\ p.s \in {"start_req_or_res", "start_res"} ->
                on_message_begin([q EXCEPT !.type = "response", !.ver = t.v, !.s = "status"])
          [] OTHER -> Error(p)

\* A word of characters that an URL may have, in the order of its parts.
parse_url_char(t) == t.k = "url"

Url(p, t) ==
    IF parse_url_char(t) THEN on_url([p EXCEPT !.s = "version"], t.v) ELSE Error(p)

\* A request line without a version is of HTTP/0.9.
Version(p, t) ==
    CASE t.k = "version" -> [p EXCEPT !.ver = t.v, !.s = "header_field"]
      [] t = crlf -> [p EXCEPT !.ver = <<0, 9>>, !.s = "header_field"]
      [] OTHER -> Error(p)

Status(p, t) ==
    IF t.k = "status" THEN on_status([p EXCEPT !.status = t.v, !.s = "header_field"], t.v)
    ELSE Error(p)

FlagsOf(name, value) ==
    CASE name = "Content-Length" -> {"CONTENTLENGTH"}
      [] name = "Transfer-Encoding" /\ value = "chunked" -> {"CHUNKED"}
      [] name = "Connection" /\ value = "keep-alive" -> {"KEEP_ALIVE"}
      [] name = "Connection" /\ value = "close" -> {"CLOSE"}
      [] name = "Connection" /\ value = "upgrade" -> {"CONNECTION_UPGRADE"}
      [] name = "Upgrade" -> {"UPGRADE"}
      [] OTHER -> {}

\* At the end of the line the flags are set that its value gives.
LineEnd(p, value) ==
    on_header_value([p EXCEPT !.flags = @ \cup FlagsOf(p.name, value), !.s = "header_field"],
                    value)

HeaderValue(p, t) ==
    LET length == p.name = "Content-Length"
    IN  IF t.k # "value" \/ (length /\ "CONTENTLENGTH" \in p.flags) THEN Error(p)
        ELSE LineEnd([p EXCEPT !.left = IF length THEN t.v ELSE @], t.v)

\* NEW_MESSAGE and on_message_complete; after an upgrade the parser stops.
Complete(p) ==
    LET next == CASE ~http_should_keep_alive(p) -> "dead"
                  [] p.type = "request" -> "start_req"
                  [] OTHER -> "start_res"
    IN  on_message_complete([p EXCEPT !.s = next, !.stop = p.upgrade])

\* s_headers_almost_done and s_headers_done.
HeadersDone(q) ==
    LET up == IF {"UPGRADE", "CONNECTION_UPGRADE"} \subseteq q.flags
              THEN q.type = "request" \/ q.status = 101 ELSE q.method = "CONNECT"
        p == [q EXCEPT !.upgrade = up]
    IN  CASE "TRAILING" \in q.flags -> Complete(q)
          [] {"CHUNKED", "CONTENTLENGTH"} \subseteq q.flags -> Error(q)
          [] up /\ p.method = "CONNECT" -> Complete(p)
          [] "CHUNKED" \in p.flags -> [p EXCEPT !.s = "chunk_size"]
          [] p.left > 0 -> [p EXCEPT !.s = "body_identity"]
          [] p.left = 0 \/ ~http_message_needs_eof(p) -> Complete(p)
          [] OTHER -> [p EXCEPT !.s = "body_identity_eof"]

HeaderField(p, t) ==
    CASE t.k = "name" -> on_header_field([p EXCEPT !.name = t.v, !.s = "header_value"], t)
      [] t = blank -> HeadersDone(p)
      [] OTHER -> Error(p)

\* s_body_identity and s_message_done.
BodyIdentity(p, t) ==
    LET q == on_body([p EXCEPT !.left = @ - 1], t)
    IN  IF q.left = 0 THEN Complete(q) ELSE q

BodyIdentityEof(p, t) == on_body(p, t)

\* A chunk of size 0 is the last; headers may follow it.
ChunkSize(p, t) ==
    CASE t.k # "size" -> Error(p)
      [] t.v = 0 -> [p EXCEPT !.flags = @ \cup {"TRAILING"}, !.left = 0, !.s = "header_field"]
      [] OTHER -> [p EXCEPT !.left = t.v, !.s = "chunk_data"]

ChunkData(p, t) ==
    LET q == on_body([p EXCEPT !.left = @ - 1], t)
    IN  IF q.left = 0 THEN [q EXCEPT !.s = "chunk_data_done"] ELSE q

ChunkDataDone(p, t) == IF t = crlf THEN [p EXCEPT !.s = "chunk_size"] ELSE Error(p)

Step(p, t) ==
    CASE p.s = "url" -> Url(p, t)
      [] p.s = "version" -> Version(p, t)
      [] p.s = "status" -> Status(p, t)
      [] p.s = "header_field" -> HeaderField(p, t)
      [] p.s = "header_value" -> HeaderValue(p, t)
      [] p.s = "body_identity" -> BodyIdentity(p, t)
      [] p.s = "body_identity_eof" -> BodyIdentityEof(p, t)
      [] p.s = "chunk_size" -> ChunkSize(p, t)
      [] p.s = "chunk_data" -> ChunkData(p, t)
      [] p.s = "chunk_data_done" -> ChunkDataDone(p, t)
      [] OTHER -> Start(p, t)

\* From the start of the buffer to its end, an error or an upgrade.  (TLC
\* evaluates the member of a set once, and an argument wherever it occurs.)
http_parser_execute(msg, tokens) ==
    LET after[i \in 0..Len(tokens)] ==
            IF i = 0 THEN Parser(msg)
            ELSE CHOOSE q \in {IF p.err \/ p.stop THEN p
                               ELSE [Step(p, tokens[i]) EXCEPT !.n = i] : p \in {after[i - 1]}} :
                    TRUE
    IN  after[Len(tokens)]
=============================================================================
