----------------------------- MODULE MsgStream -----------------------------
(***************************************************************************)
(* The bytes of a connection become messages and messages become bytes:    *)
(* Connection::conn_read, fetch_data and conn_write with their buffers,    *)
(* the codecs (codec_proto.cpp, codec_http.cpp), and the loops of the      *)
(* network that hand messages to the modules (process_tcp_msg,             *)
(* process_http_msg).                                                      *)
(*                                                                         *)
(* A client sends requests and reads answers with the same codec; TCP      *)
(* delivers any part of what is under way.  A unit of the stream is a      *)
(* token of http or a part of a protobuf message.                          *)
(*                                                                         *)
(* A module that answers while a message is processed is the case in which *)
(* Respond follows ServerReads at once: for http the loop ends after one   *)
(* message, for protobuf the codec keeps no state.                         *)
(***************************************************************************)
EXTENDS SocketBuffer, HttpParser, SequencesExt

CONSTANTS
    Requests,   \* kind of client -> the sequences of requests it may send
    Unhandled,  \* urls that no module has a handler for
    MaxParts    \* bound: transfers of less than there is

ASSUME StreamAssumption ==
    DOMAIN Requests \subseteq {"http", "pipelined", "proto"} /\ MaxParts \in Nat

VARIABLES
    kind,     \* the client: http that waits for its answers or not, or protobuf
    todo,     \* requests that it has still to send
    sent,     \* ... and has sent
    up,       \* units under way to the server
    open,     \* the connection is in m_conns
    recv,     \* m_recv_buf
    send,     \* m_send_buf
    writing,  \* its watcher waits for EV_WRITE
    codec,    \* m_http_major, m_http_minor and m_keep_alive of CodecHttp
    handled,  \* messages given to the modules
    owed,     \* places in handled of those without an answer
    down,     \* units under way to the client
    got,      \* buffer of the client
    answers,  \* answers that it has
    parts     \* transfers of less than there was

client == <<todo, sent, got, answers>>
conn == <<open, recv, send, writing, codec>>
vars == <<kind, todo, sent, up, open, recv, send, writing, codec, handled, owed,
          down, got, answers, parts>>

http == kind # "proto"

-----------------------------------------------------------------------------
(* What a request looks like; a request is [url, ver, headers, body, form]. *)

Fields(headers) == FlattenSeq([i \in 1..Len(headers) |->
                       <<T("name", headers[i][1]), T("value", headers[i][2])>>])
Bytes(body) == [i \in 1..Len(body) |-> T("byte", body[i])]
Chunks(body) == FlattenSeq([i \in 1..Len(body) |->
                    <<T("size", 1), T("byte", body[i]), crlf>>])

\* By form: with Content-Length, in chunks, or spoilt.  A request of HTTP/0.9
\* has no version.
HttpUnits(r) ==
    LET line == <<T("method", "POST"), T("url", r.url),
                  IF r.ver = <<0, 9>> THEN crlf ELSE T("version", r.ver)>>
        head == line \o Fields(r.headers)
    IN  CASE r.form = "plain" ->
                head \o Fields(<<<<"Content-Length", Len(r.body)>>>>) \o <<blank>> \o Bytes(r.body)
          [] r.form = "chunked" ->
                head \o Fields(<<<<"Transfer-Encoding", "chunked">>>>) \o <<blank>>
                     \o Chunks(r.body) \o <<T("size", 0), blank>>
          [] r.form = "spoilt" -> line \o <<junk, blank>>

\* A head is PROTO_MSG_HEAD_LEN long and tells the length of the body.
PROTO_MSG_HEAD_LEN == 2
ProtoHead(url, len) == <<T("head", [url |-> url, len |-> len]), T("head end", "")>>
ProtoUnits(r) ==
    IF r.form = "spoilt" THEN <<junk, junk>>
    ELSE ProtoHead(r.url, Len(r.body)) \o Bytes(r.body)

Units(r) == IF http THEN HttpUnits(r) ELSE ProtoUnits(r)

-----------------------------------------------------------------------------
(* Codecs: [ret, buf, msg, codec] *)

Decoded(ret, buf, msg, c) == [ret |-> ret, buf |-> buf, msg |-> msg, codec |-> c]

\* CodecHttp::decode parses all that is readable, from its start.
decode_http(buf, msg, c) ==
    LET Result(p, m) ==
            CASE m.decoding -> Decoded("PAUSE", buf, m, c)
              [] p.err -> Decoded("ERR", buf, m, c)
              [] OTHER -> Decoded("OK", advance_read_index(buf, p.n), m,
                              IF m.type = "request"
                              THEN [ver |-> m.ver, keep |-> IF m.keep >= 0 THEN m.keep ELSE c.keep]
                              ELSE c)
    IN  IF readable_len(buf) = 0 THEN Decoded("PAUSE", buf, msg, c)
        ELSE CHOOSE d \in {Result(p, p.msg) : p \in {http_parser_execute(msg, Content(buf))}} : TRUE

\* CodecProto::decode
decode_proto(buf, msg, c) ==
    LET head == Content(buf)[1]
        all == PROTO_MSG_HEAD_LEN + head.v.len
        body == SubSeq(Content(buf), PROTO_MSG_HEAD_LEN + 1, all)
    IN  CASE readable_len(buf) < PROTO_MSG_HEAD_LEN -> Decoded("PAUSE", buf, msg, c)
          [] head.k # "head" -> Decoded("ERR", buf, msg, c)
          [] readable_len(buf) < all -> Decoded("PAUSE", buf, msg, c)
          [] \E i \in DOMAIN body : body[i].k # "byte" -> Decoded("ERR", buf, msg, c)
          [] OTHER -> Decoded("OK", advance_read_index(buf, all),
                              [NoMsg EXCEPT !.url = head.v.url, !.body = body], c)

decode(buf, msg, c) ==
    IF http THEN decode_http(buf, msg, c) ELSE decode_proto(buf, msg, c)

\* CodecHttp::encode of a response: its lines are printed, its body is written,
\* and a zero, which is taken back but needs room.  m_is_client stays FALSE: an
\* answer follows the decode of its message, so there are no fewer of these.
encode_http(buf, msg, c) ==
    LET line == <<T("version", c.ver), T("status", 200)>>
        headers == <<<<"Allow", "POST,GET">>,
                     <<"Connection", IF c.keep = 0 THEN "close" ELSE "keep-alive">>,
                     <<"Server", "KimHttp">>>>
        length == Fields(<<<<"Content-Length", Len(msg.body)>>>>)
        lines == <<line>> \o [i \in 1..3 |-> Fields(<<headers[i]>>)] \o <<Append(length, blank)>>
        printed[i \in 0..Len(lines)] ==
            IF i = 0 THEN buf
            ELSE CHOOSE b \in {_printf(p, lines[i]) : p \in {printed[i - 1]}} : TRUE
    IN  CHOOSE b \in {ensure_writeable(_write(p, msg.body), 1) : p \in {printed[Len(lines)]}} : TRUE

\* CodecProto::encode
encode_proto(buf, msg) ==
    _write(_write(buf, ProtoHead(msg.url, Len(msg.body))), msg.body)

\* An answer to a message without a version of http is refused.
Encodable(msg) == http => msg.ver[1] # 0

encode(buf, msg, c) == IF http THEN encode_http(buf, msg, c) ELSE encode_proto(buf, msg)

-----------------------------------------------------------------------------
(* Operations of a connection *)

conn_read(buf, s) == Recover(read_fd(buf, s))

\* The loops of process_tcp_msg and process_http_msg: the last result of decode
\* and the messages before.
\* The message of http is not cleared between two calls of fetch_data.
Process(buf, c) ==
    LET First == [d |-> decode(buf, NoMsg, c), out |-> <<>>]
        Fetch(p) == [d |-> decode(p.d.buf, IF http THEN p.d.msg ELSE NoMsg, p.d.codec),
                     out |-> Append(p.out, p.d.msg)]
        after[i \in 0..(readable_len(buf) + 1)] ==
            IF i = 0 THEN First
            ELSE CHOOSE q \in {IF p.d.ret = "OK" THEN Fetch(p) ELSE p : p \in {after[i - 1]}} :
                    TRUE
    IN  after[readable_len(buf) + 1]

\* Part n of s is transferred now: all of it, or one of MaxParts parts.
Transfers(n, s) ==
    \/ n = Len(s) /\ UNCHANGED parts
    \/ n < Len(s) /\ parts < MaxParts /\ parts' = parts + 1

\* Mutant: only a write that would block waits for EV_WRITE.
conn_write_Partly(buf, n) ==
    /\ Transfers(n, Content(buf))
    /\ down' = down \o SubSeq(Content(buf), 1, n)
    /\ send' = IF n = 0 THEN buf ELSE Recover(advance_read_index(buf, n))
    /\ writing' = (n = 0)

\* Mutant: after a part everything is written again.
conn_write_Again(buf, n) ==
    /\ Transfers(n, Content(buf))
    /\ down' = down \o SubSeq(Content(buf), 1, n)
    /\ send' = IF n < readable_len(buf) THEN buf ELSE Recover(advance_read_index(buf, n))
    /\ writing' = (n < readable_len(buf))

\* conn_write and handle_write_events: EAGAIN is n = 0.
conn_write(buf, n) ==
    /\ Transfers(n, Content(buf))
    /\ down' = down \o SubSeq(Content(buf), 1, n)
    /\ send' = IF n = 0 THEN buf ELSE Recover(advance_read_index(buf, n))
    /\ writing' = (n < readable_len(buf))

close_conn ==
    /\ open' = FALSE /\ writing' = FALSE
    /\ recv' = EmptyBuffer /\ send' = EmptyBuffer

-----------------------------------------------------------------------------
Init ==
    /\ kind \in DOMAIN Requests
    /\ todo \in Requests[kind]
    /\ sent = <<>> /\ up = <<>> /\ down = <<>>
    /\ open = TRUE /\ writing = FALSE
    /\ recv = EmptyBuffer /\ send = EmptyBuffer /\ got = EmptyBuffer
    /\ codec = [ver |-> <<1, 1>>, keep |-> -1]
    /\ handled = <<>> /\ owed = {} /\ answers = <<>>
    /\ parts = 0

\* External: a client of http that waits has the answers to all it sent.
ClientSends ==
    /\ open /\ todo # <<>>
    /\ kind = "http" => Len(answers) = Len(sent)
    /\ todo' = Tail(todo)
    /\ sent' = Append(sent, Head(todo))
    /\ up' = up \o Units(Head(todo))
    /\ UNCHANGED <<kind, conn, handled, owed, down, got, answers, parts>>

\* read_query_from_client: part of what is under way arrives.  A module takes
\* the messages it has a handler for, and will answer them.
ServerReads ==
    /\ open /\ up # <<>>
    /\ \E n \in 1..Len(up) :
        /\ Transfers(n, up)
        /\ up' = SubSeq(up, n + 1, Len(up))
        /\ \E b \in {conn_read(recv, SubSeq(up, 1, n))} : \E p \in {Process(b, codec)} :
            /\ handled' = handled \o p.out
            /\ owed' = owed \cup {i \in Len(handled) + 1 .. Len(handled) + Len(p.out) :
                                     handled'[i].url \notin Unhandled}
            /\ codec' = p.d.codec
            /\ IF p.d.ret = "ERR" THEN close_conn
               ELSE recv' = p.d.buf /\ UNCHANGED <<open, send, writing>>
    /\ UNCHANGED <<kind, client, down>>

\* Cmd::response_http and response_tcp: send_to.  Without a connection there
\* is nobody to answer.
Respond(i) ==
    /\ i \in owed
    /\ owed' = owed \ {i}
    /\ \/ /\ ~open
          /\ UNCHANGED <<conn, down, parts>>
       \/ /\ open /\ ~Encodable(handled[i])
          /\ close_conn /\ UNCHANGED <<codec, down, parts>>
       \/ /\ open /\ Encodable(handled[i])
          /\ \E buf \in {encode(send, handled[i], codec)} :
                \E n \in 0..readable_len(buf) : conn_write(buf, n)
          /\ UNCHANGED <<open, recv, codec>>
    /\ UNCHANGED <<kind, client, up, handled>>

\* on_io_write
OnWrite ==
    /\ open /\ writing
    /\ \E n \in 0..readable_len(send) : conn_write(send, n)
    /\ UNCHANGED <<kind, client, up, open, recv, codec, handled, owed>>

\* on_io_timer, or conn_read and conn_write find an error of the socket.
Close ==
    /\ open
    /\ close_conn
    /\ UNCHANGED <<kind, client, up, codec, handled, owed, down, parts>>

\* External: the client decodes what has arrived.
ClientReads ==
    /\ down # <<>>
    /\ \E b \in {conn_read(got, down)} : \E p \in {Process(b, codec)} :
        got' = p.d.buf /\ answers' = answers \o p.out
    /\ down' = <<>>
    /\ UNCHANGED <<kind, todo, sent, up, conn, handled, owed, parts>>

Next ==
    \/ ClientSends \/ ServerReads \/ OnWrite \/ Close \/ ClientReads
    \/ \E i \in owed : Respond(i)

Spec == Init /\ [][Next]_vars

\* libev reports sockets that are ready, and commands answer.
FairSpec ==
    /\ Spec
    /\ WF_vars(ClientSends) /\ WF_vars(ClientReads)
    /\ WF_vars(ServerReads) /\ WF_vars(OnWrite)
    /\ WF_vars(\E i \in owed : Respond(i))

-----------------------------------------------------------------------------
\* The indexes of the buffers are in order and within their memory, however
\* they grow and shrink (ensure_writeable, compact).
TypeOK ==
    /\ \A b \in {recv, send, got} : IsBuffer(b)
    /\ owed \subseteq DOMAIN handled
    /\ parts \in 0..MaxParts

\* Requests before the first that cannot be parsed.
Good == LET bad == SelectInSeq(sent, LAMBDA r : r.form = "spoilt")
        IN  IF bad = 0 THEN sent ELSE SubSeq(sent, 1, bad - 1)

\* What a module sees of a request: framing included in the headers.
HeadersOf(r) ==
    LET framing == IF r.form = "plain" THEN <<"Content-Length", Len(r.body)>>
                                       ELSE <<"Transfer-Encoding", "chunked">>
        all == Append(r.headers, framing)
    IN  [h \in {all[i][1] : i \in DOMAIN all} |->
            all[CHOOSE i \in DOMAIN all : all[i][1] = h][2]]
Same(m, r) ==
    /\ m.url = r.url /\ m.body = Bytes(r.body)
    /\ http => m.ver = r.ver

\* In whatever parts a stream arrives, and however buffers grow and shrink on
\* the way, the modules get the requests that were sent: complete, unmixed, in
\* order and each once (conn_read, fetch_data, decode).  Nothing is handled
\* from the first malformed request on.
\* A client of http that does not wait may lose requests: those in one buffer
\* become one message.  But while the connection is open the last one it sent
\* is handled, and what is handled has the url and the body of one request.
HandledAsSent ==
    /\ TypeOK
    /\ kind # "pipelined" =>
          /\ Len(handled) <= Len(Good)
          /\ open /\ up = <<>> => Len(handled) = Len(Good)
          /\ \A i \in DOMAIN handled :
                /\ Same(handled[i], Good[i])
                /\ http => handled[i].headers = HeadersOf(Good[i])
    /\ kind = "pipelined" /\ Good = sent =>
          /\ \A i \in DOMAIN handled : \E j \in DOMAIN sent : Same(handled[i], sent[j])
          /\ open /\ up = <<>> /\ sent # <<>> =>
                handled # <<>> /\ Same(Last(handled), Last(sent))

\* The client gets the answers that were given, each intact and to a request
\* it sent, and each once, in whatever parts they were written (encode,
\* conn_write); it is not told to go on after it asked to close.
AnswersAsHandled ==
    kind # "pipelined" =>
        \E f \in Injection(DOMAIN answers, DOMAIN handled \ owed) :
            \A i \in DOMAIN answers :
                LET a == answers[i]
                    m == handled[f[i]]
                IN  /\ a.body = m.body
                    /\ IF http
                       THEN /\ a.type = "response" /\ a.status = 200 /\ a.ver = m.ver
                            /\ m.keep = 0 => a.headers["Connection"] = "close"
                       ELSE a.url = m.url

\* Unless the connection closes or a request cannot be parsed, all that the
\* client sent is answered: nothing stays in a buffer.
AnsweredOrClosed ==
    <>[](\/ ~open \/ Good # sent \/ kind = "pipelined"
         \/ \E i \in DOMAIN sent : sent[i].url \in Unhandled
         \/ todo = <<>> /\ Len(answers) = Len(sent))
=============================================================================
