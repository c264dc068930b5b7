------------------------------ MODULE NodeConn ------------------------------
(***************************************************************************)
(* Connections between workers of different nodes (send_to_node and        *)
(* auto_send of network.cpp, the handshake of sys_cmd.cpp and the send     *)
(* buffers of connection.cpp).  A worker A1 connects to the manager B0 of  *)
(* the other node, asks it to pass the connection on to a worker B1, tells *)
(* B1 who it is, and keeps its messages in a waiting buffer until B1 has   *)
(* answered.                                                               *)
(*                                                                         *)
(* Every node has one worker here, and a worker sends to other nodes only. *)
(* A connection is one record for both of its ends; the other end's own    *)
(* buffers are left out, since the first answers fit into a new socket.    *)
(***************************************************************************)
EXTENDS Integers, Sequences, SequencesExt

CONSTANTS
    Workers,   \* the workers, each with its manager
    Conns,     \* bound: identities of connections
    MaxMsgs,   \* bound: messages that are sent
    Room,      \* messages that a socket takes
    None       \* no worker, no connection

ASSUME ConstantsAssumption ==
    MaxMsgs \in Nat /\ Room \in Nat \ {0} /\ None \notin Workers \cup Conns

VARIABLES
    conns,          \* the connections
    m_node_conns,   \* of each worker: connections by node id
    managers,       \* workers whose manager runs
    sent,           \* messages sent so far
    given,          \* history: messages that a connection took
    got             \* history: messages that B1 read from a connection

vars == <<conns, m_node_conns, managers, sent, given, got>>

\* The requests of the handshake, told from messages by their numbers.
CONNECT == 0
TELL == -1
Handshake == {CONNECT, TELL}
Msgs == 1..MaxMsgs
States == {"UNKOWN", "TRY_CONNECT", "CONNECTING", "CONNECTED", "CLOSED"}

\* state, wait, send and write (the event) are A1's; up and down are on the
\* way; at is who has the other end: B0, the channel, B1 or nobody.
Conn == [from : Workers \cup {None}, to : Workers \cup {None}, state : States,
         wait : Seq(Msgs), send : Seq(Msgs \cup Handshake), write : BOOLEAN,
         up : Seq(Msgs \cup Handshake), down : Seq({"CONNECT_OK", "CONNECT_ERR", "TELL_OK"}),
         at : {"manager", "chanel", "worker", "gone"}]

IsOpen(k) == k.state \in {"TRY_CONNECT", "CONNECTING", "CONNECTED"}

-----------------------------------------------------------------------------
(* Writing: the results of a call, which depend on what the socket takes *)

\* Mutant: the waiting buffer goes last.
sbuf_Last(k) == IF k.state = "CONNECTED" /\ k.send = <<>> THEN "wait" ELSE "send"

\* The buffer that conn_write sends from.
sbuf(k) == IF k.state = "CONNECTED" /\ k.wait # <<>> THEN "wait" ELSE "send"

\* conn_write, and then the write event: wanted if that buffer has more.
handle_write_events(k) ==
    LET s == IF sbuf(k) = "wait" THEN k.wait ELSE k.send
        Wrote(n) == [k EXCEPT !.up = @ \o SubSeq(s, 1, n), !.write = n < Len(s)]
        Left(n) == SubSeq(s, n + 1, Len(s))
    IN  {IF sbuf(k) = "wait" THEN [Wrote(n) EXCEPT !.wait = Left(n)]
                             ELSE [Wrote(n) EXCEPT !.send = Left(n)] :
            n \in {n \in 0..Len(s) : Len(k.up) + n <= Room \/ n = 0}}

send_to(k, m) == handle_write_events([k EXCEPT !.send = Append(@, m)])

Becomes(c, K) == \E k \in K : conns' = [conns EXCEPT ![c] = k]

\* Mutant: the entry by node id stays.
CloseConn_KeepsEntry(c) ==
    /\ conns' = [conns EXCEPT ![c].state = "CLOSED", ![c].write = FALSE]
    /\ UNCHANGED m_node_conns

\* close_conn in A1.
CloseConn(c) ==
    /\ conns' = [conns EXCEPT ![c].state = "CLOSED", ![c].write = FALSE]
    /\ m_node_conns' = [m_node_conns EXCEPT ![conns[c].from][conns[c].to] = None]

-----------------------------------------------------------------------------
(* A1 *)

\* send_to_node gives its next message to the connection c.
Gives(c) ==
    /\ sent < MaxMsgs
    /\ sent' = sent + 1
    /\ given' = [given EXCEPT ![c] = Append(@, sent + 1)]
    /\ UNCHANGED <<managers, got>>

\* auto_send; without the manager it fails and nothing changes.
AutoSend(w, n, c) ==
    /\ m_node_conns[w][n] = None /\ n \in managers
    /\ conns[c].state = "UNKOWN"
    /\ Gives(c)
    /\ conns' = [conns EXCEPT ![c] =
                    [from |-> w, to |-> n, state |-> "TRY_CONNECT", wait |-> <<sent + 1>>,
                     send |-> <<>>, write |-> TRUE, up |-> <<>>, down |-> <<>>, at |-> "manager"]]
    /\ m_node_conns' = [m_node_conns EXCEPT ![w][n] = c]

SendConnected(w, n) ==
    LET c == m_node_conns[w][n]
    IN  /\ c # None /\ conns[c].state = "CONNECTED"
        /\ Gives(c)
        /\ Becomes(c, send_to(conns[c], sent + 1))
        /\ UNCHANGED m_node_conns

SendWaiting(w, n) ==
    LET c == m_node_conns[w][n]
    IN  /\ c # None /\ conns[c].state \in {"TRY_CONNECT", "CONNECTING"}
        /\ Gives(c)
        /\ conns' = [conns EXCEPT ![c].wait = Append(@, sent + 1)]
        /\ UNCHANGED m_node_conns

SendToNode(w) ==
    \E n \in Workers \ {w} :
        SendConnected(w, n) \/ SendWaiting(w, n) \/ \E c \in Conns : AutoSend(w, n, c)

\* send_req_connect_to_worker.
OnIoWriteTry(c) ==
    /\ conns[c].state = "TRY_CONNECT" /\ conns[c].write
    /\ Becomes(c, {[k EXCEPT !.state = "CONNECTING"] : k \in send_to(conns[c], CONNECT)})
    /\ UNCHANGED <<m_node_conns, managers, sent, given, got>>

OnIoWrite(c) ==
    /\ conns[c].state \in {"CONNECTING", "CONNECTED"} /\ conns[c].write
    /\ Becomes(c, handle_write_events(conns[c]))
    /\ UNCHANGED <<m_node_conns, managers, sent, given, got>>

\* A1 reads an answer.
Reads(c, rsp) == IsOpen(conns[c]) /\ conns[c].down # <<>> /\ Head(conns[c].down) = rsp

OnRspConnect(c) ==
    /\ Reads(c, "CONNECT_OK")
    /\ Becomes(c, send_to([conns[c] EXCEPT !.down = Tail(@)], TELL))
    /\ UNCHANGED <<m_node_conns, managers, sent, given, got>>

\* check_rsp fails: the connection stays as it is.
OnRspConnectErr(c) ==
    /\ Reads(c, "CONNECT_ERR")
    /\ conns' = [conns EXCEPT ![c].down = Tail(@)]
    /\ UNCHANGED <<m_node_conns, managers, sent, given, got>>

\* Mutant: it does not ask to write the waiting buffer.
OnRspTell_NoEvent(c) ==
    /\ Reads(c, "TELL_OK")
    /\ conns' = [conns EXCEPT ![c].down = Tail(@), ![c].state = "CONNECTED"]
    /\ m_node_conns' = [m_node_conns EXCEPT ![conns[c].from][conns[c].to] = c]
    /\ UNCHANGED <<managers, sent, given, got>>

\* Connected; process_tcp_msg then asks to write the waiting buffer.
OnRspTell(c) ==
    /\ Reads(c, "TELL_OK")
    /\ conns' = [conns EXCEPT ![c].down = Tail(@), ![c].state = "CONNECTED", ![c].write = TRUE]
    /\ m_node_conns' = [m_node_conns EXCEPT ![conns[c].from][conns[c].to] = c]
    /\ UNCHANGED <<managers, sent, given, got>>

\* An error, the other end is closed, or the node has left the table.
OnError(c) ==
    /\ IsOpen(conns[c])
    /\ CloseConn(c)
    /\ UNCHANGED <<managers, sent, given, got>>

\* Mutant: only a connection that was made is given up.
OnIoTimer_Connected(c) ==
    /\ conns[c].state = "CONNECTED" /\ ~conns[c].write /\ conns[c].down = <<>>
    /\ CloseConn(c)
    /\ UNCHANGED <<managers, sent, given, got>>

\* Nothing was read or written for the time that a connection is kept.
OnIoTimer(c) ==
    /\ IsOpen(conns[c]) /\ ~conns[c].write /\ conns[c].down = <<>>
    /\ CloseConn(c)
    /\ UNCHANGED <<managers, sent, given, got>>

-----------------------------------------------------------------------------
(* B0 and B1 *)

\* at reads the message m.
Takes(c, at, m) == conns[c].at = at /\ conns[c].up # <<>> /\ Head(conns[c].up) = m

\* It sends the answer rsp, and at has the connection then.
Answered(c, rsp, at) ==
    conns' = [conns EXCEPT ![c].up = Tail(@), ![c].down = Append(@, rsp), ![c].at = at]

\* on_req_connect_to_worker: no such worker.
OnReqConnectRefused(c) ==
    /\ Takes(c, "manager", CONNECT)
    /\ Answered(c, "CONNECT_ERR", "manager")
    /\ UNCHANGED <<m_node_conns, managers, sent, given, got>>

\* The answer is sent before the transfer, which may fail.
OnReqConnect(c) ==
    /\ Takes(c, "manager", CONNECT)
    /\ \E at \in {"chanel", "manager"} : Answered(c, "CONNECT_OK", at)
    /\ UNCHANGED <<m_node_conns, managers, sent, given, got>>

\* A manager has no modules to look for a handler in, and ends.
OnUnknown(c) ==
    /\ Takes(c, "manager", TELL)
    /\ managers' = managers \ {conns[c].to}
    /\ conns' = [d \in Conns |-> IF conns[d].at = "manager" /\ conns[d].to = conns[c].to
                                 THEN [conns[d] EXCEPT !.at = "gone"] ELSE conns[d]]
    /\ UNCHANGED <<m_node_conns, sent, given, got>>

ReadTransferFd(c) ==
    /\ conns[c].at = "chanel"
    /\ conns' = [conns EXCEPT ![c].at = "worker"]
    /\ UNCHANGED <<m_node_conns, managers, sent, given, got>>

\* on_req_tell_worker; the connection is entered under B1's own id.
OnReqTell(c) ==
    /\ Takes(c, "worker", TELL)
    /\ Answered(c, "TELL_OK", "worker")
    /\ m_node_conns' = [m_node_conns EXCEPT ![conns[c].to][conns[c].to] = c]
    /\ UNCHANGED <<managers, sent, given, got>>

OnMessage(c) ==
    /\ conns[c].at = "worker" /\ conns[c].up # <<>> /\ Head(conns[c].up) \in Msgs
    /\ conns' = [conns EXCEPT ![c].up = Tail(@)]
    /\ got' = [got EXCEPT ![c] = Append(@, Head(conns[c].up))]
    /\ UNCHANGED <<m_node_conns, managers, sent, given>>

\* The other end is closed: by its timer, an error or the end of a process.
PeerCloses(c) ==
    /\ conns[c].state # "UNKOWN" /\ conns[c].at # "gone"
    /\ conns' = [conns EXCEPT ![c].at = "gone"]
    /\ UNCHANGED <<m_node_conns, managers, sent, given, got>>

-----------------------------------------------------------------------------
Init ==
    /\ conns = [c \in Conns |-> [from |-> None, to |-> None, state |-> "UNKOWN",
                                 wait |-> <<>>, send |-> <<>>, write |-> FALSE,
                                 up |-> <<>>, down |-> <<>>, at |-> "gone"]]
    /\ m_node_conns = [w \in Workers |-> [n \in Workers |-> None]]
    /\ managers = Workers
    /\ sent = 0
    /\ given = [c \in Conns |-> <<>>]
    /\ got = [c \in Conns |-> <<>>]

Client(c) ==
    OnIoWriteTry(c) \/ OnIoWrite(c) \/ OnRspConnect(c) \/ OnRspConnectErr(c) \/ OnRspTell(c)

Next ==
    \/ \E w \in Workers : SendToNode(w)
    \/ \E c \in Conns : Client(c) \/ OnError(c) \/ OnIoTimer(c) \/ OnReqConnectRefused(c)
                        \/ OnReqConnect(c) \/ OnUnknown(c) \/ ReadTransferFd(c)
                        \/ OnReqTell(c) \/ OnMessage(c) \/ PeerCloses(c)

Spec == Init /\ [][Next]_vars

\* Only A1 is fair: it handles its events and its timer.
FairSpec == Spec /\ \A c \in Conns : WF_vars(Client(c)) /\ WF_vars(OnIoTimer(c))

-----------------------------------------------------------------------------
(* Properties *)

\* The messages in s, which has messages or requests of the handshake.
Payload(s) == IF Range(s) \subseteq Msgs THEN s ELSE <<>>

\* What is on the way from A1 to B1, nearest to B1 first.
Underway(k) == Payload(k.up) \o k.wait \o Payload(k.send)

\* Every variable has its type.
TypeOK ==
    /\ conns \in [Conns -> Conn]
    /\ m_node_conns \in [Workers -> [Workers -> Conns \cup {None}]]
    /\ managers \subseteq Workers /\ sent \in 0..MaxMsgs
    /\ given \in [Conns -> Seq(Msgs)] /\ got \in [Conns -> Seq(Msgs)]

\* B1 reads the messages of a connection in the order in which send_to_node
\* took them, through two buffers and partial writes, and none is lost while
\* the other end is there.  The waiting buffer does its work: messages and the
\* handshake never mix, and a message is on the way only after B1 has taken the
\* connection over, so no manager reads one (conn_write, on_rsp_tell_worker).
InOrder ==
    \A c \in Conns :
        /\ \A s \in {conns[c].up, conns[c].send} :
              Range(s) \subseteq Msgs \/ Range(s) \subseteq Handshake
        /\ conns[c].at \in {"manager", "chanel"} => Range(conns[c].up) \subseteq Handshake
        /\ IsPrefix(got[c], given[c])
        /\ conns[c].at # "gone" => given[c] = got[c] \o Underway(conns[c])

\* What A1 must write next waits for a write event: the handshake until it is
\* connected, then the waiting buffer (handle_write_events, process_tcp_msg).
WaitingIsWatched ==
    \A c \in Conns :
        LET k == conns[c]
        IN  IsOpen(k) /\ ~k.write =>
                k.state # "TRY_CONNECT" /\ (IF k.state = "CONNECTED" THEN k.wait ELSE k.send) = <<>>

\* A worker has one open connection to another node at most, finds it under
\* the node's id, and finds nothing else there (close_conn, auto_send).
NodeConnsRight ==
    /\ TypeOK
    /\ \A w \in Workers : \A n \in Workers \ {w} :
          {c \in Conns : IsOpen(conns[c]) /\ conns[c].from = w /\ conns[c].to = n}
              = {m_node_conns[w][n]} \ {None}

\* A handshake ends with a connection or with its end, whatever the other node
\* does: messages are not kept for ever (on_io_timer).
HandshakeEnds ==
    \A c \in Conns : conns[c].state = "TRY_CONNECT" ~> conns[c].state \in {"CONNECTED", "CLOSED"}
=============================================================================
