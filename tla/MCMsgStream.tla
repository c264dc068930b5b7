---------------------------- MODULE MCMsgStream ----------------------------
(***************************************************************************)
(* An instance of MsgStream for TLC.                                       *)
(***************************************************************************)
EXTENDS MsgStream

KeepAlive == <<"Connection", "keep-alive">>
CloseIt == <<"Connection", "close">>

R(url, ver, headers, body, form) ==
    [url |-> url, ver |-> ver, headers |-> headers, body |-> body, form |-> form]

Plain == R("/a", <<1, 1>>, <<KeepAlive>>, <<"a1", "a2">>, "plain")
Chunked == R("/b", <<1, 1>>, <<>>, <<"b1", "b2">>, "chunked")
Closing == R("/c", <<1, 0>>, <<CloseIt>>, <<>>, "plain")
Upgrading == R("/u", <<1, 1>>, <<<<"Upgrade", "h2c">>, <<"Connection", "upgrade">>>>, <<"u1">>, "plain")
Old == R("/o", <<0, 9>>, <<>>, <<"o1">>, "plain")
Spoilt == R("/a", <<1, 1>>, <<>>, <<>>, "spoilt")
Unknown == R("/none", <<1, 1>>, <<>>, <<"n">>, "plain")
Long == R("/l", <<1, 1>>, <<>>, <<"l1", "l2", "l3", "l4", "l5">>, "plain")

TheRequests ==
    [k \in {"http", "pipelined", "proto"} |->
        CASE k = "http" -> {<<Upgrading, Chunked>>, <<Chunked, Closing>>, <<Plain, Spoilt>>, <<Old, Plain>>}
          [] k = "pipelined" -> {<<Chunked, Plain>>}
          [] k = "proto" -> {<<Plain, Long, Closing>>, <<Long, Unknown, Spoilt>>}]
=============================================================================
