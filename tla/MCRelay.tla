------------------------------ MODULE MCRelay ------------------------------
(***************************************************************************)
(* Relay for TLC: two byte streams, or a byte stream and a WebSocket.  The  *)
(* two sides are alike to the task, so one of them is hostile.              *)
(***************************************************************************)
EXTENDS Relay

Setting(in, out, hostile) ==
    [kind |-> [s \in Side |-> IF s = "in" THEN in ELSE out], hostile |-> hostile]

MCSettings == {Setting("stream", "stream", {"out"}), Setting("stream", "websocket", {"out"})}
MCWebSocket == {Setting("stream", "websocket", {})}
============================================================================
