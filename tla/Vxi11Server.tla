----------------------------- MODULE Vxi11Server -----------------------------
(***************************************************************************)
(* The VXI-11 core channel: vxi11_server_task and its calls                *)
(* (App/vxi11/vxi11_server.c), the RPC framing they rest on                *)
(* (App/vxi11/rpc.c), the socket of the W5500 chip, and a client.          *)
(*                                                                         *)
(* A client has one call outstanding; if no answer comes it closes the     *)
(* connection or resets it. TCP may deliver a call in two segments. The    *)
(* server takes what one recv returns for one call. The Ethernet state     *)
(* machine (W5500Net) opens and closes the server.                         *)
(*                                                                         *)
(* Assumed of the client: the requestSize of a device_read is at least as  *)
(* long as any reply (VISA libraries ask for kilobytes). For less the      *)
(* server sends the first requestSize bytes with reason END and forgets    *)
(* the rest (vxi11_server.c:181-186), so the client gets a reply cut       *)
(* short.                                                                  *)
(*                                                                         *)
(* Left out: vxi11.link_active and link_id, which are written and never    *)
(* read, and the portmapper's two sockets, which keep nothing between      *)
(* calls.                                                                  *)
(***************************************************************************)
EXTENDS ScpiCore

CONSTANT Writes   \* the pieces a client may send with device_write

ASSUME WritesAssumption == Writes \subseteq {p \in Pieces : p.from = "vxi"}

\* "link" stands for the calls that are answered and change nothing: create_link,
\* destroy_link, device_readstb, device_trigger and device_clear.
Calls == [proc : {"device_write"}, piece : Writes]
            \cup [proc : {"device_read", "link", "unknown"}]
NoCall == [none |-> TRUE]

VARIABLES
    up,        \* between vxi11_server_init and vxi11_server_close
    sr,        \* the socket's status register
    rx,        \* received and not yet read: nothing, a call, or a part of one
    underway,  \* the second segment of the call is still underway
    call,      \* the call the client waits for
    reading    \* device_read waits for scpi_reply_ready, and with it the main loop

vxiVars == <<up, sr, rx, underway, call, reading>>

VxiTypeOK ==
    /\ up \in BOOLEAN
    /\ sr \in {"CLOSED", "LISTEN", "ESTABLISHED", "CLOSE_WAIT"}
    /\ rx \in {"none", "first", "rest", "whole"}
    /\ underway \in BOOLEAN
    /\ call \in Calls \cup {NoCall}
    /\ reading \in BOOLEAN

VxiInit ==
    /\ up = FALSE
    /\ sr = "CLOSED"
    /\ rx = "none"
    /\ underway = FALSE
    /\ call = NoCall
    /\ reading = FALSE

-----------------------------------------------------------------------------
(* The client and the network.                                             *)

Connect ==
    /\ sr = "LISTEN"
    /\ sr' = "ESTABLISHED"
    /\ UNCHANGED <<up, rx, underway, call, reading, scpiVars>>

\* A call is sent; it arrives as one segment, or the first of two does.
ClientCalls(c) ==
    /\ sr = "ESTABLISHED" /\ call = NoCall /\ rx = "none"
    /\ call' = c
    /\ underway' \in BOOLEAN
    /\ rx' = IF underway' THEN "first" ELSE "whole"
    /\ UNCHANGED <<up, sr, reading, scpiVars>>

SegmentArrives ==
    /\ underway
    /\ underway' = FALSE
    /\ rx' = IF rx = "first" THEN "whole" ELSE "rest"
    /\ UNCHANGED <<up, sr, call, reading, scpiVars>>

\* The client is done, or its patience is: FIN or RST. What it asked is void.
ClientLeaves(status) ==
    /\ sr = "ESTABLISHED"
    /\ sr' = status
    /\ underway' = FALSE
    /\ rx' = IF status = "CLOSED" THEN "none" ELSE rx
    /\ call' = NoCall
    /\ Void("vxi")
    /\ UNCHANGED <<up, reading, parserVars, reply, reply_len>>

-----------------------------------------------------------------------------
(* The server.                                                             *)

\* vxi11_server_init, vxi11_server_close, called from w5500_net_task.
ServerInit ==
    /\ ~up
    /\ up' = TRUE
    /\ sr' = "LISTEN"
    /\ UNCHANGED <<rx, underway, call, reading, scpiVars>>

ServerClose ==
    /\ up
    /\ up' = FALSE
    /\ sr' = "CLOSED"
    /\ rx' = "none"
    /\ underway' = FALSE
    /\ call' = NoCall
    /\ Void("vxi")
    /\ UNCHANGED <<reading, parserVars, reply, reply_len>>

\* rpc_parse_call finds less than the record mark announces, or no record mark.
DropPart ==
    /\ up /\ sr = "ESTABLISHED" /\ rx \in {"first", "rest"}
    /\ rx' = "none"
    /\ UNCHANGED <<up, sr, underway, call, reading, scpiVars>>

Handles(proc) ==
    /\ up /\ sr = "ESTABLISHED" /\ rx = "whole"
    /\ call # NoCall /\ call.proc = proc
    /\ rx' = "none"
    /\ UNCHANGED <<up, sr, underway>>

device_write ==
    /\ Handles("device_write")
    /\ call' = NoCall
    /\ SCPI_Main_Input(call.piece, reply_len)
    /\ UNCHANGED reading

\* device_read with a reply at hand, which goes out whole (see the assumption
\* on requestSize above).
device_read ==
    /\ Handles("device_read")
    /\ reply_ready
    /\ call' = NoCall
    /\ reply_ready' = FALSE
    /\ Void("vxi")
    /\ UNCHANGED <<reading, input, errors, error_active, reply_buf, reply, reply_len>>

\* device_read without one: the call spins until its io_timeout is over, ...
device_read_waits ==
    /\ Handles("device_read")
    /\ ~reply_ready
    /\ reading' = TRUE
    /\ UNCHANGED <<call, scpiVars>>

\* As it would be if nothing were sent when the time is over.
ReadTimeout_bug ==
    /\ reading
    /\ reading' = FALSE
    /\ UNCHANGED <<call, up, sr, rx, underway, scpiVars>>

\* ... and then says so, if the connection still stands.
ReadTimeout ==
    /\ reading
    /\ reading' = FALSE
    /\ call' = IF sr = "ESTABLISHED" THEN NoCall ELSE call
    /\ UNCHANGED <<up, sr, rx, underway, scpiVars>>

\* device_readstb reports scpi_reply_ready; the others do nothing at all.
Acknowledge ==
    /\ Handles("link")
    /\ call' = NoCall
    /\ UNCHANGED <<reading, scpiVars>>

\* The error reply announces 20 bytes and has 24, so that no client can read it.
UnknownProcedure ==
    /\ Handles("unknown")
    /\ UNCHANGED <<call, reading, scpiVars>>

\* As it would be if received data had to be handled first.
Disconnect_bug ==
    /\ up /\ sr = "CLOSE_WAIT" /\ rx = "none"
    /\ sr' = "CLOSED"
    /\ UNCHANGED <<up, rx, underway, call, reading, scpiVars>>

\* disconnect; then the next poll finds the socket closed and listens again.
Disconnect ==
    /\ up /\ sr = "CLOSE_WAIT"
    /\ sr' = "CLOSED"
    /\ rx' = "none"
    /\ UNCHANGED <<up, underway, call, reading, scpiVars>>

ListenAgain ==
    /\ up /\ sr = "CLOSED"
    /\ sr' = "LISTEN"
    /\ UNCHANGED <<up, rx, underway, call, reading, scpiVars>>

vxi11_server_task ==
    \/ DropPart
    \/ device_write \/ device_read \/ device_read_waits \/ Acknowledge \/ UnknownProcedure
    \/ Disconnect \/ ListenAgain

VxiClient ==
    \/ Connect \/ SegmentArrives
    \/ \E c \in Calls : ClientCalls(c)
    \/ \E status \in {"CLOSE_WAIT", "CLOSED"} : ClientLeaves(status)
=============================================================================
