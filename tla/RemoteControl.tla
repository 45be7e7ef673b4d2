---------------------------- MODULE RemoteControl ----------------------------
(***************************************************************************)
(* USB-TMC and VXI-11 together: one main loop (main.c) that serves both    *)
(* and is held up while device_read waits, and one SCPI stack that both    *)
(* feed.                                                                   *)
(***************************************************************************)
EXTENDS UsbTmc, Vxi11Server

vars == <<usbVars, vxiVars, scpiVars>>

Init == UsbInit /\ VxiInit /\ ScpiInit

\* tud_task and usbtmc_app_task_iter; hardware and host go on while the loop is
\* held up, but what they do is only handled afterwards.
UsbTask == ~reading /\ UsbStep /\ UNCHANGED vxiVars

\* w5500_net_task.
NetTask == ~reading /\ (vxi11_server_task \/ ServerInit \/ ServerClose) /\ UNCHANGED usbVars

\* What happens whether or not the loop is held up.
Outside ==
    /\ VxiClient \/ ReadTimeout
    /\ UNCHANGED usbVars

Next == UsbTask \/ NetTask \/ Outside

\* Every iteration of the loop calls both tasks, and device_read ends: so no step
\* of theirs that is possible again and again is left out for ever. Time passes,
\* a host that has asked for data takes it, and a segment that is underway arrives.
Fairness ==
    /\ SF_vars(~reading /\ usbtmc_app_task_iter /\ UNCHANGED vxiVars)
    /\ SF_vars(~reading /\ vxi11_server_task /\ UNCHANGED usbVars)
    /\ SF_vars(~reading /\ (TransferComplete \/ TransferContinues \/ TransferAborted)
                        /\ UNCHANGED vxiVars)
    /\ WF_vars(ReadTimeout /\ UNCHANGED usbVars)
    /\ WF_vars(SegmentArrives /\ UNCHANGED usbVars)

Spec == Init /\ [][Next]_vars /\ Fairness

TypeOK == ScpiTypeOK /\ UsbTypeOK /\ VxiTypeOK

-----------------------------------------------------------------------------
(* Safety.                                                                 *)

\* Driver state and endpoints agree, so that the driver never waits for an event
\* that cannot come: a packet is expected exactly in the states that handle one, a
\* transfer to the host is in progress exactly in the states that handle its end,
\* and a driver that takes no commands has halted the endpoint, which tells the host.
EndpointsMatchState ==
    /\ out = "armed" => st \in {"IDLE", "RCV"}
    /\ st = "RCV" => out # "idle"
    /\ st \in {"NAK", "CLEARING", "ABORTING_BULK_OUT"} => out = "stalled"
    /\ in = "busy" => st \in {"TX_INITIATED", "TX_SHORTED", "ABORTING_BULK_IN_SHORTED", "CLEARING"}
    /\ st \in {"TX_INITIATED", "TX_SHORTED", "ABORTING_BULK_IN_SHORTED"} => in = "busy"
    /\ st = "TX_REQUESTED" /\ queryState # 0 /\ buffer_tx_ix = 0 => bulkInStarted

\* A transfer to the host is on its way.
Sending == st \in {"TX_INITIATED", "TX_SHORTED"}

\* The reply to the query a USB host sent last waits for it or is on its way, whole
\* and with nothing else in it, through delays, aborted reads, partial lines and errors
\* of either side, as long as VXI-11 has made the instrument reply to nothing since. If
\* it has, a reply that waits is still whole and comes first; of one on its way nothing
\* is said here.
UsbOwnReply ==
    asked["usb"] # "none" /\ buffer_tx_ix = 0 =>
        LET own == Text(asked["usb"])
        IN  IF Sending
            THEN mixed \/ /\ got = SubSeq(own, 1, Len(got))
                          /\ st = "TX_SHORTED" => Len(got) = Len(own)
            ELSE /\ queryState # 0 /\ reply_len >= Len(own)
                 /\ \A i \in 1..Len(own) : reply[i] = own[i]
                 /\ mixed \/ reply_len = Len(own)

\* What the USB host has coming and how much of it was sent, in terms of ReplyChannel:
\* the units that were sent, and those of reply[] that the driver or the application is
\* going to send. An index that a sent-back command has left behind gives the reply away.
Owed  == IF buffer_tx_ix = 0 THEN asked["usb"] ELSE "none"
Sent  == IF Owed # "none" /\ Sending THEN Len(got) ELSE 0
Due   == IF Owed = "none" THEN 0 ELSE IF Sending THEN Len(got) + remaining ELSE reply_len
Comes == [i \in 1..Due |-> IF i <= Sent THEN got[i] ELSE reply[i]]
Ended == Owed # "none" /\ st = "TX_SHORTED"
Mixed == Owed # "none" /\ mixed

Channel == INSTANCE ReplyChannel WITH
    Query  <- Queries,
    Answer <- [q \in Queries |-> Text(q)],
    owed   <- Owed,
    text   <- Comes,
    sent   <- Sent,
    ended  <- Ended,
    mixed  <- Mixed

\* The USB side implements ReplyChannel: a reply is sent unit by unit and once, the
\* transfer ends with its last unit, and nothing but a reply to VXI-11 ever changes it,
\* whatever the host aborts. SCPI_Write does give every reply to setReply
\* (scpi_def.c:209): one to VXI-11 is added to a reply that waits for the USB host, and
\* overwrites the part of it that is not yet sent once its transfer has begun, for
\* reply_len is 0 by then. The host then gets a complete transfer with a strange end:
\* but never what was sent before twice, never more or less than was begun, and never
\* the other's reply in the place of its own while its own waits.
ImplementsChannel == Channel!Spec

\* A VXI-11 client that reads after its query gets the reply to this query, unless
\* USB has sent something in between (vxi11_server.c:153-186).
VxiOwnReply ==
    asked["vxi"] # "none" => reply_ready /\ reply_buf = Text(asked["vxi"])

\* MAV is set before the instrument is ready to answer a read.
MavBeforeReply == queryState \in {3, 4} => mav

\* A read request never meets an earlier one: TU_ASSERT(bulkInStarted == 0) in
\* tud_usbtmc_msgBulkIn_request_cb holds, whatever was aborted, cleared, halted or
\* sent back before.
NoOverlappingReads == st \in {"IDLE", "RCV", "NAK"} => ~bulkInStarted

\* The inductive strengthening of it: a request lasts until its transfer ends.
ReadInv ==
    bulkInStarted =>
        /\ st \in {"CLOSED", "TX_REQUESTED", "TX_INITIATED", "TX_SHORTED"}
        /\ st \in {"TX_INITIATED", "TX_SHORTED"} => buffer_tx_ix = buffer_len

\* usbtmc_app_task_iter forgets a reply and the read request it answers without
\* looking at the result of tud_usbtmc_transmit_dev_msg_data: but on an open device
\* the driver never refuses, and takes the whole reply, whatever VXI-11 has added to
\* it and whatever the host aborted, cleared or halted before.
ReplyForgottenWhenTaken ==
    [][reply_len > 0 /\ reply_len' = 0 /\ bulkInStarted /\ ~bulkInStarted' /\ st # "CLOSED"
          => st' \in {"TX_INITIATED", "TX_SHORTED"} /\ remaining' = reply_len - 1]_vars

\* The inductive strengthening of TypeOK: a transfer of a reply stays within it.
PositionInv ==
    st = "TX_INITIATED" =>
        /\ remaining > 0
        /\ dev_in.from = "reply" => dev_in.pos > 0 /\ dev_in.pos + remaining <= ReplySize + 1

\* The inductive strengthening of UsbOwnReply: a reset or cleared device owes
\* nothing, a read request that waits for a reply is one the driver knows, and how far
\* the transfer of the reply has come.
NothingOwed == st \in {"CLOSED", "CLEARING"} => asked["usb"] = "none"

RequestKnown ==
    bulkInStarted /\ buffer_tx_ix = 0 =>
        st = "CLOSED" \/ (st = "TX_REQUESTED" /\ remaining = Request)

ReplyKept(own) ==
    /\ st = "TX_INITIATED" =>
          /\ queryState = 0
          /\ dev_in = [from |-> "reply", pos |-> Len(got) + 1]
    /\ st = "TX_SHORTED" => queryState = 0 /\ remaining = 0
    /\ Sending => Len(got) > 0
    /\ Sending /\ ~mixed =>
          /\ \A i \in 1..Len(own) : reply[i] = own[i]
          /\ remaining = Len(own) - Len(got)
          /\ got = SubSeq(own, 1, Len(got))
    /\ ~Sending =>
          /\ queryState # 0 /\ reply_len >= Len(own)
          /\ \A i \in 1..Len(own) : reply[i] = own[i]
          /\ ~mixed => reply_len = Len(own)

OwnReplyInv ==
    /\ NothingOwed
    /\ RequestKnown
    /\ asked["usb"] # "none" /\ buffer_tx_ix = 0 => ReplyKept(Text(asked["usb"]))

-----------------------------------------------------------------------------
(* Liveness.                                                               *)

\* A host that asks for data after a message that was taken gets a transfer,
\* whatever VXI-11 clients do meanwhile. (Without the last two conditions it fails:
\* the index that an aborted read leaves behind, and a buffer that a refused message
\* has emptied, make the driver refuse to send, and the request is never answered.)
QueryServed ==
    (st = "TX_REQUESTED" /\ queryState # 0 /\ buffer_tx_ix = 0 /\ reply_len + buffer_len > 0)
        ~> st # "TX_REQUESTED"

\* A call that arrives in one piece is answered, or its connection ends.
CallAnswered ==
    (call # NoCall /\ call.proc # "unknown" /\ rx = "whole") ~> call = NoCall

\* While the network is up the server listens again after any end of a connection.
ListensAgain == up /\ sr \in {"CLOSE_WAIT", "CLOSED"} ~> sr = "LISTEN" \/ ~up
=============================================================================
