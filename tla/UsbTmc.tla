------------------------------- MODULE UsbTmc -------------------------------
(***************************************************************************)
(* The USB-TMC side: TinyUSB's class driver                                *)
(* (App/tinyusb/src/class/usbtmc/usbtmc_device.c) with the endpoint state  *)
(* it keeps in usbd.c, the application callbacks and                       *)
(* usbtmc_app_task_iter (App/usbtmc_app.c), and a host that keeps to the   *)
(* USB-TMC protocol: it may abort, clear or reset at any time, but sends   *)
(* the packets of a message in order and acknowledges a halted endpoint.   *)
(*                                                                         *)
(* An interrupt only queues an event, and tud_task handles one completely  *)
(* before the next, so an event with its callbacks is one step; the steps  *)
(* of the application's own state machine come in between.                 *)
(*                                                                         *)
(* Lengths are counted in packets, the short or empty packet that ends a   *)
(* transfer included. The host asks for at least as much as any reply or   *)
(* message holds (Request), as VISA libraries do. The delays of 125 ms     *)
(* before a reply may be over at any iteration.                            *)
(***************************************************************************)
EXTENDS ScpiCore

CONSTANTS
    BufferSize,   \* buffer[] of usbtmc_app.c, in packets
    Request,      \* packets the host asks for in a read request
    Messages      \* the messages a host may send, see MessageAssumption

\* A message is a piece of a command line in `len` packets.
ASSUME MessageAssumption ==
    /\ BufferSize \in Nat \ {0}
    /\ Messages \subseteq [piece : {p \in Pieces : p.from = "usb"}, len : Nat \ {0}]
    /\ Request \in Nat /\ Request >= BufferSize /\ Request >= ReplySize

NoMessage == [none |-> TRUE]

DriverStates ==
    {"CLOSED", "NAK", "IDLE", "RCV", "TX_REQUESTED", "TX_INITIATED", "TX_SHORTED",
     "CLEARING", "ABORTING_BULK_IN_SHORTED", "ABORTING_BULK_IN_ABORTED",
     "ABORTING_BULK_OUT"}

VARIABLES
    \* usbtmc_device.c and the endpoints
    st,             \* usbtmc_state.state
    out,            \* bulk-out: "idle" (answers NAK), "armed" or "stalled"
    in,             \* bulk-in: "idle" or "busy" (a packet waits for the host)
    remaining,      \* transfer_size_remaining
    dev_in,         \* devInBuffer: [from, pos], the next unit to send
    \* usbtmc_app.c
    queryState, bulkInStarted, buffer_len, buffer_tx_ix, mav,
    \* the host
    sending,        \* the message it has sent part of: [msg, left]
    got             \* history: the units of the latest transfer to the host

driverVars == <<st, out, in, remaining, dev_in>>
appVars    == <<queryState, bulkInStarted, buffer_len, buffer_tx_ix, mav>>
hostVars   == <<sending, got>>
usbVars    == <<driverVars, appVars, hostVars>>

UsbTypeOK ==
    /\ st \in DriverStates
    /\ out \in {"idle", "armed", "stalled"}
    /\ in \in {"idle", "busy"}
    /\ remaining \in Nat
    /\ dev_in \in [from : {"reply", "buffer"}, pos : Nat]
    /\ queryState \in 0..4
    /\ bulkInStarted \in BOOLEAN
    /\ buffer_len \in 0..BufferSize - 1
    /\ buffer_tx_ix \in 0..BufferSize
    /\ mav \in BOOLEAN
    /\ sending \in [msg : Messages, left : Nat \ {0}] \cup {NoMessage}
    /\ got \in Seq(Units \cup {"echo"})

UsbInit ==
    /\ st = "CLOSED"
    /\ out = "idle"
    /\ in = "idle"
    /\ remaining = 0
    /\ dev_in = [from |-> "reply", pos |-> 0]
    /\ queryState = 0
    /\ bulkInStarted = FALSE
    /\ buffer_len = 0
    /\ buffer_tx_ix = 0
    /\ mav = FALSE
    /\ sending = NoMessage
    /\ got = <<>>

-----------------------------------------------------------------------------
\* As it would be if only an aborted read led back to idle.
StartBusRead_bug(s) ==
    LET receives == s \in {"NAK", "RCV", "ABORTING_BULK_IN_ABORTED"}
    IN  /\ st' = IF s = "ABORTING_BULK_IN_ABORTED" THEN "IDLE" ELSE s
        /\ out' = IF receives THEN "armed" ELSE "idle"

\* tud_usbtmc_start_bus_read called in state s: the next state and endpoint.
\* Arming an endpoint that is armed or stalled fails (usbd_edpt_xfer).
StartBusRead(s) ==
    LET receives == s \in {"NAK", "RCV", "ABORTING_BULK_IN_ABORTED"}
    IN  /\ st' = IF s \in {"NAK", "ABORTING_BULK_IN_ABORTED"} THEN "IDLE" ELSE s
        /\ out' = IF receives THEN "armed" ELSE "idle"

\* The unit at position i of the buffer from which a transfer is sent.
UnitAt(from, i) == IF from = "reply" THEN reply[i] ELSE "echo"

\* As it would be if a packet that is full (packetLen = txBufLen) were taken for the last.
Transmit_bug(from, i, len) ==
    IF st = "TX_REQUESTED" /\ len > 0 /\ len <= remaining
    THEN /\ st' = "TX_SHORTED"
         /\ in' = "busy"
         /\ remaining' = len - 1
         /\ dev_in' = [from |-> from, pos |-> i + 1]
         /\ got' = <<UnitAt(from, i)>>
    ELSE UNCHANGED <<st, in, remaining, dev_in, got>>

\* tud_usbtmc_transmit_dev_msg_data: sends `len` units from position i, the
\* first at once; refused without a read request or without data.
Transmit(from, i, len) ==
    IF st = "TX_REQUESTED" /\ len > 0 /\ len <= remaining
    THEN /\ st' = IF len = 1 THEN "TX_SHORTED" ELSE "TX_INITIATED"
         /\ in' = "busy"
         /\ remaining' = len - 1
         /\ dev_in' = [from |-> from, pos |-> i + 1]
         /\ got' = <<UnitAt(from, i)>>
    ELSE UNCHANGED <<st, in, remaining, dev_in, got>>

-----------------------------------------------------------------------------
(* The USB connection.                                                     *)

\* A bus reset: usbtmcd_reset_cb, and usbd forgets its endpoints; the variables of
\* the application stay. Also the loss of VUSB (main.c, tud_disconnect): the driver
\* is not told, but nothing looks at its state before the reset that follows the
\* next tud_connect.
BusReset ==
    /\ st # "CLOSED"
    /\ st' = "CLOSED"
    /\ out' = "idle"
    /\ in' = "idle"
    /\ remaining' = 0
    /\ dev_in' = [from |-> "reply", pos |-> 0]
    /\ sending' = NoMessage
    /\ got' = <<>>
    /\ Void("usb")
    /\ UNCHANGED <<appVars, parserVars, reply, reply_len>>

\* SET_CONFIGURATION: usbtmcd_open_cb, tud_usbtmc_open_cb.
Open ==
    /\ st = "CLOSED"
    /\ StartBusRead("NAK")
    /\ queryState' = 0
    /\ bulkInStarted' = FALSE
    /\ reply_len' = 0
    /\ buffer_len' = 0
    /\ buffer_tx_ix' = 0
    /\ mav' = FALSE
    /\ Void("usb")
    /\ UNCHANGED <<in, remaining, dev_in, hostVars, parserVars, reply>>

-----------------------------------------------------------------------------
(* Bulk-out: messages, read requests and triggers.                         *)

\* A packet of message m, with `left` packets to go, reaches the device. `first`:
\* the driver waits for a header (handle_devMsgOutStart); otherwise it takes the
\* packet for data (handle_devMsgOut), and if that was a header, for junk. Only the
\* last chunk of a message goes to the parser (tud_usbtmc_msg_data_cb).
Chunk(m, left) ==
    IF st = "RCV" /\ left = m.len THEN [m.piece EXCEPT !.part = "junk"]
    ELSE IF m.len = 1 THEN m.piece ELSE [m.piece EXCEPT !.part = "tail"]

Expected(m)    == IF st = "IDLE" THEN m.len ELSE remaining
Filled         == IF st = "IDLE" THEN 0 ELSE buffer_len
AtEnd(m, left) == Expected(m) <= 1 \/ left = 1
TooLong(m)     == st = "IDLE" /\ m.len > BufferSize   \* tud_usbtmc_msgBulkOut_start_cb
NoRoom         == Filled + 1 >= BufferSize            \* tud_usbtmc_msg_data_cb

\* As it would be if the reply length were not reset.
ReplyLenAtData_bug == reply_len

\* What tud_usbtmc_msg_data_cb sets reply_len to before the parser runs.
ReplyLenAtData == 0

\* The chunk is taken: the reply of the previous query is forgotten, and at the end
\* of the message the parser runs and the delay before the answer begins.
Take(m, left) ==
    /\ ~TooLong(m) /\ ~NoRoom
    /\ StartBusRead(IF AtEnd(m, left) THEN "NAK" ELSE "RCV")
    /\ remaining' = IF Expected(m) = 0 THEN 0 ELSE Expected(m) - 1
    /\ buffer_len' = Filled + 1
    /\ queryState' = IF AtEnd(m, left) THEN 1 ELSE 0
    /\ sending' = IF left = 1 THEN NoMessage ELSE [msg |-> m, left |-> left - 1]
    /\ IF AtEnd(m, left)
       THEN SCPI_Main_Input(Chunk(m, left), ReplyLenAtData)
       ELSE /\ reply_len' = ReplyLenAtData
            /\ Void("usb")
            /\ UNCHANGED <<parserVars, reply>>
    /\ UNCHANGED <<in, dev_in, bulkInStarted, buffer_tx_ix, mav, got>>

\* The chunk is refused, and the driver halts the endpoint.
Refuse(m, left) ==
    /\ TooLong(m) \/ NoRoom
    /\ st' = IF ~TooLong(m) /\ AtEnd(m, left) THEN "NAK" ELSE "RCV"
    /\ out' = "stalled"
    /\ remaining' = IF TooLong(m) \/ Expected(m) = 0 THEN Expected(m) ELSE Expected(m) - 1
    /\ buffer_len' = Filled
    /\ sending' = NoMessage
    /\ UNCHANGED <<in, dev_in, queryState, bulkInStarted, buffer_tx_ix, mav,
                   got, scpiVars>>

\* A packet that is no header, or none the driver accepts, when it waits for one:
\* usbtmcd_xfer_cb gives up and arms nothing.
Ignore ==
    /\ st = "IDLE"
    /\ out' = "idle"
    /\ sending' = NoMessage
    /\ UNCHANGED <<st, in, remaining, dev_in, appVars, got, scpiVars>>

Listening == out = "armed" /\ st \in {"IDLE", "RCV"}

\* The host begins a message.
SendMessage(m) ==
    /\ Listening
    /\ sending = NoMessage
    /\ Take(m, m.len) \/ Refuse(m, m.len)

\* The host sends the next packet of its message.
SendMore ==
    /\ Listening
    /\ sending # NoMessage
    /\ IF st = "RCV"
       THEN Take(sending.msg, sending.left) \/ Refuse(sending.msg, sending.left)
       ELSE Ignore

\* The host asks for data: handle_devMsgIn, tud_usbtmc_msgBulkIn_request_cb. The
\* request waits for usbtmc_app_task_iter, unless an index is left over from an
\* earlier transfer: then the rest of the received message is sent from there,
\* counted modulo the word size.
RequestData ==
    LET rest == IF buffer_len >= buffer_tx_ix THEN buffer_len - buffer_tx_ix ELSE Request
    IN  /\ Listening /\ st = "IDLE"
        /\ sending = NoMessage
        /\ out' = "idle"
        /\ IF queryState = 0 \/ buffer_tx_ix = 0
           THEN /\ bulkInStarted' = TRUE
                /\ st' = "TX_REQUESTED"
                /\ remaining' = Request
                /\ UNCHANGED <<in, dev_in, got, buffer_tx_ix>>
           ELSE /\ st' = CASE rest = 0 -> "TX_REQUESTED"
                           [] rest = 1 -> "TX_SHORTED"
                           [] OTHER    -> "TX_INITIATED"
                /\ in' = IF rest = 0 THEN "idle" ELSE "busy"
                /\ remaining' = IF rest = 0 THEN Request ELSE rest - 1
                /\ dev_in' = IF rest = 0 THEN dev_in
                             ELSE [from |-> "buffer", pos |-> 0]
                /\ got' = IF rest = 0 THEN got ELSE <<"echo">>
                /\ buffer_tx_ix' = IF buffer_len >= buffer_tx_ix THEN buffer_len ELSE BufferSize
                /\ UNCHANGED bulkInStarted
        /\ UNCHANGED <<queryState, buffer_len, mav, sending, scpiVars>>

\* A trigger message: tud_usbtmc_msg_trigger_cb sets SRQ; nothing arms the endpoint.
Trigger ==
    /\ Listening /\ st = "IDLE"
    /\ sending = NoMessage
    /\ out' = "idle"
    /\ UNCHANGED <<st, in, remaining, dev_in, appVars, hostVars, scpiVars>>

-----------------------------------------------------------------------------
(* Bulk-in.                                                                *)

\* As it would be without the delay, which also sets MAV.
AppQueried_bug ==
    /\ queryState = 1
    /\ queryState' = 3
    /\ UNCHANGED <<driverVars, bulkInStarted, buffer_len, buffer_tx_ix, mav,
                   hostVars, scpiVars>>

\* As it would be if the delay lasted until there is a reply.
AppDelayOver_bug ==
    /\ queryState = 2 /\ reply_len > 0
    /\ queryState' = 3
    /\ mav' = TRUE
    /\ UNCHANGED <<driverVars, bulkInStarted, buffer_len, buffer_tx_ix, hostVars, scpiVars>>

\* usbtmc_app_task_iter, one action for each case of its switch.
AppQueried ==
    /\ queryState = 1
    /\ queryState' = 2
    /\ UNCHANGED <<driverVars, bulkInStarted, buffer_len, buffer_tx_ix, mav,
                   hostVars, scpiVars>>

AppDelayOver ==
    /\ queryState = 2
    /\ queryState' = 3
    /\ mav' = TRUE
    /\ UNCHANGED <<driverVars, bulkInStarted, buffer_len, buffer_tx_ix, hostVars, scpiVars>>

AppReady ==
    /\ queryState = 3
    /\ queryState' = 4
    /\ UNCHANGED <<driverVars, bulkInStarted, buffer_len, buffer_tx_ix, mav,
                   hostVars, scpiVars>>

\* The reply is sent; it stays in reply[] although its length is forgotten.
AppTransmitReply ==
    /\ queryState = 4 /\ bulkInStarted /\ buffer_tx_ix = 0
    /\ reply_len > 0
    /\ Transmit("reply", 1, reply_len)
    /\ queryState' = 0
    /\ bulkInStarted' = FALSE
    /\ reply_len' = 0
    /\ UNCHANGED <<out, buffer_len, buffer_tx_ix, mav, sending, parserVars, reply,
                   asked, mixed>>

\* Without a reply the received message is sent back.
AppTransmitBuffer ==
    /\ queryState = 4 /\ bulkInStarted /\ buffer_tx_ix = 0
    /\ reply_len = 0
    /\ Transmit("buffer", 0, buffer_len)
    /\ buffer_tx_ix' = buffer_len
    /\ UNCHANGED <<out, queryState, bulkInStarted, buffer_len, mav, sending, scpiVars>>

usbtmc_app_task_iter ==
    \/ AppQueried \/ AppDelayOver \/ AppReady
    \/ AppTransmitReply \/ AppTransmitBuffer

\* The host has taken the packet of the bulk-in endpoint (usbtmcd_xfer_cb).
HostTakes == in = "busy"

\* It was the last: tud_usbtmc_msgBulkIn_complete_cb.
TransferComplete ==
    /\ HostTakes /\ st = "TX_SHORTED"
    /\ in' = "idle"
    /\ StartBusRead("NAK")
    /\ got' = <<>>
    /\ dev_in' = [from |-> "reply", pos |-> 0]
    /\ IF buffer_tx_ix = buffer_len
       THEN /\ mav' = FALSE
            /\ queryState' = 0
            /\ bulkInStarted' = FALSE
            /\ buffer_tx_ix' = 0
       ELSE UNCHANGED <<mav, queryState, bulkInStarted, buffer_tx_ix>>
    /\ Void("usb")
    /\ UNCHANGED <<remaining, buffer_len, sending, parserVars, reply, reply_len>>

\* More is to come.
TransferContinues ==
    /\ HostTakes /\ st = "TX_INITIATED"
    /\ st' = IF remaining > 1 THEN "TX_INITIATED" ELSE "TX_SHORTED"
    /\ remaining' = IF remaining > 1 THEN remaining - 1 ELSE 0
    /\ got' = Append(got, UnitAt(dev_in.from, dev_in.pos))
    /\ dev_in' = [dev_in EXCEPT !.pos = IF dev_in.from = "reply" THEN @ + 1 ELSE 0]
    /\ UNCHANGED <<out, in, appVars, sending, scpiVars>>

\* The packet that ends an aborted transfer, or one of a transfer being cleared.
TransferAborted ==
    /\ HostTakes /\ st \in {"ABORTING_BULK_IN_SHORTED", "CLEARING"}
    /\ in' = "idle"
    /\ st' = IF st = "CLEARING" THEN st ELSE "ABORTING_BULK_IN_ABORTED"
    /\ UNCHANGED <<out, remaining, dev_in, appVars, hostVars, scpiVars>>

-----------------------------------------------------------------------------
(* Control requests (usbtmcd_control_xfer_cb).                             *)

\* INITIATE_ABORT_BULK_OUT. The comparison of the tag is the wrong way round: a
\* transfer with a tag up to 127 is declared not in progress and goes on, larger
\* tags never compare equal and are aborted.
AbortBulkOut(small_tag) ==
    /\ st = "RCV" /\ sending # NoMessage
    /\ sending' = NoMessage
    /\ IF small_tag
       THEN UNCHANGED <<st, out>>
       ELSE /\ st' = "ABORTING_BULK_OUT"
            /\ out' = "stalled"
    /\ UNCHANGED <<in, remaining, dev_in, appVars, got, scpiVars>>

\* As it would be if the application were not told of the abort.
AbortBulkIn_bug ==
    /\ st \in {"TX_REQUESTED", "TX_INITIATED"}
    /\ st' = "ABORTING_BULK_IN_SHORTED"
    /\ in' = "busy"
    /\ remaining' = 0
    /\ got' = <<>>
    /\ dev_in' = [from |-> "reply", pos |-> 0]
    /\ IF st = "TX_REQUESTED" THEN UNCHANGED <<asked, mixed>> ELSE Void("usb")
    /\ UNCHANGED <<out, appVars, sending, parserVars, reply, reply_len>>

\* INITIATE_ABORT_BULK_IN with the tag of the transfer. At least one packet with
\* a header has been sent in TX_INITIATED, so that the short packet is counted as
\* queued; before that an empty one is.
AbortBulkIn ==
    /\ st \in {"TX_REQUESTED", "TX_INITIATED"}
    /\ st' = "ABORTING_BULK_IN_SHORTED"
    /\ in' = "busy"
    /\ remaining' = 0
    /\ bulkInStarted' = FALSE
    /\ got' = <<>>
    /\ dev_in' = [from |-> "reply", pos |-> 0]
    /\ IF st = "TX_REQUESTED" THEN UNCHANGED <<asked, mixed>> ELSE Void("usb")
    /\ UNCHANGED <<out, queryState, buffer_len, buffer_tx_ix, mav, sending,
                   parserVars, reply, reply_len>>

\* CHECK_ABORT_BULK_IN_STATUS once the packet is taken.
CheckAbortBulkIn ==
    /\ st = "ABORTING_BULK_IN_ABORTED"
    /\ StartBusRead(st)
    /\ UNCHANGED <<in, remaining, dev_in, appVars, hostVars, scpiVars>>

\* INITIATE_CLEAR, tud_usbtmc_initiate_clear_cb.
InitiateClear ==
    /\ st # "CLOSED"
    /\ st' = "CLEARING"
    /\ out' = "stalled"
    /\ remaining' = 0
    /\ queryState' = 0
    /\ bulkInStarted' = FALSE
    /\ mav' = FALSE
    /\ sending' = NoMessage
    /\ got' = <<>>
    /\ dev_in' = [from |-> "reply", pos |-> 0]
    /\ Void("usb")
    /\ UNCHANGED <<in, buffer_len, buffer_tx_ix, parserVars, reply, reply_len>>

\* CHECK_CLEAR_STATUS when nothing waits for the host, tud_usbtmc_check_clear_cb.
CheckClear ==
    /\ st = "CLEARING" /\ in = "idle"
    /\ st' = "IDLE"
    /\ queryState' = 0
    /\ bulkInStarted' = FALSE
    /\ mav' = FALSE
    /\ buffer_tx_ix' = 0
    /\ buffer_len' = 0
    /\ UNCHANGED <<out, in, remaining, dev_in, hostVars, scpiVars>>

\* CLEAR_FEATURE(HALT) on bulk-out, for a halted endpoint or one that no longer
\* answers.
ClearHalt ==
    /\ out # "armed"
    /\ st \in {"NAK", "IDLE", "RCV", "ABORTING_BULK_OUT"}
    /\ StartBusRead("NAK")
    /\ UNCHANGED <<in, remaining, dev_in, appVars, hostVars, scpiVars>>

\* What tud_task and usbtmc_app_task_iter do in the main loop.
UsbStep ==
    \/ BusReset \/ Open
    \/ \E m \in Messages : SendMessage(m)
    \/ SendMore \/ RequestData \/ Trigger
    \/ usbtmc_app_task_iter
    \/ TransferComplete \/ TransferContinues \/ TransferAborted
    \/ \E small_tag \in BOOLEAN : AbortBulkOut(small_tag)
    \/ AbortBulkIn \/ CheckAbortBulkIn \/ InitiateClear \/ CheckClear \/ ClearHalt
=============================================================================
