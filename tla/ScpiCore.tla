------------------------------ MODULE ScpiCore ------------------------------
(***************************************************************************)
(* The part of the SCPI stack that USB-TMC and VXI-11 share: the parser's  *)
(* input buffer and error queue (App/libscpi/src/parser.c, error.c,        *)
(* fifo.c), the reply buffer and the error flag behind LED_R               *)
(* (App/scpi_def.c) and the reply buffer of USB-TMC (App/usbtmc_app.c),    *)
(* which SCPI_Write fills whoever asked.                                   *)
(*                                                                         *)
(* A transport hands over a piece of a command line: the whole of it, its  *)
(* head without the newline, or its tail with it. A line that is the       *)
(* pieces of one command in order is executed; any other mixture cannot be *)
(* parsed and costs an error. A text is counted in packets of the USB bulk *)
(* endpoint, and one packet's worth of it is a unit. "junk" is the binary   *)
(* header of a message that the driver took for its text; "empty" is no    *)
(* text at all, as device_write finds it when the client sends more than   *)
(* its array holds.                                                        *)
(*                                                                         *)
(* Four commands stand for the rest by what they do here: a query with a   *)
(* long reply, one with a short reply that also takes an error from the    *)
(* queue, a command without a reply, and *CLS.                             *)
(*                                                                         *)
(* A definition named X_bug is X with a plausible fault (see RelayCtrl).   *)
(***************************************************************************)
EXTENDS Naturals, Sequences

CONSTANTS
    QueueSize,   \* scpi_error_queue: 16 entries
    InputSize,   \* scpi_input_buffer, in pieces
    ReplySize    \* reply of usbtmc_app.c, in units

ASSUME ScpiAssumption ==
    /\ QueueSize \in Nat \ {0}
    /\ InputSize \in Nat \ {0}
    /\ ReplySize \in Nat /\ ReplySize >= 2   \* any one reply fits (225 bytes)

Transports == {"usb", "vxi"}
Queries    == {"idn", "err"}
Commands   == Queries \cup {"set", "cls"}
Parts      == {"whole", "head", "tail", "junk", "empty"}
Pieces     == [from : Transports, cmd : Commands, part : Parts]

Blank == "blank"
Units == {"idn1", "idn2", "err1", Blank}

\* What a command writes: SCPI_CoreIdnQ, SCPI_SystemErrorNextQ, or nothing.
Text(cmd) ==
    CASE cmd = "idn" -> <<"idn1", "idn2">>
      [] cmd = "err" -> <<"err1">>
      [] OTHER       -> <<>>

VARIABLES
    input,         \* scpi_input_buffer: the heads of a line not yet complete
    errors,        \* entries in the error queue
    error_active,  \* scpi_error_active, shown by LED_R
    reply_buf,     \* scpi_reply_buf up to scpi_reply_len
    reply_ready,   \* scpi_reply_ready
    reply,         \* reply[] of usbtmc_app.c, kept when reply_len is reset
    reply_len,
    asked,         \* history: the query a transport sent last, until its reply is
                   \* taken, or nothing is left of it to be read
    mixed          \* history: while asked["usb"] has its reply coming, the instrument
                   \* has replied to VXI-11

parserVars == <<input, errors, error_active, reply_buf, reply_ready>>
scpiVars   == <<parserVars, reply, reply_len, asked, mixed>>

ScpiTypeOK ==
    /\ input \in Seq(Pieces)
    /\ errors \in 0..QueueSize
    /\ error_active \in BOOLEAN
    /\ reply_buf \in Seq(Units)
    /\ reply_ready \in BOOLEAN
    /\ reply \in [1..ReplySize -> Units]
    /\ reply_len \in 0..ReplySize
    /\ asked \in [Transports -> Queries \cup {"none"}]
    /\ mixed \in BOOLEAN

ScpiInit ==
    /\ input = <<>>
    /\ errors = 0
    /\ error_active = FALSE
    /\ reply_buf = <<>>
    /\ reply_ready = FALSE
    /\ reply = [i \in 1..ReplySize |-> Blank]
    /\ reply_len = 0
    /\ asked = [t \in Transports |-> "none"]
    /\ mixed = FALSE

-----------------------------------------------------------------------------
\* The command that a complete line spells; "bad" if none (SCPI_Parse).
Spelled(line) ==
    LET last == line[Len(line)]
    IN  IF \/ Len(line) = 1 /\ last.part = "whole"
           \/ Len(line) = 2 /\ last.part = "tail" /\ line[1].cmd = last.cmd
        THEN last.cmd
        ELSE "bad"

\* SCPI_Input with piece p: what it executes, "none" while the line lacks its
\* newline. A piece for which there is no room empties the buffer; an empty one
\* ends whatever line has begun.
Overrun(p)  == p.part # "empty" /\ Len(input) >= InputSize
Complete(p) == ~Overrun(p) /\ p.part # "head"
Executed(p) ==
    CASE Overrun(p)                          -> "bad"
      [] Complete(p) /\ p.part # "empty"     -> Spelled(Append(input, p))
      [] p.part = "empty" /\ input # <<>>    -> "bad"
      [] OTHER                               -> "none"

\* As it would be if the overflow error were added to a full queue.
ErrorsPushed_bug == errors + 1

\* SCPI_ErrorPush: a full queue loses its newest entry to the overflow error.
ErrorsPushed == (IF errors = QueueSize THEN errors - 1 ELSE errors) + 1
ErrorsPopped == IF errors = 0 THEN 0 ELSE errors - 1

ErrorsAfter(cmd) ==
    CASE cmd = "bad" -> ErrorsPushed
      [] cmd = "err" -> ErrorsPopped
      [] cmd = "cls" -> 0
      [] OTHER       -> errors

\* As it would be if the error callback were taken for "an entry was removed".
ErrorActiveAfter_bug(cmd) == cmd = "bad" \/ (error_active /\ cmd \notin {"err", "cls"})

\* The calls of interface->error: with the error at every push, with 0 when a
\* pop or *CLS finds the queue empty.
ErrorActiveAfter(cmd) ==
    CASE cmd = "bad"            -> TRUE
      [] cmd \in {"err", "cls"} -> error_active /\ ErrorsAfter(cmd) # 0
      [] OTHER                  -> error_active

\* setReply(text) with reply_len = n: dropped whole when it does not fit.
Fits(text, n) == n + Len(text) <= ReplySize
Stored(text, n) ==
    [i \in 1..ReplySize |->
        IF Fits(text, n) /\ i \in n + 1 .. n + Len(text) THEN text[i - n] ELSE reply[i]]
StoredLen(text, n) == IF Fits(text, n) THEN n + Len(text) ELSE n

\* What transports still have coming after t handed over p: the sender's own
\* query if the line was all its own, and USB input resets what VXI-11 would read.
\* A USB host is told nothing of VXI-11 and has its reply coming as before, but a
\* reply to VXI-11 is also written into the buffer that it is sent from.
OwnQuery(t, p) ==
    /\ Executed(p) \in Queries
    /\ \A i \in 1..Len(input) : input[i].from = t

AskedAfter(t, p) ==
    [u \in Transports |->
        IF u = t THEN IF OwnQuery(t, p) THEN Executed(p) ELSE "none"
        ELSE IF u = "vxi" THEN "none" ELSE asked[u]]

MixedAfter(t, p) ==
    t = "vxi" /\ (mixed \/ (asked["usb"] # "none" /\ Text(Executed(p)) # <<>>))

\* Transport t has no reply coming any more.
Void(t) ==
    /\ asked' = [asked EXCEPT ![t] = "none"]
    /\ mixed' = (mixed /\ t # "usb")

\* As it would be if SCPI_Main_Input did not reset scpi_reply_len.
ReplyBufAfter_bug(cmd) == reply_buf \o Text(cmd)

\* SCPI_Main_Input forgets the reply so far, SCPI_Write adds to it.
ReplyBufAfter(cmd) == Text(cmd)

\* SCPI_Main_Input called for transport p.from, with reply_len = n.
SCPI_Main_Input(p, n) ==
    LET cmd == Executed(p)
    IN  /\ input' = IF Overrun(p) \/ Complete(p) THEN <<>> ELSE Append(input, p)
        /\ errors' = ErrorsAfter(cmd)
        /\ error_active' = ErrorActiveAfter(cmd)
        /\ reply_buf' = ReplyBufAfter(cmd)
        /\ reply_ready' = (Text(cmd) # <<>>)
        /\ reply' = Stored(Text(cmd), n)
        /\ reply_len' = StoredLen(Text(cmd), n)
        /\ asked' = AskedAfter(p.from, p)
        /\ mixed' = MixedAfter(p.from, p)

-----------------------------------------------------------------------------
\* LED_R is on exactly while the error queue holds something ("LED_R error
\* indicator - ON while SCPI error queue non-empty", main.c:160), whichever
\* transports pushed, drained and cleared it, the full queue included.
LedShowsErrors == error_active <=> errors # 0
=============================================================================
