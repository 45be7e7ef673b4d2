------------------------- MODULE RemoteControlProofs -------------------------
(***************************************************************************)
(* Proofs about RemoteControl, for any sizes of the buffers and of the     *)
(* error queue and any set of messages and calls: its types, the agreement *)
(* of driver and endpoints, the error LED, MAV, and that each transport    *)
(* gets the reply to its own query. Fairness is not used.                  *)
(***************************************************************************)
EXTENDS RemoteControl, TLAPS

-----------------------------------------------------------------------------
(* The parser.                                                             *)

\* SCPI_Input executes a command, nothing, or something that is an error.
LEMMA ExecutedType ==
    ASSUME ScpiTypeOK, NEW p \in Pieces
    PROVE  Executed(p) \in Commands \cup {"bad", "none"}
<1> DEFINE line == Append(input, p)
<1>1. Len(line) = Len(input) + 1 /\ line[Len(line)] = p
  BY DEF ScpiTypeOK
<1>2. Spelled(line) \in Commands \cup {"bad"}
  BY <1>1 DEF Spelled, Pieces
<1> QED
  BY <1>2 DEF Executed

\* What a command writes is a sequence of units, at most two.
LEMMA TextType ==
    ASSUME NEW cmd
    PROVE  /\ Text(cmd) \in Seq(Units) /\ Len(Text(cmd)) \in 0..2
           /\ Text(cmd) # <<>> <=> cmd \in Queries
           /\ cmd \in Queries => Len(Text(cmd)) > 0
<1>1. CASE cmd = "idn"
  BY <1>1 DEF Text, Units, Queries, Blank
<1>2. CASE cmd = "err"
  BY <1>2 DEF Text, Units, Queries, Blank
<1>3. CASE cmd \notin Queries
  BY <1>3 DEF Text, Units, Queries
<1> QED
  BY <1>1, <1>2, <1>3 DEF Queries

\* The number of errors after a command stays within the queue, and LED_R follows it.
LEMMA ErrorsStep ==
    ASSUME ScpiTypeOK, NEW cmd
    PROVE  /\ ErrorsAfter(cmd) \in 0..QueueSize
           /\ ErrorActiveAfter(cmd) \in BOOLEAN
           /\ LedShowsErrors => (ErrorActiveAfter(cmd) <=> ErrorsAfter(cmd) # 0)
<1>0. errors \in 0..QueueSize /\ QueueSize \in Nat \ {0} /\ error_active \in BOOLEAN
  BY ScpiAssumption DEF ScpiTypeOK
<1>1. CASE cmd = "bad"
  BY <1>0, <1>1 DEF ErrorsAfter, ErrorActiveAfter, ErrorsPushed, LedShowsErrors
<1>2. CASE cmd = "err"
  BY <1>0, <1>2 DEF ErrorsAfter, ErrorActiveAfter, ErrorsPopped, LedShowsErrors
<1>3. CASE cmd = "cls"
  BY <1>0, <1>3 DEF ErrorsAfter, ErrorActiveAfter, LedShowsErrors
<1>4. CASE cmd \notin {"bad", "err", "cls"}
  BY <1>0, <1>4 DEF ErrorsAfter, ErrorActiveAfter, LedShowsErrors
<1> QED
  BY <1>1, <1>2, <1>3, <1>4

\* setReply keeps the types, and stores a text that fits at index n.
LEMMA StoredType ==
    ASSUME ScpiTypeOK, NEW cmd, NEW n \in 0..ReplySize
    PROVE  /\ Stored(Text(cmd), n) \in [1..ReplySize -> Units]
           /\ StoredLen(Text(cmd), n) \in 0..ReplySize
<1> DEFINE text == Text(cmd)
<1>1. text \in Seq(Units) /\ ReplySize \in Nat /\ reply \in [1..ReplySize -> Units]
  BY TextType, ScpiAssumption DEF ScpiTypeOK
<1> HIDE DEF text
<1>2. ASSUME NEW i \in 1..ReplySize, i \in n + 1 .. n + Len(text)
      PROVE  text[i - n] \in Units
  <2>1. i - n \in 1..Len(text)
    BY <1>1, <1>2
  <2> QED
    BY <1>1, <2>1
<1>3. Stored(text, n) \in [1..ReplySize -> Units]
  BY <1>1, <1>2 DEF Stored
<1>4. StoredLen(text, n) \in 0..ReplySize
  BY <1>1 DEF StoredLen, Fits
<1> QED
  BY <1>3, <1>4 DEF text

\* SCPI_Main_Input keeps the types and the LED.
LEMMA InputStep ==
    ASSUME ScpiTypeOK, NEW p \in Pieces, NEW n \in 0..ReplySize, SCPI_Main_Input(p, n)
    PROVE  ScpiTypeOK' /\ (LedShowsErrors => LedShowsErrors')
<1> DEFINE cmd == Executed(p)
<1>1. input' \in Seq(Pieces)
  BY DEF ScpiTypeOK, SCPI_Main_Input
<1>2. /\ errors' \in 0..QueueSize /\ error_active' \in BOOLEAN
      /\ LedShowsErrors => LedShowsErrors'
  BY ErrorsStep DEF SCPI_Main_Input, LedShowsErrors
<1>3. reply_buf' \in Seq(Units) /\ reply_ready' \in BOOLEAN
  BY TextType DEF SCPI_Main_Input, ReplyBufAfter
<1>4. reply' \in [1..ReplySize -> Units] /\ reply_len' \in 0..ReplySize
  BY StoredType DEF SCPI_Main_Input
<1>5. asked' \in [Transports -> Queries \cup {"none"}]
  <2>1. \A t \in Transports : OwnQuery(t, p) => Executed(p) \in Queries
    BY DEF OwnQuery
  <2>2. p.from \in Transports
    BY DEF Pieces
  <2>3. asked' = AskedAfter(p.from, p)
    BY DEF SCPI_Main_Input
  <2> QED
    BY <2>1, <2>2, <2>3 DEF AskedAfter, ScpiTypeOK
<1>6. mixed' \in BOOLEAN
  BY DEF SCPI_Main_Input, MixedAfter
<1> QED
  BY <1>1, <1>2, <1>3, <1>4, <1>5, <1>6 DEF ScpiTypeOK

-----------------------------------------------------------------------------
(* Types.                                                                  *)

\* Steps that only change reply_len, asked or mixed keep the types of the SCPI part.
LEMMA ScpiKept ==
    ASSUME ScpiTypeOK, UNCHANGED <<parserVars, reply>>, reply_len' \in {reply_len, 0},
           UNCHANGED <<asked, mixed>> \/ \E t \in Transports : Void(t)
    PROVE  ScpiTypeOK'
<1>1. 0 \in 0..ReplySize
  BY ScpiAssumption
<1>2. UNCHANGED <<input, errors, error_active, reply_buf, reply_ready, reply>>
  BY DEF parserVars
<1>3. asked' \in [Transports -> Queries \cup {"none"}]
  BY DEF ScpiTypeOK, Void
<1>4. mixed' \in BOOLEAN
  BY DEF ScpiTypeOK, Void
<1> QED
  BY <1>1, <1>2, <1>3, <1>4 DEF ScpiTypeOK

\* Taking a chunk keeps the types.
LEMMA TakeType ==
    ASSUME TypeOK, NEW m \in Messages, NEW left \in Nat \ {0}, Take(m, left), Listening
    PROVE  UsbTypeOK' /\ ScpiTypeOK' /\ PositionInv'
<1>1. m.piece \in Pieces /\ m.len \in Nat \ {0} /\ BufferSize \in Nat \ {0}
  BY MessageAssumption
<1>2. Chunk(m, left) \in Pieces
  BY <1>1 DEF Chunk, Pieces, Parts
<1>3. ScpiTypeOK'
  <2>1. CASE AtEnd(m, left)
    BY <1>2, <2>1, InputStep, ScpiAssumption DEF Take, TypeOK, ReplyLenAtData
  <2>2. CASE ~AtEnd(m, left)
    BY <2>2, ScpiKept DEF Take, TypeOK, ReplyLenAtData, Transports
  <2> QED
    BY <2>1, <2>2
<1>4. Expected(m) \in Nat /\ Filled \in Nat
  BY <1>1 DEF Expected, Filled, TypeOK, UsbTypeOK
<1>5. st' \in {"IDLE", "RCV"} /\ out' \in {"armed", "idle"}
  BY DEF Take, StartBusRead
<1>6. buffer_len' \in 0..BufferSize - 1 /\ remaining' \in Nat /\ queryState' \in 0..4
  BY <1>1, <1>4 DEF Take, NoRoom
<1>7. sending' \in [msg : Messages, left : Nat \ {0}] \cup {NoMessage}
  BY DEF Take
<1>8. UNCHANGED <<in, dev_in, bulkInStarted, buffer_tx_ix, mav, got>>
  BY DEF Take
<1>9. UsbTypeOK'
  BY <1>5, <1>6, <1>7, <1>8 DEF TypeOK, UsbTypeOK, DriverStates
<1> QED
  BY <1>3, <1>5, <1>9 DEF PositionInv

\* Refusing a chunk keeps the types.
LEMMA RefuseType ==
    ASSUME TypeOK, NEW m \in Messages, NEW left \in Nat \ {0}, Refuse(m, left), Listening
    PROVE  UsbTypeOK' /\ ScpiTypeOK' /\ PositionInv'
<1>1. m.len \in Nat \ {0} /\ BufferSize \in Nat \ {0}
  BY MessageAssumption
<1>2. Expected(m) \in Nat /\ Filled \in 0..BufferSize - 1
  BY <1>1 DEF Expected, Filled, TypeOK, UsbTypeOK
<1>3. /\ st' \in {"NAK", "RCV"} /\ out' = "stalled" /\ remaining' \in Nat
      /\ buffer_len' \in 0..BufferSize - 1 /\ sending' = NoMessage
  BY <1>2 DEF Refuse
<1>4. ScpiTypeOK'
  BY ScpiKept DEF Refuse, TypeOK, scpiVars
<1>5. UNCHANGED <<in, dev_in, queryState, bulkInStarted, buffer_tx_ix, mav, got>>
  BY DEF Refuse
<1>6. UsbTypeOK'
  BY <1>3, <1>5 DEF TypeOK, UsbTypeOK, DriverStates
<1> QED
  BY <1>3, <1>4, <1>6 DEF PositionInv

\* A transmission that begins keeps the types and stays within its buffer.
LEMMA TransmitType ==
    ASSUME TypeOK, PositionInv, NEW from \in {"reply", "buffer"}, NEW i \in Nat,
           NEW len \in Nat, from = "reply" => i > 0 /\ i + len <= ReplySize + 1,
           Transmit(from, i, len)
    PROVE  /\ st' \in DriverStates /\ in' \in {"idle", "busy"} /\ remaining' \in Nat
           /\ dev_in' \in [from : {"reply", "buffer"}, pos : Nat]
           /\ got' \in Seq(Units \cup {"echo"})
           /\ PositionInv'
<1>1. CASE st = "TX_REQUESTED" /\ len > 0 /\ len <= remaining
  <2>1. /\ st' = (IF len = 1 THEN "TX_SHORTED" ELSE "TX_INITIATED")
        /\ in' = "busy" /\ remaining' = len - 1
        /\ dev_in' = [from |-> from, pos |-> i + 1]
        /\ got' = <<UnitAt(from, i)>>
    BY <1>1 DEF Transmit
  <2>2. UnitAt(from, i) \in Units \cup {"echo"}
    BY <1>1, ScpiAssumption DEF UnitAt, TypeOK, ScpiTypeOK
  <2>3. got' \in Seq(Units \cup {"echo"})
    BY <2>1, <2>2
  <2>4. PositionInv'
    BY <2>1, <1>1, ScpiAssumption DEF PositionInv
  <2> QED
    BY <2>1, <2>3, <2>4, <1>1 DEF DriverStates
<1>2. CASE ~(st = "TX_REQUESTED" /\ len > 0 /\ len <= remaining)
  <2>1. UNCHANGED <<st, in, remaining, dev_in, got>>
    BY <1>2 DEF Transmit
  <2> QED
    BY <2>1 DEF TypeOK, UsbTypeOK, PositionInv
<1> QED
  BY <1>1, <1>2

\* Every step on the USB side keeps the types.
LEMMA UsbTypeStep ==
    ASSUME TypeOK, PositionInv, UsbStep
    PROVE  UsbTypeOK' /\ ScpiTypeOK' /\ PositionInv'
<1> USE DEF TypeOK
<1>0. BufferSize \in Nat \ {0} /\ Request \in Nat \ {0} /\ ReplySize \in Nat
  BY MessageAssumption, ScpiAssumption
<1>f. 0 \in 0..BufferSize - 1 /\ 0 \in 0..BufferSize /\ BufferSize \in 0..BufferSize
  BY <1>0
<1>1. CASE BusReset
  <2>1. ScpiTypeOK'
    BY <1>1, ScpiKept DEF BusReset, Transports
  <2> QED
    BY <1>1, <2>1 DEF BusReset, appVars, UsbTypeOK, DriverStates, PositionInv
<1>2. CASE Open
  <2>1. ScpiTypeOK'
    BY <1>2, ScpiKept DEF Open, Transports
  <2>a. /\ st' \in DriverStates /\ out' \in {"idle", "armed", "stalled"}
        /\ in' \in {"idle", "busy"} /\ remaining' \in Nat
        /\ dev_in' \in [from : {"reply", "buffer"}, pos : Nat]
    BY <1>2, <1>f DEF Open, StartBusRead, hostVars, UsbTypeOK, DriverStates
  <2>b. bulkInStarted' \in BOOLEAN /\ mav' \in BOOLEAN
    BY <1>2, <1>f DEF Open, StartBusRead, hostVars, UsbTypeOK
  <2>c. queryState' \in 0..4 /\ buffer_len' \in 0..BufferSize - 1 /\ buffer_tx_ix' \in 0..BufferSize
    BY <1>2, <1>f DEF Open, StartBusRead, hostVars, UsbTypeOK
  <2>d. /\ sending' \in [msg : Messages, left : Nat \ {0}] \cup {NoMessage}
        /\ got' \in Seq(Units \cup {"echo"})
    BY <1>2, <1>f DEF Open, StartBusRead, hostVars, UsbTypeOK
  <2>e. PositionInv'
    BY <1>2, <1>f DEF Open, StartBusRead, hostVars, PositionInv
  <2> QED
    BY <2>a, <2>b, <2>c, <2>d, <2>e, <2>1 DEF UsbTypeOK
<1>3. ASSUME NEW m \in Messages, SendMessage(m)
      PROVE  UsbTypeOK' /\ ScpiTypeOK' /\ PositionInv'
  <2>1. m.len \in Nat \ {0}
    BY MessageAssumption
  <2> QED
    BY <1>3, <2>1, TakeType, RefuseType DEF SendMessage
<1>4. CASE SendMore
  <2>1. sending.msg \in Messages /\ sending.left \in Nat \ {0}
    BY <1>4 DEF SendMore, UsbTypeOK
  <2>2. CASE st = "RCV"
    BY <1>4, <2>1, <2>2, TakeType, RefuseType DEF SendMore
  <2>3. CASE Ignore
    <3>1. ScpiTypeOK'
      BY <2>3, ScpiKept DEF Ignore, scpiVars
    <3> QED
      BY <2>3, <3>1 DEF Ignore, appVars, UsbTypeOK, PositionInv
  <2> QED
    BY <1>4, <2>2, <2>3 DEF SendMore
<1>5. CASE RequestData
  <2>1. ScpiTypeOK'
    BY <1>5, ScpiKept DEF RequestData, scpiVars
  <2>2. CASE queryState = 0 \/ buffer_tx_ix = 0
    BY <1>5, <2>1, <2>2, <1>0 DEF RequestData, UsbTypeOK, DriverStates, PositionInv
  <2>3. CASE ~(queryState = 0 \/ buffer_tx_ix = 0)
    <3> DEFINE rest == IF buffer_len >= buffer_tx_ix THEN buffer_len - buffer_tx_ix ELSE Request
    <3>1. rest \in Nat
      BY <1>0 DEF UsbTypeOK
    <3>2. /\ st' \in {"TX_REQUESTED", "TX_SHORTED", "TX_INITIATED"}
          /\ st' = "TX_INITIATED" => rest > 1
          /\ in' \in {"idle", "busy"}
          /\ remaining' = (IF rest = 0 THEN Request ELSE rest - 1)
          /\ dev_in' \in {dev_in, [from |-> "buffer", pos |-> 0]}
          /\ rest # 0 => dev_in'.from = "buffer"
          /\ got' \in {got, <<"echo">>}
          /\ buffer_tx_ix' \in {buffer_len, BufferSize}
      BY <1>5, <2>3, <3>1 DEF RequestData
    <3> HIDE DEF rest
    <3>3. UNCHANGED <<bulkInStarted, queryState, buffer_len, mav, sending>> /\ out' = "idle"
      BY <1>5, <2>3 DEF RequestData
    <3>4. <<"echo">> \in Seq(Units \cup {"echo"})
      OBVIOUS
    <3>5. PositionInv'
      BY <3>1, <3>2 DEF PositionInv
    <3>6. remaining' \in Nat /\ buffer_tx_ix' \in 0..BufferSize
      BY <3>1, <3>2, <1>0 DEF UsbTypeOK
    <3>7. /\ dev_in' \in [from : {"reply", "buffer"}, pos : Nat]
          /\ got' \in Seq(Units \cup {"echo"})
      <4>1. [from |-> "buffer", pos |-> 0] \in [from : {"reply", "buffer"}, pos : Nat]
        OBVIOUS
      <4>2. dev_in \in [from : {"reply", "buffer"}, pos : Nat] /\ got \in Seq(Units \cup {"echo"})
        BY DEF UsbTypeOK
      <4>3. dev_in' \in [from : {"reply", "buffer"}, pos : Nat]
        BY <3>2, <4>1, <4>2 DEF TypeOK
      <4>4. got' \in Seq(Units \cup {"echo"})
        BY <3>2, <3>4, <4>2
      <4> QED
        BY <4>3, <4>4
    <3>8. st' \in DriverStates
      BY <3>2 DEF DriverStates
    <3> QED
      BY <2>1, <3>2, <3>3, <3>5, <3>6, <3>7, <3>8 DEF UsbTypeOK
  <2> QED
    BY <2>2, <2>3
<1>6. CASE Trigger
  <2>1. ScpiTypeOK'
    BY <1>6, ScpiKept DEF Trigger, scpiVars
  <2> QED
    BY <1>6, <2>1 DEF Trigger, appVars, hostVars, UsbTypeOK, PositionInv
<1>7. CASE AppQueried \/ AppDelayOver \/ AppReady
  <2>1. ScpiTypeOK'
    BY <1>7, ScpiKept DEF AppQueried, AppDelayOver, AppReady, scpiVars
  <2>a. /\ st' \in DriverStates /\ out' \in {"idle", "armed", "stalled"}
        /\ in' \in {"idle", "busy"} /\ remaining' \in Nat
        /\ dev_in' \in [from : {"reply", "buffer"}, pos : Nat]
    BY <1>7 DEF AppQueried, AppDelayOver, AppReady, driverVars, hostVars, UsbTypeOK, DriverStates
  <2>b. bulkInStarted' \in BOOLEAN /\ mav' \in BOOLEAN
    BY <1>7 DEF AppQueried, AppDelayOver, AppReady, driverVars, hostVars, UsbTypeOK
  <2>c. queryState' \in 0..4 /\ buffer_len' \in 0..BufferSize - 1 /\ buffer_tx_ix' \in 0..BufferSize
    BY <1>7 DEF AppQueried, AppDelayOver, AppReady, driverVars, hostVars, UsbTypeOK
  <2>d. /\ sending' \in [msg : Messages, left : Nat \ {0}] \cup {NoMessage}
        /\ got' \in Seq(Units \cup {"echo"})
    BY <1>7 DEF AppQueried, AppDelayOver, AppReady, driverVars, hostVars, UsbTypeOK
  <2>e. PositionInv'
    BY <1>7 DEF AppQueried, AppDelayOver, AppReady, driverVars, hostVars, PositionInv
  <2> QED
    BY <2>a, <2>b, <2>c, <2>d, <2>e, <2>1 DEF UsbTypeOK
<1>8. CASE AppTransmitReply
  <2>1. ScpiTypeOK'
    BY <1>8, ScpiKept DEF AppTransmitReply
  <2>2. reply_len \in Nat /\ 1 \in Nat /\ 1 + reply_len <= ReplySize + 1
    BY <1>0 DEF ScpiTypeOK
  <2>3. /\ st' \in DriverStates /\ in' \in {"idle", "busy"} /\ remaining' \in Nat
        /\ dev_in' \in [from : {"reply", "buffer"}, pos : Nat]
        /\ got' \in Seq(Units \cup {"echo"}) /\ PositionInv'
    BY <1>8, <2>2, TransmitType DEF AppTransmitReply
  <2>4. UNCHANGED <<out, buffer_len, buffer_tx_ix, mav, sending>> /\ queryState' = 0
    BY <1>8 DEF AppTransmitReply
  <2>5. bulkInStarted' \in BOOLEAN
    BY <1>8 DEF AppTransmitReply
  <2> QED
    BY <2>1, <2>3, <2>4, <2>5 DEF UsbTypeOK
<1>9. CASE AppTransmitBuffer
  <2>1. ScpiTypeOK'
    BY <1>9, ScpiKept DEF AppTransmitBuffer, scpiVars
  <2>2. buffer_len \in Nat /\ 0 \in Nat /\ buffer_len \in 0..BufferSize
    BY <1>0 DEF UsbTypeOK
  <2>3. /\ st' \in DriverStates /\ in' \in {"idle", "busy"} /\ remaining' \in Nat
        /\ dev_in' \in [from : {"reply", "buffer"}, pos : Nat]
        /\ got' \in Seq(Units \cup {"echo"}) /\ PositionInv'
    BY <1>9, <2>2, TransmitType DEF AppTransmitBuffer
  <2> QED
    BY <1>9, <2>1, <2>2, <2>3 DEF AppTransmitBuffer, UsbTypeOK
<1>10. CASE TransferComplete
  <2>1. ScpiTypeOK'
    BY <1>10, ScpiKept DEF TransferComplete, Transports
  <2>2. queryState' \in 0..4 /\ buffer_tx_ix' \in 0..BufferSize
    BY <1>10, <1>f DEF TransferComplete, UsbTypeOK
  <2>a. /\ st' \in DriverStates /\ out' \in {"idle", "armed", "stalled"}
        /\ in' \in {"idle", "busy"} /\ remaining' \in Nat
        /\ dev_in' \in [from : {"reply", "buffer"}, pos : Nat]
    BY <1>10, <2>2 DEF TransferComplete, StartBusRead, UsbTypeOK, DriverStates
  <2>b. bulkInStarted' \in BOOLEAN /\ mav' \in BOOLEAN
    BY <1>10, <2>2 DEF TransferComplete, StartBusRead, UsbTypeOK
  <2>c. queryState' \in 0..4 /\ buffer_len' \in 0..BufferSize - 1 /\ buffer_tx_ix' \in 0..BufferSize
    BY <1>10, <2>2 DEF TransferComplete, StartBusRead, UsbTypeOK
  <2>d. /\ sending' \in [msg : Messages, left : Nat \ {0}] \cup {NoMessage}
        /\ got' \in Seq(Units \cup {"echo"})
    BY <1>10, <2>2 DEF TransferComplete, StartBusRead, UsbTypeOK
  <2>e. PositionInv'
    BY <1>10, <2>2 DEF TransferComplete, StartBusRead, PositionInv
  <2> QED
    BY <2>a, <2>b, <2>c, <2>d, <2>e, <2>1 DEF UsbTypeOK
<1>11. CASE TransferContinues
  <2>1. ScpiTypeOK'
    BY <1>11, ScpiKept DEF TransferContinues, scpiVars
  <2>2. remaining > 0 /\ remaining \in Nat
    BY <1>11 DEF TransferContinues, PositionInv, UsbTypeOK
  <2>3. UnitAt(dev_in.from, dev_in.pos) \in Units \cup {"echo"}
    <3>1. CASE dev_in.from = "reply"
      <4>1. dev_in.pos \in 1..ReplySize
        <5>1. dev_in.pos > 0 /\ dev_in.pos + remaining <= ReplySize + 1
          BY <1>11, <3>1 DEF TransferContinues, PositionInv
        <5>2. dev_in.pos \in Nat  BY DEF UsbTypeOK
        <5> QED  BY <1>0, <2>2, <5>1, <5>2
      <4>2. reply[dev_in.pos] \in Units  BY <4>1 DEF ScpiTypeOK
      <4> QED  BY <3>1, <4>2 DEF UnitAt
    <3>2. CASE dev_in.from # "reply"  BY <3>2 DEF UnitAt
    <3> QED  BY <3>1, <3>2
  <2>4. got' \in Seq(Units \cup {"echo"})
    BY <1>11, <2>3 DEF TransferContinues, UsbTypeOK
  <2>5. dev_in' = [from |-> dev_in.from, pos |-> IF dev_in.from = "reply" THEN dev_in.pos + 1 ELSE 0]
    BY <1>11 DEF TransferContinues, UsbTypeOK
  <2>6. PositionInv'
    BY <1>11, <1>0, <2>2, <2>5 DEF TransferContinues, PositionInv, UsbTypeOK
  <2> QED
    BY <1>11, <2>1, <2>2, <2>4, <2>5, <2>6
       DEF TransferContinues, appVars, UsbTypeOK, DriverStates
<1>12. CASE TransferAborted
  <2>1. ScpiTypeOK'
    BY <1>12, ScpiKept DEF TransferAborted, scpiVars
  <2> QED
    BY <1>12, <2>1 DEF TransferAborted, appVars, hostVars, UsbTypeOK, DriverStates, PositionInv
<1>13. ASSUME NEW small_tag \in BOOLEAN, AbortBulkOut(small_tag)
       PROVE  UsbTypeOK' /\ ScpiTypeOK' /\ PositionInv'
  <2>1. ScpiTypeOK'
    BY <1>13, ScpiKept DEF AbortBulkOut, scpiVars
  <2> QED
    BY <1>13, <2>1 DEF AbortBulkOut, appVars, UsbTypeOK, DriverStates, PositionInv
<1>14. CASE AbortBulkIn
  <2>1. UNCHANGED <<asked, mixed>> \/ Void("usb")
    BY <1>14 DEF AbortBulkIn
  <2>2. ScpiTypeOK'
    BY <1>14, <2>1, ScpiKept DEF AbortBulkIn, Transports
  <2>a. /\ st' \in DriverStates /\ out' \in {"idle", "armed", "stalled"}
        /\ in' \in {"idle", "busy"} /\ remaining' \in Nat
        /\ dev_in' \in [from : {"reply", "buffer"}, pos : Nat]
    BY <1>14 DEF AbortBulkIn, UsbTypeOK, DriverStates
  <2>b. bulkInStarted' \in BOOLEAN /\ mav' \in BOOLEAN
    BY <1>14 DEF AbortBulkIn, UsbTypeOK
  <2>c. queryState' \in 0..4 /\ buffer_len' \in 0..BufferSize - 1 /\ buffer_tx_ix' \in 0..BufferSize
    BY <1>14 DEF AbortBulkIn, UsbTypeOK
  <2>d. /\ sending' \in [msg : Messages, left : Nat \ {0}] \cup {NoMessage}
        /\ got' \in Seq(Units \cup {"echo"})
    BY <1>14 DEF AbortBulkIn, UsbTypeOK
  <2>e. PositionInv'
    BY <1>14 DEF AbortBulkIn, PositionInv
  <2> QED
    BY <2>a, <2>b, <2>c, <2>d, <2>e, <2>2 DEF UsbTypeOK
<1>15. CASE CheckAbortBulkIn
  <2>1. ScpiTypeOK'
    BY <1>15, ScpiKept DEF CheckAbortBulkIn, scpiVars
  <2> QED
    BY <1>15, <2>1 DEF CheckAbortBulkIn, StartBusRead, appVars, hostVars, UsbTypeOK,
                       DriverStates, PositionInv
<1>16. CASE InitiateClear
  <2>1. ScpiTypeOK'
    BY <1>16, ScpiKept DEF InitiateClear, Transports
  <2>a. /\ st' \in DriverStates /\ out' \in {"idle", "armed", "stalled"}
        /\ in' \in {"idle", "busy"} /\ remaining' \in Nat
        /\ dev_in' \in [from : {"reply", "buffer"}, pos : Nat]
    BY <1>16 DEF InitiateClear, UsbTypeOK, DriverStates
  <2>b. bulkInStarted' \in BOOLEAN /\ mav' \in BOOLEAN
    BY <1>16 DEF InitiateClear, UsbTypeOK
  <2>c. queryState' \in 0..4 /\ buffer_len' \in 0..BufferSize - 1 /\ buffer_tx_ix' \in 0..BufferSize
    BY <1>16 DEF InitiateClear, UsbTypeOK
  <2>d. /\ sending' \in [msg : Messages, left : Nat \ {0}] \cup {NoMessage}
        /\ got' \in Seq(Units \cup {"echo"})
    BY <1>16 DEF InitiateClear, UsbTypeOK
  <2>e. PositionInv'
    BY <1>16 DEF InitiateClear, PositionInv
  <2> QED
    BY <2>a, <2>b, <2>c, <2>d, <2>e, <2>1 DEF UsbTypeOK
<1>17. CASE CheckClear
  <2>1. ScpiTypeOK'
    BY <1>17, ScpiKept DEF CheckClear, scpiVars
  <2>a. /\ st' \in DriverStates /\ out' \in {"idle", "armed", "stalled"}
        /\ in' \in {"idle", "busy"} /\ remaining' \in Nat
        /\ dev_in' \in [from : {"reply", "buffer"}, pos : Nat]
    BY <1>17, <1>f DEF CheckClear, hostVars, UsbTypeOK, DriverStates
  <2>b. bulkInStarted' \in BOOLEAN /\ mav' \in BOOLEAN
    BY <1>17, <1>f DEF CheckClear, hostVars, UsbTypeOK
  <2>c. queryState' \in 0..4 /\ buffer_len' \in 0..BufferSize - 1 /\ buffer_tx_ix' \in 0..BufferSize
    BY <1>17, <1>f DEF CheckClear, hostVars, UsbTypeOK
  <2>d. /\ sending' \in [msg : Messages, left : Nat \ {0}] \cup {NoMessage}
        /\ got' \in Seq(Units \cup {"echo"})
    BY <1>17, <1>f DEF CheckClear, hostVars, UsbTypeOK
  <2>e. PositionInv'
    BY <1>17, <1>f DEF CheckClear, hostVars, PositionInv
  <2> QED
    BY <2>a, <2>b, <2>c, <2>d, <2>e, <2>1 DEF UsbTypeOK
<1>18. CASE ClearHalt
  <2>1. ScpiTypeOK'
    BY <1>18, ScpiKept DEF ClearHalt, scpiVars
  <2> QED
    BY <1>18, <2>1 DEF ClearHalt, StartBusRead, appVars, hostVars, UsbTypeOK, DriverStates,
                       PositionInv
<1> QED
  BY <1>1, <1>2, <1>3, <1>4, <1>5, <1>6, <1>7, <1>8, <1>9, <1>10, <1>11, <1>12, <1>13,
     <1>14, <1>15, <1>16, <1>17, <1>18 DEF UsbStep, usbtmc_app_task_iter

\* The piece of a device_write is one of VXI-11.
LEMMA WritePiece ==
    ASSUME VxiTypeOK, Handles("device_write")
    PROVE  call.piece \in Pieces /\ call.piece.from = "vxi"
<1>1. call.piece \in Writes
  BY DEF VxiTypeOK, Handles, Calls
<1> QED
  BY <1>1, WritesAssumption

\* Every step on the network side keeps the types.
LEMMA VxiTypeStep ==
    ASSUME TypeOK, vxi11_server_task \/ ServerInit \/ ServerClose \/ VxiClient \/ ReadTimeout
    PROVE  VxiTypeOK' /\ ScpiTypeOK'
<1> USE DEF TypeOK
<1>1. CASE device_write
  <2>1. ScpiTypeOK'
    <3>1. call.piece \in Pieces /\ reply_len \in 0..ReplySize
      BY <1>1, WritePiece DEF device_write, ScpiTypeOK
    <3> QED
      BY <1>1, <3>1, InputStep DEF device_write
  <2> QED
    BY <1>1, <2>1 DEF device_write, Handles, VxiTypeOK
<1>2. CASE device_read
  <2>1. asked' \in [Transports -> Queries \cup {"none"}] /\ mixed' = mixed
    BY <1>2 DEF device_read, Void, ScpiTypeOK
  <2>2. reply_ready' \in BOOLEAN
    BY <1>2 DEF device_read
  <2>3. ScpiTypeOK'
    BY <1>2, <2>1, <2>2 DEF device_read, ScpiTypeOK
  <2> QED
    BY <1>2, <2>3 DEF device_read, Handles, VxiTypeOK
<1>3. CASE DropPart \/ device_read_waits \/ Acknowledge \/ UnknownProcedure \/ Disconnect \/ ListenAgain
  <2>1. ScpiTypeOK'
    BY <1>3, ScpiKept DEF DropPart, device_read_waits, Acknowledge, UnknownProcedure, Disconnect,
                          ListenAgain, scpiVars
  <2> QED
    BY <1>3, <2>1 DEF DropPart, device_read_waits, Acknowledge, UnknownProcedure, Disconnect,
                      ListenAgain, Handles, VxiTypeOK
<1>4. CASE ServerInit \/ ReadTimeout \/ Connect \/ SegmentArrives
  <2>1. ScpiTypeOK'
    BY <1>4, ScpiKept DEF ServerInit, ReadTimeout, Connect, SegmentArrives, scpiVars
  <2> QED
    BY <1>4, <2>1 DEF ServerInit, ReadTimeout, Connect, SegmentArrives, VxiTypeOK
<1>5. CASE ServerClose
  <2>1. ScpiTypeOK'
    BY <1>5, ScpiKept DEF ServerClose, Transports
  <2> QED
    BY <1>5, <2>1 DEF ServerClose, VxiTypeOK
<1>6. ASSUME NEW c \in Calls, ClientCalls(c) PROVE VxiTypeOK' /\ ScpiTypeOK'
  <2>1. ScpiTypeOK'
    BY <1>6, ScpiKept DEF ClientCalls, scpiVars
  <2> QED
    BY <1>6, <2>1 DEF ClientCalls, VxiTypeOK
<1>7. ASSUME NEW status \in {"CLOSE_WAIT", "CLOSED"}, ClientLeaves(status)
      PROVE  VxiTypeOK' /\ ScpiTypeOK'
  <2>1. ScpiTypeOK'
    BY <1>7, ScpiKept DEF ClientLeaves, Transports
  <2> QED
    BY <1>7, <2>1 DEF ClientLeaves, VxiTypeOK
<1> QED
  BY <1>1, <1>2, <1>3, <1>4, <1>5, <1>6, <1>7 DEF vxi11_server_task, VxiClient

\* Every step keeps the variables in their types, and a transfer within its reply.
LEMMA TypeStep == TypeOK /\ PositionInv /\ [Next]_vars => TypeOK' /\ PositionInv'
<1> SUFFICES ASSUME TypeOK, PositionInv, [Next]_vars PROVE TypeOK' /\ PositionInv'
  OBVIOUS
<1>1. CASE UsbTask
  <2>1. UsbTypeOK' /\ ScpiTypeOK' /\ PositionInv'
    BY <1>1, UsbTypeStep DEF UsbTask
  <2>2. VxiTypeOK'
    BY <1>1 DEF UsbTask, vxiVars, TypeOK, VxiTypeOK
  <2> QED
    BY <2>1, <2>2 DEF TypeOK
<1>2. CASE NetTask \/ Outside
  <2>1. VxiTypeOK' /\ ScpiTypeOK'
    BY <1>2, VxiTypeStep DEF NetTask, Outside
  <2>2. UNCHANGED usbVars
    BY <1>2 DEF NetTask, Outside
  <2>3. UsbTypeOK' /\ PositionInv'
    BY <2>2 DEF usbVars, driverVars, appVars, hostVars, TypeOK, UsbTypeOK, PositionInv
  <2> QED
    BY <2>1, <2>3 DEF TypeOK
<1>3. CASE UNCHANGED vars
  <2>1. ScpiTypeOK'
    BY <1>3, ScpiKept DEF vars, scpiVars, TypeOK
  <2>2. UsbTypeOK' /\ PositionInv'
    BY <1>3 DEF vars, usbVars, driverVars, appVars, hostVars, TypeOK, UsbTypeOK, PositionInv
  <2>3. VxiTypeOK'
    BY <1>3 DEF vars, vxiVars, TypeOK, VxiTypeOK
  <2> QED
    BY <2>1, <2>2, <2>3 DEF TypeOK
<1> QED
  BY <1>1, <1>2, <1>3 DEF Next

\* The initial state is in the types.
LEMMA TypeInit == Init => TypeOK /\ PositionInv
<1> SUFFICES ASSUME Init PROVE TypeOK /\ PositionInv
  OBVIOUS
<1>a. error_active \in BOOLEAN /\ reply_ready \in BOOLEAN /\ mixed \in BOOLEAN
  BY DEF Init, ScpiInit
<1>b. bulkInStarted \in BOOLEAN /\ mav \in BOOLEAN
  BY DEF Init, UsbInit
<1>1. ScpiTypeOK
  <2>1. input \in Seq(Pieces) /\ reply_buf \in Seq(Units)
    BY DEF Init, ScpiInit
  <2>2. errors \in 0..QueueSize /\ reply_len \in 0..ReplySize
    BY ScpiAssumption DEF Init, ScpiInit
  <2>3. reply \in [1..ReplySize -> Units] /\ asked \in [Transports -> Queries \cup {"none"}]
    BY DEF Init, ScpiInit, Units
  <2> QED
    BY <1>a, <2>1, <2>2, <2>3 DEF ScpiTypeOK
<1>2. UsbTypeOK /\ PositionInv
  <2>1. /\ st \in DriverStates /\ out = "idle" /\ in = "idle" /\ remaining \in Nat
        /\ dev_in \in [from : {"reply", "buffer"}, pos : Nat] /\ PositionInv
    BY DEF Init, UsbInit, DriverStates, PositionInv
  <2>2. queryState \in 0..4 /\ buffer_len \in 0..BufferSize - 1 /\ buffer_tx_ix \in 0..BufferSize
    BY MessageAssumption DEF Init, UsbInit
  <2>3. sending = NoMessage /\ got \in Seq(Units \cup {"echo"})
    BY DEF Init, UsbInit
  <2> QED
    BY <1>b, <2>1, <2>2, <2>3 DEF UsbTypeOK
<1>3. VxiTypeOK
  BY DEF Init, VxiInit, VxiTypeOK
<1> QED
  BY <1>1, <1>2, <1>3 DEF TypeOK

\* The variables of both transports keep their types, the error queue its bound, and
\* a transfer never reads past the reply buffer, whatever hosts and clients do.
THEOREM TypeCorrect == Spec => [](TypeOK /\ PositionInv)
  BY TypeInit, TypeStep, PTL DEF Spec

-----------------------------------------------------------------------------
(* The error LED and the reply to VXI-11.                                  *)

\* What a step may do to the parser: run it on a piece, take its reply to VXI-11, or
\* nothing.
LEMMA ParserStep ==
    ASSUME TypeOK, [Next]_vars
    PROVE  \/ \E p \in Pieces, n \in 0..ReplySize : SCPI_Main_Input(p, n)
           \/ device_read
           \/ UNCHANGED parserVars /\ asked'["vxi"] \in {asked["vxi"], "none"}
<1> DEFINE Kept == UNCHANGED parserVars /\ asked'["vxi"] \in {asked["vxi"], "none"}
<1>a. asked \in [Transports -> Queries \cup {"none"}] /\ "vxi" \in Transports /\ "usb" \in Transports
  BY DEF TypeOK, ScpiTypeOK, Transports
<1>k. ASSUME UNCHANGED scpiVars PROVE Kept
  BY <1>k DEF scpiVars
<1>t. ASSUME NEW m \in Messages, NEW left, Take(m, left), Listening
      PROVE  Kept \/ \E p \in Pieces, n \in 0..ReplySize : SCPI_Main_Input(p, n)
  <2>1. CASE AtEnd(m, left)
    <3>1. m.piece \in Pieces
      BY MessageAssumption
    <3>2. Chunk(m, left) \in Pieces
      BY <3>1 DEF Chunk, Pieces, Parts
    <3>3. SCPI_Main_Input(Chunk(m, left), 0) /\ 0 \in 0..ReplySize
      BY <1>t, <2>1, ScpiAssumption DEF Take, ReplyLenAtData
    <3> QED
      BY <3>2, <3>3
  <2>2. CASE ~AtEnd(m, left)
    BY <1>t, <1>a, <2>2 DEF Take, Void
  <2> QED
    BY <2>1, <2>2
<1>1. CASE UsbTask
  <2>1. CASE \E m \in Messages : SendMessage(m)
    <3>1. PICK m \in Messages : SendMessage(m)
      BY <2>1
    <3>2. CASE Take(m, m.len)
      BY <3>1, <3>2, <1>t DEF SendMessage
    <3>3. CASE Refuse(m, m.len)
      BY <3>3, <1>k DEF Refuse
    <3> QED
      BY <3>1, <3>2, <3>3 DEF SendMessage
  <2>2. CASE SendMore
    <3>1. sending.msg \in Messages
      BY <2>2 DEF SendMore, TypeOK, UsbTypeOK
    <3>2. CASE Take(sending.msg, sending.left)
      BY <2>2, <3>1, <3>2, <1>t DEF SendMore
    <3>3. CASE Refuse(sending.msg, sending.left) \/ Ignore
      BY <3>3, <1>k DEF Refuse, Ignore
    <3> QED
      BY <2>2, <3>2, <3>3 DEF SendMore
  <2>3. CASE BusReset \/ Open \/ TransferComplete \/ InitiateClear \/ AbortBulkIn
    BY <2>3, <1>a DEF BusReset, Open, TransferComplete, InitiateClear, AbortBulkIn, Void
  <2>4. CASE AppTransmitReply
    BY <2>4 DEF AppTransmitReply
  <2>5. CASE \/ RequestData \/ Trigger \/ AppQueried \/ AppDelayOver \/ AppReady
             \/ AppTransmitBuffer \/ TransferContinues \/ TransferAborted
             \/ \E small_tag \in BOOLEAN : AbortBulkOut(small_tag)
             \/ CheckAbortBulkIn \/ CheckClear \/ ClearHalt
    BY <2>5, <1>k DEF RequestData, Trigger, AppQueried, AppDelayOver, AppReady,
          AppTransmitBuffer, TransferContinues, TransferAborted, AbortBulkOut,
          CheckAbortBulkIn, CheckClear, ClearHalt
  <2> QED
    BY <1>1, <2>1, <2>2, <2>3, <2>4, <2>5 DEF UsbTask, UsbStep, usbtmc_app_task_iter
<1>2. CASE device_write
  <2>1. call.piece \in Pieces /\ reply_len \in 0..ReplySize
    BY <1>2, WritePiece DEF device_write, TypeOK, ScpiTypeOK
  <2> QED
    BY <1>2, <2>1 DEF device_write
<1>3. CASE \/ DropPart \/ device_read_waits \/ Acknowledge \/ UnknownProcedure \/ Disconnect
           \/ ListenAgain \/ ServerInit \/ ReadTimeout \/ Connect \/ SegmentArrives
           \/ \E c \in Calls : ClientCalls(c)
  BY <1>3, <1>k DEF DropPart, device_read_waits, Acknowledge, UnknownProcedure, Disconnect,
        ListenAgain, ServerInit, ReadTimeout, Connect, SegmentArrives, ClientCalls
<1>4. CASE ServerClose \/ \E status \in {"CLOSE_WAIT", "CLOSED"} : ClientLeaves(status)
  BY <1>4, <1>a DEF ServerClose, ClientLeaves, Void
<1>5. CASE UNCHANGED vars
  BY <1>5, <1>k DEF vars
<1> QED
  BY <1>1, <1>2, <1>3, <1>4, <1>5
     DEF Next, NetTask, Outside, vxi11_server_task, VxiClient

\* LED_R shows whether the error queue holds something, for any size of the queue.
THEOREM ErrorLed == Spec => []LedShowsErrors
<1>1. Init => LedShowsErrors
  BY DEF Init, ScpiInit, LedShowsErrors
<1>2. TypeOK /\ LedShowsErrors /\ [Next]_vars => LedShowsErrors'
  <2> SUFFICES ASSUME TypeOK, LedShowsErrors, [Next]_vars PROVE LedShowsErrors'
    OBVIOUS
  <2>1. CASE \E p \in Pieces, n \in 0..ReplySize : SCPI_Main_Input(p, n)
    BY <2>1, InputStep DEF TypeOK
  <2>2. CASE device_read \/ UNCHANGED parserVars
    BY <2>2 DEF device_read, parserVars, LedShowsErrors
  <2> QED
    BY <2>1, <2>2, ParserStep
<1> QED
  BY <1>1, <1>2, TypeCorrect, PTL DEF Spec

\* A VXI-11 client that reads gets the reply to its own query, unless USB has sent
\* something since.
THEOREM VxiReply == Spec => []VxiOwnReply
<1>1. Init => VxiOwnReply
  BY DEF Init, ScpiInit, VxiOwnReply, Transports
<1>2. TypeOK /\ VxiOwnReply /\ [Next]_vars => VxiOwnReply'
  <2> SUFFICES ASSUME TypeOK, VxiOwnReply, [Next]_vars, asked'["vxi"] # "none"
               PROVE  reply_ready' /\ reply_buf' = Text(asked'["vxi"])
    BY DEF VxiOwnReply
  <2>a. asked \in [Transports -> Queries \cup {"none"}] /\ "vxi" \in Transports
    BY DEF TypeOK, ScpiTypeOK, Transports
  <2>1. ASSUME NEW p \in Pieces, NEW n \in 0..ReplySize, SCPI_Main_Input(p, n)
        PROVE  reply_ready' /\ reply_buf' = Text(asked'["vxi"])
    <3>1. asked' = AskedAfter(p.from, p)
      BY <2>1 DEF SCPI_Main_Input
    <3>2. asked'["vxi"] = Executed(p) /\ Executed(p) \in Queries
      BY <2>a, <3>1 DEF AskedAfter, OwnQuery
    <3>3. reply_ready' = (Text(Executed(p)) # <<>>) /\ reply_buf' = Text(Executed(p))
      BY <2>1 DEF SCPI_Main_Input, ReplyBufAfter
    <3> QED
      BY <3>2, <3>3, TextType
  <2>2. CASE device_read
    BY <2>2, <2>a DEF device_read, Void
  <2>3. CASE UNCHANGED parserVars /\ asked'["vxi"] \in {asked["vxi"], "none"}
    <3>1. reply_ready' = reply_ready /\ reply_buf' = reply_buf /\ asked'["vxi"] = asked["vxi"]
      BY <2>3 DEF parserVars
    <3> QED
      BY <3>1 DEF VxiOwnReply
  <2> QED
    BY <2>1, <2>2, <2>3, ParserStep
<1> QED
  BY <1>1, <1>2, TypeCorrect, PTL DEF Spec

-----------------------------------------------------------------------------
(* The driver, its endpoints and MAV.                                      *)

\* The steps of the network side, and stuttering, leave the USB side alone.
LEMMA UsbOrNot == [Next]_vars => UsbStep \/ UNCHANGED usbVars
BY DEF Next, UsbTask, NetTask, Outside, vars

\* Driver state and endpoints agree in every reachable state: the driver never waits
\* for an event that cannot come.
THEOREM DriverAndEndpoints == Spec => []EndpointsMatchState
<1>1. Init => EndpointsMatchState
  BY DEF Init, UsbInit, EndpointsMatchState
<1>2. TypeOK /\ EndpointsMatchState /\ [Next]_vars => EndpointsMatchState'
  <2> SUFFICES ASSUME TypeOK, EndpointsMatchState, UsbStep PROVE EndpointsMatchState'
    BY UsbOrNot DEF usbVars, driverVars, appVars, EndpointsMatchState
  <2>0. /\ st \in DriverStates /\ out \in {"idle", "armed", "stalled"} /\ in \in {"idle", "busy"}
        /\ buffer_len \in Nat /\ buffer_tx_ix \in Nat /\ BufferSize \in Nat \ {0}
    BY MessageAssumption DEF TypeOK, UsbTypeOK
  <2> USE DEF EndpointsMatchState
  <2>1. CASE BusReset
    BY <2>0, <2>1 DEF BusReset
  <2>2. CASE Open
    BY <2>0, <2>2 DEF Open, StartBusRead
  <2>3. ASSUME NEW m, NEW left, Listening, Take(m, left) PROVE EndpointsMatchState'
    BY <2>0, <2>3 DEF Listening, Take, StartBusRead
  <2>4. ASSUME NEW m, NEW left, Listening, Refuse(m, left) PROVE EndpointsMatchState'
    BY <2>0, <2>4 DEF Listening, Refuse
  <2>5. CASE Listening /\ Ignore
    BY <2>0, <2>5 DEF Listening, Ignore
  <2>6. CASE RequestData
    BY <2>0, <2>6 DEF RequestData, Listening
  <2>7. CASE Trigger
    BY <2>0, <2>7 DEF Trigger, Listening
  <2>8. CASE AppQueried \/ AppDelayOver \/ AppReady
    BY <2>0, <2>8 DEF AppQueried, AppDelayOver, AppReady, driverVars
  <2>9. CASE AppTransmitReply
    BY <2>0, <2>9 DEF AppTransmitReply, Transmit
  <2>10. CASE AppTransmitBuffer
    BY <2>0, <2>10 DEF AppTransmitBuffer, Transmit
  <2>11. CASE TransferComplete
    BY <2>0, <2>11 DEF TransferComplete, StartBusRead
  <2>12. CASE TransferContinues
    BY <2>0, <2>12 DEF TransferContinues, appVars
  <2>13. CASE TransferAborted
    BY <2>0, <2>13 DEF TransferAborted, appVars, HostTakes
  <2>14. ASSUME NEW small_tag \in BOOLEAN, AbortBulkOut(small_tag) PROVE EndpointsMatchState'
    BY <2>0, <2>14 DEF AbortBulkOut, appVars
  <2>15. CASE AbortBulkIn
    BY <2>0, <2>15 DEF AbortBulkIn
  <2>16. CASE CheckAbortBulkIn
    BY <2>0, <2>16 DEF CheckAbortBulkIn, StartBusRead, appVars
  <2>17. CASE InitiateClear
    BY <2>0, <2>17 DEF InitiateClear
  <2>18. CASE CheckClear
    BY <2>0, <2>18 DEF CheckClear
  <2>19. CASE ClearHalt
    BY <2>0, <2>19 DEF ClearHalt, StartBusRead, appVars
  <2> QED
    BY <2>1, <2>2, <2>3, <2>4, <2>5, <2>6, <2>7, <2>8, <2>9, <2>10, <2>11, <2>12, <2>13,
       <2>14, <2>15, <2>16, <2>17, <2>18, <2>19
       DEF UsbStep, SendMessage, SendMore, usbtmc_app_task_iter
<1> QED
  BY <1>1, <1>2, TypeCorrect, PTL DEF Spec

\* MAV is set whenever the application is ready to answer a read.
THEOREM MavSet == Spec => []MavBeforeReply
<1>1. Init => MavBeforeReply
  BY DEF Init, UsbInit, MavBeforeReply
<1>2. MavBeforeReply /\ [Next]_vars => MavBeforeReply'
  <2> SUFFICES ASSUME MavBeforeReply, UsbStep PROVE MavBeforeReply'
    BY UsbOrNot DEF usbVars, appVars, MavBeforeReply
  <2> USE DEF MavBeforeReply
  <2>1. CASE Open \/ InitiateClear \/ CheckClear \/ AppTransmitReply
    BY <2>1 DEF Open, InitiateClear, CheckClear, AppTransmitReply
  <2>2. ASSUME NEW m, NEW left, Take(m, left) \/ Refuse(m, left) PROVE MavBeforeReply'
    BY <2>2 DEF Take, Refuse
  <2>3. CASE AppQueried \/ AppDelayOver \/ AppReady
    BY <2>3 DEF AppQueried, AppDelayOver, AppReady
  <2>4. CASE TransferComplete
    BY <2>4 DEF TransferComplete
  <2>5. CASE \/ BusReset \/ Ignore \/ RequestData \/ Trigger \/ AppTransmitBuffer
             \/ TransferContinues \/ TransferAborted
             \/ \E small_tag \in BOOLEAN : AbortBulkOut(small_tag)
             \/ AbortBulkIn \/ CheckAbortBulkIn \/ ClearHalt
    BY <2>5 DEF BusReset, Ignore, RequestData, Trigger, AppTransmitBuffer, TransferContinues,
          TransferAborted, AbortBulkOut, AbortBulkIn, CheckAbortBulkIn, ClearHalt, appVars
  <2> QED
    BY <2>1, <2>2, <2>3, <2>4, <2>5 DEF UsbStep, SendMessage, SendMore, usbtmc_app_task_iter
<1> QED
  BY <1>1, <1>2, PTL DEF Spec

\* The assertion in the read request callback holds in every reachable state.
THEOREM ReadsDoNotOverlap == Spec => []NoOverlappingReads
<1>1. Init => ReadInv
  BY DEF Init, UsbInit, ReadInv
<1>2. TypeOK /\ ReadInv /\ [Next]_vars => ReadInv'
  <2> SUFFICES ASSUME TypeOK, ReadInv, UsbStep PROVE ReadInv'
    BY UsbOrNot DEF usbVars, driverVars, appVars, ReadInv
  <2>0. st \in DriverStates /\ buffer_len \in Nat
    BY MessageAssumption DEF TypeOK, UsbTypeOK
  <2> USE DEF ReadInv
  <2>1. CASE BusReset \/ Open \/ AppTransmitReply \/ AbortBulkIn \/ InitiateClear \/ CheckClear
    BY <2>1 DEF BusReset, Open, AppTransmitReply, AbortBulkIn, InitiateClear, CheckClear, appVars
  <2>2. ASSUME NEW m, NEW left, Listening, Take(m, left) \/ Refuse(m, left) PROVE ReadInv'
    BY <2>2 DEF Listening, Take, Refuse
  <2>3. CASE Ignore \/ RequestData \/ Trigger
    BY <2>3 DEF Ignore, RequestData, Trigger, appVars
  <2>4. CASE AppQueried \/ AppDelayOver \/ AppReady
    BY <2>4 DEF AppQueried, AppDelayOver, AppReady, driverVars
  <2>5. CASE AppTransmitBuffer
    BY <2>5 DEF AppTransmitBuffer, Transmit
  <2>6. CASE TransferComplete \/ TransferContinues
    BY <2>6 DEF TransferComplete, TransferContinues, appVars
  <2>7. CASE TransferAborted \/ CheckAbortBulkIn \/ ClearHalt
    BY <2>7 DEF TransferAborted, CheckAbortBulkIn, ClearHalt, appVars
  <2>8. CASE \E small_tag \in BOOLEAN : AbortBulkOut(small_tag)
    BY <2>8 DEF AbortBulkOut, appVars
  <2> QED
    BY <2>1, <2>2, <2>3, <2>4, <2>5, <2>6, <2>7, <2>8
       DEF UsbStep, SendMessage, SendMore, usbtmc_app_task_iter
<1>3. ReadInv => NoOverlappingReads
  BY DEF ReadInv, NoOverlappingReads
<1> QED
  BY <1>1, <1>2, <1>3, TypeCorrect, PTL DEF Spec

-----------------------------------------------------------------------------
(* The reply to USB.                                                       *)

\* An empty text leaves the reply buffer as it is.
LEMMA StoredNothing ==
    ASSUME ScpiTypeOK, NEW n \in 0..ReplySize
    PROVE  Stored(<<>>, n) = reply /\ StoredLen(<<>>, n) = n
<1>1. reply = [i \in 1..ReplySize |-> reply[i]]
  BY DEF ScpiTypeOK
<1>2. \A i \in 1..ReplySize : ~(i \in n + 1 .. n + Len(<<>>))
  BY ScpiAssumption
<1>3. Stored(<<>>, n) = reply
  BY <1>1, <1>2 DEF Stored
<1>4. StoredLen(<<>>, n) = n
  BY ScpiAssumption DEF StoredLen, Fits
<1> QED
  BY <1>3, <1>4

\* A text that is not longer than any reply is stored whole from the start of the
\* buffer when reply_len was reset.
LEMMA StoredText ==
    ASSUME NEW text \in Seq(Units), Len(text) <= ReplySize
    PROVE  /\ \A i \in 1..Len(text) : Stored(text, 0)[i] = text[i]
           /\ StoredLen(text, 0) = Len(text)
<1>1. Len(text) \in Nat /\ ReplySize \in Nat /\ 0 + Len(text) = Len(text)
  BY ScpiAssumption
<1>2. Fits(text, 0)
  BY <1>1 DEF Fits
<1>3. StoredLen(text, 0) = Len(text)
  BY <1>1, <1>2 DEF StoredLen
<1>4. ASSUME NEW i \in 1..Len(text) PROVE Stored(text, 0)[i] = text[i]
  <2>1. i \in 1..ReplySize /\ i \in 0 + 1 .. 0 + Len(text) /\ i - 0 = i
    BY <1>1
  <2> QED
    BY <1>2, <2>1 DEF Stored
<1> QED
  BY <1>3, <1>4

\* So is the reply to a query.
LEMMA StoredQuery ==
    ASSUME NEW cmd \in Queries
    PROVE  /\ \A i \in 1..Len(Text(cmd)) : Stored(Text(cmd), 0)[i] = Text(cmd)[i]
           /\ StoredLen(Text(cmd), 0) = Len(Text(cmd))
<1>1. Text(cmd) \in Seq(Units) /\ Len(Text(cmd)) \in 0..2
  BY TextType
<1>2. \A n \in 0..2 : n <= ReplySize
  BY ScpiAssumption
<1> QED
  BY <1>1, <1>2, StoredText

\* A text stored at index n leaves what comes before it.
LEMMA StoredBehind ==
    ASSUME ScpiTypeOK, NEW text \in Seq(Units), NEW n \in 0..ReplySize
    PROVE  /\ \A i \in 1..n : Stored(text, n)[i] = reply[i]
           /\ StoredLen(text, n) >= n
<1>1. Len(text) \in Nat /\ ReplySize \in Nat
  BY ScpiAssumption
<1>2. ASSUME NEW i \in 1..n PROVE Stored(text, n)[i] = reply[i]
  <2>1. i \in 1..ReplySize /\ i \notin n + 1 .. n + Len(text)
    BY <1>1
  <2> QED
    BY <2>1 DEF Stored
<1>3. StoredLen(text, n) >= n
  BY <1>1 DEF StoredLen
<1> QED
  BY <1>2, <1>3

\* The network side leaves the reply of USB as it is, or writes one of its own to it.
LEMMA NetStep ==
    ASSUME TypeOK, vxi11_server_task \/ ServerInit \/ ServerClose \/ VxiClient \/ ReadTimeout
    PROVE  /\ asked'["usb"] = asked["usb"]
           /\ \/ UNCHANGED <<reply, reply_len, mixed>>
              \/ \E q \in Queries :
                    /\ mixed' = (mixed \/ asked["usb"] # "none")
                    /\ reply' = Stored(Text(q), reply_len)
                    /\ reply_len' = StoredLen(Text(q), reply_len)
<1>a. /\ asked \in [Transports -> Queries \cup {"none"}] /\ ScpiTypeOK
      /\ "vxi" \in Transports /\ "usb" \in Transports /\ mixed \in BOOLEAN
  BY DEF TypeOK, ScpiTypeOK, Transports
<1>1. CASE device_write
  <2> DEFINE p == call.piece
  <2>1. p \in Pieces /\ p.from = "vxi" /\ SCPI_Main_Input(p, reply_len) /\ reply_len \in 0..ReplySize
    BY <1>1, WritePiece DEF device_write, TypeOK, ScpiTypeOK
  <2> HIDE DEF p
  <2>2. asked'["usb"] = asked["usb"]
    BY <1>a, <2>1 DEF SCPI_Main_Input, AskedAfter
  <2>3. CASE Text(Executed(p)) = <<>>
    <3>1. reply' = reply /\ reply_len' = reply_len
      BY <1>a, <2>1, <2>3, StoredNothing DEF SCPI_Main_Input
    <3>2. mixed' = mixed
      BY <1>a, <2>1, <2>3 DEF SCPI_Main_Input, MixedAfter
    <3> QED
      BY <2>2, <3>1, <3>2
  <2>4. CASE Text(Executed(p)) # <<>>
    <3>1. PICK q \in Queries : q = Executed(p)
      BY <2>4, TextType
    <3>2. mixed' = (mixed \/ asked["usb"] # "none")
      BY <1>a, <2>1, <2>4 DEF SCPI_Main_Input, MixedAfter
    <3>3. reply' = Stored(Text(q), reply_len) /\ reply_len' = StoredLen(Text(q), reply_len)
      BY <2>1, <3>1 DEF SCPI_Main_Input
    <3> QED
      BY <2>2, <3>2, <3>3
  <2> QED
    BY <2>3, <2>4
<1>2. CASE device_read \/ ServerClose \/ \E status \in {"CLOSE_WAIT", "CLOSED"} : ClientLeaves(status)
  BY <1>2, <1>a DEF device_read, ServerClose, ClientLeaves, Void
<1>3. CASE \/ DropPart \/ device_read_waits \/ Acknowledge \/ UnknownProcedure \/ Disconnect
           \/ ListenAgain \/ ServerInit \/ ReadTimeout \/ Connect \/ SegmentArrives
           \/ \E c \in Calls : ClientCalls(c)
  BY <1>3 DEF DropPart, device_read_waits, Acknowledge, UnknownProcedure, Disconnect,
        ListenAgain, ServerInit, ReadTimeout, Connect, SegmentArrives, ClientCalls, scpiVars
<1> QED
  BY <1>1, <1>2, <1>3 DEF vxi11_server_task, VxiClient

\* A chunk that is taken leaves USB without a reply, or with the whole of its own.
LEMMA TakeOwn ==
    ASSUME TypeOK, OwnReplyInv, NEW m \in Messages, NEW left, Take(m, left), Listening
    PROVE  OwnReplyInv'
<1>a. asked \in [Transports -> Queries \cup {"none"}] /\ ScpiTypeOK /\ "usb" \in Transports
  BY DEF TypeOK, ScpiTypeOK, Transports
<1>b. st' \in {"IDLE", "RCV"} /\ UNCHANGED <<bulkInStarted, buffer_tx_ix>>
  BY DEF Take, StartBusRead
<1>1. NothingOwed' /\ RequestKnown'
  BY <1>b DEF NothingOwed, RequestKnown, OwnReplyInv, Listening
<1>2. CASE AtEnd(m, left)
  <2> DEFINE p == Chunk(m, left)
  <2>1. m.piece \in Pieces /\ m.piece.from = "usb"
    BY MessageAssumption
  <2>2. p \in Pieces /\ p.from = "usb"
    BY <2>1 DEF Chunk, Pieces, Parts
  <2> HIDE DEF p
  <2>3. SCPI_Main_Input(p, 0) /\ queryState' = 1
    BY <1>2 DEF Take, ReplyLenAtData, p
  <2>4. asked' = AskedAfter("usb", p)
    BY <2>2, <2>3 DEF SCPI_Main_Input
  <2>5. asked'["usb"] = "none" \/ (asked'["usb"] = Executed(p) /\ Executed(p) \in Queries)
    BY <1>a, <2>4 DEF AskedAfter, OwnQuery
  <2>6. CASE asked'["usb"] = "none"
    BY <1>1, <2>6 DEF OwnReplyInv
  <2>7. CASE asked'["usb"] = Executed(p) /\ Executed(p) \in Queries
    <3>0. PICK q \in Queries : q = Executed(p)
      BY <2>7
    <3>1. reply' = Stored(Text(q), 0) /\ reply_len' = StoredLen(Text(q), 0) /\ asked'["usb"] = q
      BY <2>3, <2>7, <3>0 DEF SCPI_Main_Input
    <3>2. /\ \A i \in 1..Len(Text(q)) : Stored(Text(q), 0)[i] = Text(q)[i]
          /\ StoredLen(Text(q), 0) = Len(Text(q))
      BY <1>a, StoredQuery
    <3>a. Len(Text(q)) \in Nat
      BY TextType
    <3>3. ReplyKept(Text(q))'
      BY <1>b, <2>3, <3>1, <3>2, <3>a DEF ReplyKept, Sending
    <3>4. ReplyKept(Text(asked["usb"]))'
      BY <3>1, <3>3
    <3> QED
      BY <1>1, <3>4 DEF OwnReplyInv
  <2> QED
    BY <2>5, <2>6, <2>7
<1>3. CASE ~AtEnd(m, left)
  <2>1. asked'["usb"] = "none"
    BY <1>3, <1>a DEF Take, Void
  <2> QED
    BY <1>1, <2>1 DEF OwnReplyInv
<1> QED
  BY <1>2, <1>3

\* A prefix with the next element added is the next prefix.
LEMMA PrefixGrows ==
    ASSUME NEW own \in Seq(Units), NEW n \in Nat, n < Len(own)
    PROVE  /\ Append(SubSeq(own, 1, n), own[n + 1]) = SubSeq(own, 1, n + 1)
           /\ SubSeq(own, 1, Len(own)) = own
           /\ <<own[1]>> = SubSeq(own, 1, 1)
OBVIOUS

\* A step between states in which nothing is being transferred keeps what is owed.
LEMMA KeptOwn ==
    ASSUME OwnReplyInv, NothingOwed', RequestKnown',
           UNCHANGED <<reply, reply_len, asked, mixed, queryState, buffer_tx_ix>>,
           st \notin {"TX_INITIATED", "TX_SHORTED"}, st' \notin {"TX_INITIATED", "TX_SHORTED"}
    PROVE  OwnReplyInv'
BY DEF OwnReplyInv, ReplyKept, Sending

\* Every step on the USB side keeps what is owed.
LEMMA UsbOwnStep ==
    ASSUME TypeOK, PositionInv, OwnReplyInv, UsbStep
    PROVE  OwnReplyInv'
<1>a. asked \in [Transports -> Queries \cup {"none"}] /\ ScpiTypeOK /\ "usb" \in Transports
  BY DEF TypeOK, ScpiTypeOK, Transports
<1>0. /\ st \in DriverStates /\ remaining \in Nat /\ queryState \in 0..4
      /\ buffer_len \in Nat /\ buffer_tx_ix \in Nat /\ got \in Seq(Units \cup {"echo"})
      /\ BufferSize \in Nat \ {0} /\ Request \in Nat /\ Request >= ReplySize
      /\ ReplySize \in Nat /\ reply_len \in 0..ReplySize
  BY MessageAssumption, ScpiAssumption DEF TypeOK, UsbTypeOK, ScpiTypeOK
<1>i. NothingOwed /\ RequestKnown
  BY DEF OwnReplyInv
<1>k. ASSUME NEW q \in Queries, asked["usb"] = q, buffer_tx_ix = 0
      PROVE  ReplyKept(Text(q)) /\ Text(q) \in Seq(Units) /\ Len(Text(q)) \in 1..2
  BY <1>k, TextType DEF OwnReplyInv, Queries
<1>1. CASE BusReset \/ Open \/ TransferComplete \/ InitiateClear
  <2>1. asked'["usb"] = "none"
    BY <1>1, <1>a DEF BusReset, Open, TransferComplete, InitiateClear, Void
  <2>2. RequestKnown'
    BY <1>1, <1>i DEF BusReset, Open, TransferComplete, InitiateClear, RequestKnown, appVars
  <2> QED
    BY <2>1, <2>2 DEF OwnReplyInv, NothingOwed
<1>2. ASSUME NEW m \in Messages, NEW left, Take(m, left), Listening PROVE OwnReplyInv'
  BY <1>2, TakeOwn
<1>3. ASSUME NEW m, NEW left, Refuse(m, left), Listening PROVE OwnReplyInv'
  <2>1. NothingOwed' /\ RequestKnown'
    BY <1>3, <1>i DEF Refuse, Listening, NothingOwed, RequestKnown
  <2> QED
    BY <1>3, <2>1, KeptOwn DEF Refuse, Listening, scpiVars
<1>4. CASE (Ignore \/ Trigger) /\ Listening
  <2>1. NothingOwed' /\ RequestKnown'
    BY <1>4, <1>i DEF Ignore, Trigger, Listening, NothingOwed, RequestKnown, appVars, scpiVars
  <2> QED
    BY <1>4, <2>1, KeptOwn DEF Ignore, Trigger, Listening, appVars, scpiVars
<1>5. CASE RequestData
  <2>1. CASE queryState = 0 \/ buffer_tx_ix = 0
    <3>1. NothingOwed' /\ RequestKnown'
      BY <1>5, <2>1 DEF RequestData, NothingOwed, RequestKnown
    <3> QED
      BY <1>5, <2>1, <3>1, KeptOwn DEF RequestData, Listening, scpiVars
  <2>2. CASE ~(queryState = 0 \/ buffer_tx_ix = 0)
    <3>1. buffer_tx_ix' # 0
      BY <1>5, <2>2, <1>0 DEF RequestData
    <3>2. st' \in {"TX_REQUESTED", "TX_SHORTED", "TX_INITIATED"}
      BY <1>5, <2>2 DEF RequestData
    <3> QED
      BY <3>1, <3>2 DEF OwnReplyInv, NothingOwed, RequestKnown
  <2> QED
    BY <2>1, <2>2
<1>6. CASE AppQueried \/ AppDelayOver \/ AppReady
  <2>1. /\ UNCHANGED <<st, remaining, dev_in, bulkInStarted, buffer_tx_ix, got, reply, reply_len, asked, mixed>>
        /\ queryState # 0 /\ queryState' # 0
    BY <1>6 DEF AppQueried, AppDelayOver, AppReady, driverVars, hostVars, scpiVars
  <2>2. NothingOwed' /\ RequestKnown'
    BY <1>i, <2>1 DEF NothingOwed, RequestKnown
  <2> QED
    BY <2>1, <2>2 DEF OwnReplyInv, ReplyKept, Sending
<1>7. CASE AppTransmitReply
  <2>1. /\ queryState = 4 /\ bulkInStarted /\ buffer_tx_ix = 0 /\ reply_len > 0
        /\ Transmit("reply", 1, reply_len) /\ queryState' = 0 /\ ~bulkInStarted'
        /\ UNCHANGED <<buffer_tx_ix, reply, asked, mixed>>
    BY <1>7 DEF AppTransmitReply
  <2>2. st' = st \/ st' \in {"TX_SHORTED", "TX_INITIATED"}
    BY <2>1 DEF Transmit
  <2>3. NothingOwed' /\ RequestKnown'
    BY <1>i, <2>1, <2>2 DEF NothingOwed, RequestKnown
  <2>4. CASE asked["usb"] = "none"
    BY <2>1, <2>3, <2>4 DEF OwnReplyInv
  <2>5. ASSUME NEW q \in Queries, asked["usb"] = q PROVE OwnReplyInv'
    <3> DEFINE own == Text(q)
    <3>1. ReplyKept(own) /\ own \in Seq(Units) /\ Len(own) \in 1..2
      BY <1>k, <2>1, <2>5
    <3> HIDE DEF own
    <3>3. "none" \notin Queries
      BY DEF Queries
    <3>4. st = "TX_REQUESTED" /\ remaining = Request
      BY <1>i, <2>1, <2>5, <3>3 DEF NothingOwed, RequestKnown
    <3>2. /\ \A i \in 1..Len(own) : reply[i] = own[i]
          /\ ~mixed => reply_len = Len(own)
          /\ reply[1] = own[1]
      BY <3>1, <3>4 DEF ReplyKept, Sending
    <3>5. /\ st' = (IF reply_len = 1 THEN "TX_SHORTED" ELSE "TX_INITIATED")
          /\ remaining' = reply_len - 1
          /\ dev_in' = [from |-> "reply", pos |-> 2]
          /\ got' = <<own[1]>>
      BY <1>0, <2>1, <3>2, <3>4 DEF Transmit, UnitAt
    <3>6. got' = SubSeq(own, 1, 1) /\ Len(got') = 1
      BY <3>1, <3>5, PrefixGrows
    <3>7. ReplyKept(own)'
      BY <1>0, <2>1, <3>2, <3>5, <3>6 DEF ReplyKept, Sending, own
    <3> QED
      BY <2>1, <2>3, <2>5, <3>7 DEF OwnReplyInv, own
  <2> QED
    BY <1>a, <2>4, <2>5
<1>8. CASE AppTransmitBuffer
  <2>1. /\ queryState = 4 /\ bulkInStarted /\ buffer_tx_ix = 0 /\ reply_len = 0
        /\ Transmit("buffer", 0, buffer_len) /\ buffer_tx_ix' = buffer_len
        /\ UNCHANGED <<asked, bulkInStarted>>
    BY <1>8 DEF AppTransmitBuffer, scpiVars
  <2>2. asked["usb"] = "none"
    <3> SUFFICES ASSUME NEW q \in Queries, asked["usb"] = q PROVE FALSE
      BY <1>a
    <3>1. ReplyKept(Text(q)) /\ Len(Text(q)) \in 1..2
      BY <1>k, <2>1
    <3> QED
      BY <2>1, <3>1 DEF ReplyKept, Sending
  <2>3. st' = st \/ st' \in {"TX_SHORTED", "TX_INITIATED"}
    BY <2>1 DEF Transmit
  <2>4. buffer_len = 0 => UNCHANGED <<st, remaining>>
    BY <2>1 DEF Transmit
  <2> QED
    BY <1>i, <2>1, <2>2, <2>3, <2>4 DEF OwnReplyInv, NothingOwed, RequestKnown
<1>9. CASE TransferContinues
  <2>1. /\ st = "TX_INITIATED"
        /\ st' = (IF remaining > 1 THEN "TX_INITIATED" ELSE "TX_SHORTED")
        /\ remaining' = (IF remaining > 1 THEN remaining - 1 ELSE 0)
        /\ got' = Append(got, UnitAt(dev_in.from, dev_in.pos))
        /\ dev_in' = [dev_in EXCEPT !.pos = IF dev_in.from = "reply" THEN @ + 1 ELSE 0]
        /\ UNCHANGED <<queryState, bulkInStarted, buffer_tx_ix, asked, mixed, reply>>
    BY <1>9 DEF TransferContinues, appVars, scpiVars
  <2>2. NothingOwed' /\ RequestKnown'
    BY <1>i, <2>1 DEF NothingOwed, RequestKnown
  <2>3. CASE asked["usb"] = "none" \/ buffer_tx_ix # 0
    BY <2>1, <2>2, <2>3 DEF OwnReplyInv
  <2>4. ASSUME NEW q \in Queries, asked["usb"] = q, buffer_tx_ix = 0 PROVE OwnReplyInv'
    <3> DEFINE own == Text(q)
    <3> DEFINE n == Len(got)
    <3>1. ReplyKept(own) /\ own \in Seq(Units) /\ Len(own) \in 1..2
      BY <1>k, <2>4
    <3> HIDE DEF own
    <3>2. /\ queryState = 0 /\ dev_in = [from |-> "reply", pos |-> n + 1]
      BY <2>1, <3>1 DEF ReplyKept
    <3>3. remaining > 0 /\ n \in Nat /\ Len(got') = n + 1 /\ remaining' = remaining - 1
      BY <1>0, <2>1 DEF PositionInv
    <3>4. /\ dev_in' = [from |-> "reply", pos |-> Len(got') + 1] /\ queryState' = 0
          /\ st' = "TX_SHORTED" => remaining' = 0
      BY <1>0, <2>1, <3>2, <3>3
    <3>5. ASSUME ~mixed
          PROVE  /\ \A i \in 1..Len(own) : reply'[i] = own[i]
                 /\ remaining' = Len(own) - Len(got')
                 /\ got' = SubSeq(own, 1, Len(got'))
      <4>1. /\ remaining = Len(own) - n /\ got = SubSeq(own, 1, n)
            /\ \A i \in 1..Len(own) : reply[i] = own[i]
        BY <2>1, <3>1, <3>5 DEF ReplyKept, Sending
      <4> HIDE DEF n
      <4>2. n < Len(own) /\ n + 1 \in 1..Len(own)
        BY <3>1, <3>3, <4>1
      <4>3. got' = Append(SubSeq(own, 1, n), own[n + 1])
        BY <2>1, <3>2, <4>1, <4>2 DEF UnitAt
      <4>4. got' = SubSeq(own, 1, n + 1)
        BY <3>1, <3>3, <4>2, <4>3, PrefixGrows
      <4>5. remaining' = Len(own) - (n + 1)
        BY <3>1, <3>3, <4>1
      <4> QED
        BY <2>1, <3>3, <4>1, <4>4, <4>5
    <3>6. own' = own /\ mixed' = mixed /\ st' \in {"TX_INITIATED", "TX_SHORTED"}
      BY <2>1 DEF own
    <3>7. ReplyKept(own)'
      BY <3>3, <3>4, <3>5, <3>6 DEF ReplyKept, Sending
    <3> QED
      BY <2>1, <2>2, <2>4, <3>7 DEF OwnReplyInv, own
  <2> QED
    BY <1>a, <2>3, <2>4
<1>10. CASE \/ TransferAborted \/ CheckAbortBulkIn \/ ClearHalt
            \/ \E small_tag \in BOOLEAN : AbortBulkOut(small_tag)
  <2>1. /\ UNCHANGED <<remaining, appVars, scpiVars>>
        /\ st \notin {"TX_INITIATED", "TX_SHORTED", "TX_REQUESTED", "CLOSED"}
        /\ st' \notin {"TX_INITIATED", "TX_SHORTED", "TX_REQUESTED", "CLOSED"}
        /\ st' = "CLEARING" => st = "CLEARING"
    BY <1>10 DEF TransferAborted, CheckAbortBulkIn, ClearHalt, AbortBulkOut, StartBusRead
  <2>2. NothingOwed' /\ RequestKnown'
    BY <1>i, <2>1 DEF NothingOwed, RequestKnown, appVars, scpiVars
  <2> QED
    BY <2>1, <2>2, KeptOwn DEF appVars, scpiVars
<1>11. CASE AbortBulkIn
  <2>1. /\ st' = "ABORTING_BULK_IN_SHORTED" /\ ~bulkInStarted'
        /\ UNCHANGED <<queryState, buffer_tx_ix, reply, reply_len>>
    BY <1>11 DEF AbortBulkIn
  <2>2. NothingOwed' /\ RequestKnown'
    BY <2>1 DEF NothingOwed, RequestKnown
  <2>3. CASE st = "TX_REQUESTED"
    <3>1. UNCHANGED <<asked, mixed>>
      BY <1>11, <2>3 DEF AbortBulkIn
    <3> QED
      BY <2>1, <2>2, <2>3, <3>1, KeptOwn
  <2>4. CASE st # "TX_REQUESTED"
    <3>1. asked'["usb"] = "none"
      BY <1>11, <1>a, <2>4 DEF AbortBulkIn, Void
    <3> QED
      BY <2>2, <3>1 DEF OwnReplyInv
  <2> QED
    BY <2>3, <2>4
<1>12. CASE CheckClear
  <2>1. asked'["usb"] = "none" /\ ~bulkInStarted'
    BY <1>12, <1>i DEF CheckClear, NothingOwed, scpiVars
  <2> QED
    BY <2>1 DEF OwnReplyInv, NothingOwed, RequestKnown
<1>13. CASE \E m \in Messages : SendMessage(m)
  BY <1>13, <1>2, <1>3 DEF SendMessage
<1>14. CASE SendMore
  <2>1. sending.msg \in Messages
    BY <1>14 DEF SendMore, TypeOK, UsbTypeOK
  <2> QED
    BY <1>14, <2>1, <1>2, <1>3, <1>4 DEF SendMore
<1>15. CASE Trigger
  BY <1>15, <1>4 DEF Trigger
<1> QED
  BY <1>1, <1>5, <1>6, <1>7, <1>8, <1>9, <1>10, <1>11, <1>12, <1>13, <1>14, <1>15
     DEF UsbStep, usbtmc_app_task_iter

\* The network side keeps it too: what it writes goes behind a reply that waits.
LEMMA NetOwnStep ==
    ASSUME TypeOK, OwnReplyInv, UNCHANGED usbVars,
           vxi11_server_task \/ ServerInit \/ ServerClose \/ VxiClient \/ ReadTimeout
    PROVE  OwnReplyInv'
<1>a. asked'["usb"] = asked["usb"] /\ ScpiTypeOK /\ reply_len \in 0..ReplySize /\ ReplySize \in Nat
  BY NetStep, ScpiAssumption DEF TypeOK, ScpiTypeOK
<1>b. UNCHANGED <<st, remaining, dev_in, queryState, bulkInStarted, buffer_tx_ix, got>>
  BY DEF usbVars, driverVars, appVars, hostVars
<1>1. NothingOwed' /\ RequestKnown'
  BY <1>a, <1>b DEF OwnReplyInv, NothingOwed, RequestKnown
<1>2. CASE UNCHANGED <<reply, reply_len, mixed>>
  BY <1>a, <1>b, <1>1, <1>2 DEF OwnReplyInv, ReplyKept, Sending
<1>3. ASSUME NEW q \in Queries, mixed' = (mixed \/ asked["usb"] # "none"),
             reply' = Stored(Text(q), reply_len), reply_len' = StoredLen(Text(q), reply_len),
             asked["usb"] # "none", buffer_tx_ix = 0
      PROVE  ReplyKept(Text(asked["usb"]))'
  <2> DEFINE own == Text(asked["usb"])
  <2>1. ReplyKept(own) /\ own \in Seq(Units)
    BY <1>3, TextType DEF OwnReplyInv
  <2>2. own' = own
    BY <1>a
  <2> HIDE DEF own
  <2>3. /\ \A i \in 1..reply_len : reply'[i] = reply[i]
        /\ reply_len' >= reply_len
    BY <1>3, <1>a, StoredBehind, TextType
  <2>3a. mixed'
    BY <1>3
  <2>4. mixed' /\ Len(own) \in Nat
    BY <2>1, <2>3a
  <2>5. ~Sending => /\ reply_len' >= Len(own)
                    /\ \A i \in 1..Len(own) : reply'[i] = own[i]
    <3> SUFFICES ASSUME ~Sending
                 PROVE  /\ reply_len' >= Len(own)
                        /\ \A i \in 1..Len(own) : reply'[i] = own[i]
      OBVIOUS
    <3>1. reply_len >= Len(own) /\ \A i \in 1..Len(own) : reply[i] = own[i]
      BY <2>1 DEF ReplyKept
    <3>2. 1..Len(own) \subseteq 1..reply_len
      BY <1>a, <2>4, <3>1
    <3>3. reply_len' \in Nat
      BY <1>3, <1>a, StoredType DEF TypeOK
    <3> QED
      BY <1>a, <2>3, <2>4, <3>1, <3>2, <3>3
  <2>6. ReplyKept(own)'
    BY <1>b, <2>1, <2>2, <2>4, <2>5 DEF ReplyKept, Sending
  <2> QED
    BY <2>6 DEF own
<1> QED
  BY <1>a, <1>b, <1>1, <1>2, <1>3, NetStep DEF OwnReplyInv

\* OwnReplyInv is inductive.
LEMMA OwnReplyInvariant == Spec => []OwnReplyInv
<1>1. Init => OwnReplyInv
  BY DEF Init, UsbInit, ScpiInit, OwnReplyInv, NothingOwed, RequestKnown, Transports
<1>2. TypeOK /\ PositionInv /\ OwnReplyInv /\ [Next]_vars => OwnReplyInv'
  <2> SUFFICES ASSUME TypeOK, PositionInv, OwnReplyInv, [Next]_vars PROVE OwnReplyInv'
    OBVIOUS
  <2>1. CASE UsbTask
    BY <2>1, UsbOwnStep DEF UsbTask
  <2>2. CASE NetTask \/ Outside
    <3>1. UNCHANGED usbVars
      BY <2>2 DEF NetTask, Outside
    <3>2. vxi11_server_task \/ ServerInit \/ ServerClose \/ VxiClient \/ ReadTimeout
      BY <2>2 DEF NetTask, Outside
    <3> QED
      BY <3>1, <3>2, NetOwnStep
  <2>3. CASE UNCHANGED vars
    BY <2>3 DEF OwnReplyInv, NothingOwed, RequestKnown, ReplyKept, Sending, vars, usbVars, driverVars,
                appVars, hostVars, scpiVars
  <2> QED
    BY <2>1, <2>2, <2>3 DEF Next
<1> QED
  BY <1>1, <1>2, TypeCorrect, PTL DEF Spec

\* The reply to the query a USB host sent last waits for it, or is on its way unit by
\* unit, with nothing else in it as long as VXI-11 has made the instrument reply to
\* nothing since, and at least whole and first while it waits if it has.
THEOREM UsbReply == Spec => []UsbOwnReply
<1>1. TypeOK /\ OwnReplyInv => UsbOwnReply
  <2> SUFFICES ASSUME TypeOK, OwnReplyInv, asked["usb"] # "none", buffer_tx_ix = 0
               PROVE  LET own == Text(asked["usb"])
                      IN  IF Sending
                          THEN mixed \/ /\ got = SubSeq(own, 1, Len(got))
                                        /\ st = "TX_SHORTED" => Len(got) = Len(own)
                          ELSE /\ queryState # 0 /\ reply_len >= Len(own)
                               /\ \A i \in 1..Len(own) : reply[i] = own[i]
                               /\ mixed \/ reply_len = Len(own)
    BY DEF UsbOwnReply
  <2> DEFINE own == Text(asked["usb"])
  <2>1. Len(own) \in Nat /\ Len(got) \in Nat /\ ReplyKept(own)
    BY TextType DEF OwnReplyInv, TypeOK, UsbTypeOK
  <2> HIDE DEF own
  <2>2. CASE Sending
    BY <2>1, <2>2 DEF ReplyKept, own
  <2>3. CASE ~Sending
    BY <2>1, <2>3 DEF ReplyKept, own
  <2> QED
    BY <2>2, <2>3
<1> QED
  BY <1>1, TypeCorrect, OwnReplyInvariant, PTL

\* The reply that usbtmc_app_task_iter forgets is one the driver has taken, all of it.
THEOREM ReplyTaken == Spec => ReplyForgottenWhenTaken
<1> DEFINE Forgets == /\ reply_len > 0 /\ reply_len' = 0
                      /\ bulkInStarted /\ ~bulkInStarted' /\ st # "CLOSED"
           Taken == st' \in {"TX_INITIATED", "TX_SHORTED"} /\ remaining' = reply_len - 1
<1>1. TypeOK /\ OwnReplyInv /\ [Next]_vars => (Forgets => Taken)
  <2> SUFFICES ASSUME TypeOK, OwnReplyInv, [Next]_vars, Forgets PROVE Taken
    OBVIOUS
  <2>1. UsbStep
    BY UsbOrNot DEF usbVars, appVars
  <2>2. AppTransmitReply
    <3>1. ASSUME NEW m, NEW left PROVE ~Take(m, left) /\ ~Refuse(m, left)
      BY DEF Take, Refuse
    <3>2. /\ ~BusReset /\ ~Open /\ ~Ignore /\ ~RequestData /\ ~Trigger
      BY DEF BusReset, Open, Ignore, RequestData, Trigger, appVars, scpiVars
    <3>3. /\ ~AppQueried /\ ~AppDelayOver /\ ~AppReady /\ ~AppTransmitBuffer
      BY DEF AppQueried, AppDelayOver, AppReady, AppTransmitBuffer, scpiVars
    <3>a. reply_len' # reply_len  OBVIOUS
    <3>b. bulkInStarted' # bulkInStarted  OBVIOUS
    <3>4. /\ ~TransferComplete /\ ~TransferContinues /\ ~TransferAborted
      BY <3>a, <3>b DEF TransferComplete, TransferContinues, TransferAborted, appVars
    <3>5. ~AbortBulkIn /\ ~InitiateClear /\ ~CheckClear
      BY <3>a, <3>b DEF AbortBulkIn, InitiateClear, CheckClear, scpiVars
    <3>6. ~CheckAbortBulkIn /\ ~ClearHalt /\ \A small_tag \in BOOLEAN : ~AbortBulkOut(small_tag)
      BY <3>a, <3>b DEF CheckAbortBulkIn, ClearHalt, AbortBulkOut, appVars
    <3> QED
      BY <2>1, <3>1, <3>2, <3>3, <3>4, <3>5, <3>6
         DEF UsbStep, SendMessage, SendMore, usbtmc_app_task_iter
  <2>3. st = "TX_REQUESTED" /\ remaining = Request
    BY <2>2 DEF AppTransmitReply, OwnReplyInv, RequestKnown
  <2>4. reply_len \in 1..ReplySize /\ ReplySize <= Request /\ ReplySize \in Nat /\ Request \in Nat
    BY ScpiAssumption, MessageAssumption DEF TypeOK, ScpiTypeOK
  <2> QED
    BY <2>2, <2>3, <2>4 DEF AppTransmitReply, Transmit
<1> QED
  BY <1>1, TypeCorrect, OwnReplyInvariant, PTL DEF ReplyForgottenWhenTaken, Spec
=============================================================================
