------------------------- MODULE ReplyChannelProofs -------------------------
(***************************************************************************)
(* Proof that the USB side of RemoteControl implements ReplyChannel, the   *)
(* replies to VXI-11 that are written into a reply of USB included. The    *)
(* invariant it needs, OwnReplyInv, says of a single state what is being   *)
(* sent; here it is shown what one step can make of it.                    *)
(***************************************************************************)
EXTENDS RemoteControlProofs, SequenceTheorems

\* A step that leaves what is sent, and what is to be sent, alone.
Untouched ==
    /\ UNCHANGED <<buffer_tx_ix, st, got, remaining, reply, reply_len, mixed>>
    /\ asked'["usb"] = asked["usb"]

\* A step between two states in which a reply, if any, waits as it is.
StillWaits ==
    /\ ~Sending /\ ~Sending'
    /\ UNCHANGED <<buffer_tx_ix, reply, reply_len, asked, mixed>>

ChannelUnits == Units \cup {"echo"}

-----------------------------------------------------------------------------
(* Sequences.                                                              *)

\* A function on 1..n is a sequence of length n, and equal to any other with the same
\* elements.
LEMMA FunctionIsSequence ==
    ASSUME NEW S, NEW n \in Nat, NEW f \in [1..n -> S]
    PROVE  /\ f \in Seq(S) /\ Len(f) = n
           /\ \A g \in Seq(S) : Len(g) = n /\ (\A i \in 1..n : f[i] = g[i]) => f = g
OBVIOUS

\* The elements of s followed by those of t are s \o t.
LEMMA Concatenation ==
    ASSUME NEW S, NEW s \in Seq(S), NEW t \in Seq(S), NEW u \in [1..Len(s) + Len(t) -> S],
           \A i \in 1..Len(s) + Len(t) : u[i] = IF i <= Len(s) THEN s[i] ELSE t[i - Len(s)]
    PROVE  u = s \o t
<1> DEFINE v == s \o t
<1>1. u \in Seq(S) /\ Len(u) = Len(s) + Len(t)
  OBVIOUS
<1>2. /\ v \in Seq(S) /\ Len(v) = Len(s) + Len(t)
      /\ \A i \in 1..Len(s) + Len(t) : v[i] = IF i <= Len(s) THEN s[i] ELSE t[i - Len(s)]
  BY ConcatProperties, Z3
<1> HIDE DEF v
<1>3. \A i \in 1..Len(u) : u[i] = v[i]
  BY <1>1, <1>2
<1>4. u = v
  BY <1>1, <1>2, <1>3, SeqEqual, Zenon
<1> QED
  BY <1>4 DEF v

-----------------------------------------------------------------------------
(* The state of the channel.                                               *)

\* What the variables of the channel are while a reply is owed, and otherwise.
Silent == Comes = <<>> /\ Sent = 0 /\ Ended = FALSE /\ Mixed = FALSE

ChannelInv ==
    /\ Owed \in Queries \cup {"none"} /\ "none" \notin Queries
    /\ Owed = "none" => Silent
    /\ Owed # "none" =>
          /\ buffer_tx_ix = 0 /\ asked["usb"] = Owed /\ ReplyKept(Text(Owed))
          /\ Text(Owed) \in Seq(Units) /\ Len(Text(Owed)) \in 1..2
          /\ Mixed = mixed
          /\ Sending  => Sent = Len(got) /\ Ended = (st = "TX_SHORTED")
          /\ ~Sending => Sent = 0 /\ Ended = FALSE
          /\ Due \in 1..ReplySize + Sent
          /\ Due = IF Sending THEN Len(got) + remaining ELSE reply_len
          /\ \A i \in 1..Due : i > Sent => i \in 1..ReplySize
          /\ Comes \in [1..Due -> ChannelUnits] /\ Comes \in Seq(ChannelUnits) /\ Len(Comes) = Due

\* It follows from the invariants of RemoteControl.
LEMMA ChannelState == TypeOK /\ PositionInv /\ OwnReplyInv => ChannelInv
<1> SUFFICES ASSUME TypeOK, PositionInv, OwnReplyInv PROVE ChannelInv
  OBVIOUS
<1>0. /\ asked["usb"] \in Queries \cup {"none"} /\ "none" \notin Queries
      /\ got \in Seq(ChannelUnits) /\ reply \in [1..ReplySize -> Units] /\ remaining \in Nat
      /\ reply_len \in 0..ReplySize /\ ReplySize \in Nat /\ mixed \in BOOLEAN
  BY ScpiAssumption DEF TypeOK, ScpiTypeOK, UsbTypeOK, Transports, Queries, ChannelUnits
<1>1. /\ Owed \in Queries \cup {"none"}
      /\ Owed # "none" => buffer_tx_ix = 0 /\ asked["usb"] = Owed
  BY <1>0 DEF Owed
<1>2. CASE Owed = "none"
  <2>1. Sent = 0 /\ Ended = FALSE /\ Mixed = FALSE /\ Due = 0
    BY <1>2 DEF Sent, Ended, Mixed, Due
  <2>2. Comes = <<>>
    BY <2>1 DEF Comes
  <2> QED
    BY <1>0, <1>1, <1>2, <2>1, <2>2 DEF ChannelInv, Silent
<1>3. CASE Owed # "none"
  <2>1. /\ ReplyKept(Text(Owed))
        /\ Text(Owed) \in Seq(Units) /\ Len(Text(Owed)) \in 1..2
    BY <1>1, <1>3, TextType DEF OwnReplyInv, Queries
  <2>2. Mixed = mixed
    BY <1>0, <1>3 DEF Mixed
  <2>3. /\ Sending  => Sent = Len(got) /\ Ended = (st = "TX_SHORTED")
        /\ ~Sending => Sent = 0 /\ Ended = FALSE
    BY <1>3 DEF Sent, Ended, Sending
  <2>4. Due = IF Sending THEN Len(got) + remaining ELSE reply_len
    BY <1>3 DEF Due
  <2>5. Sent \in Nat /\ Due \in 1..ReplySize + Sent /\ (\A i \in 1..Due : i > Sent => i \in 1..ReplySize)
    <3>1. CASE ~Sending
      <4>1. reply_len >= Len(Text(Owed))
        BY <2>1, <3>1 DEF ReplyKept
      <4>a. PICK k \in 1..2 : k = Len(Text(Owed))
        BY <2>1
      <4>2. reply_len \in 1..ReplySize /\ Sent = 0 /\ Due = reply_len
        BY <1>0, <2>3, <2>4, <3>1, <4>1, <4>a
      <4> QED
        BY <1>0, <4>2
    <3>2. CASE st = "TX_INITIATED"
      <4>1. Sending /\ Len(got) \in Nat
        BY <1>0, <3>2 DEF Sending
      <4>2. Len(got) > 0 /\ dev_in = [from |-> "reply", pos |-> Len(got) + 1]
        BY <2>1, <3>2, <4>1 DEF ReplyKept
      <4>3. Len(got) + 1 + remaining <= ReplySize + 1
        BY <3>2, <4>2 DEF PositionInv
      <4> QED
        BY <1>0, <2>3, <2>4, <4>1, <4>2, <4>3
    <3>3. CASE st = "TX_SHORTED"
      <4>1. Sending /\ Len(got) \in Nat
        BY <1>0, <3>3 DEF Sending
      <4>2. Len(got) > 0 /\ remaining = 0
        BY <2>1, <3>3, <4>1 DEF ReplyKept
      <4> QED
        BY <1>0, <2>3, <2>4, <4>1, <4>2
    <3> QED
      BY <3>1, <3>2, <3>3 DEF Sending
  <2>6. Comes \in [1..Due -> ChannelUnits]
    <3>1. ASSUME NEW i \in 1..Due PROVE (IF i <= Sent THEN got[i] ELSE reply[i]) \in ChannelUnits
      <4>1. CASE i <= Sent
        <5>1. i \in 1..Len(got)
          BY <1>0, <2>3, <2>5, <4>1
        <5> QED
          BY <1>0, <4>1, <5>1
      <4>2. CASE ~(i <= Sent)
        <5>1. i \in 1..ReplySize
          BY <2>5, <4>2
        <5> QED
          BY <1>0, <4>2, <5>1 DEF ChannelUnits
      <4> QED
        BY <4>1, <4>2
    <3> QED
      BY <3>1 DEF Comes
  <2>7. Due \in Nat
    BY <1>0, <2>5
  <2>8. Comes \in Seq(ChannelUnits) /\ Len(Comes) = Due
    BY <2>6, <2>7, FunctionIsSequence
  <2> QED
    BY <1>0, <1>1, <1>3, <2>1, <2>2, <2>3, <2>4, <2>5, <2>6, <2>8 DEF ChannelInv
<1> QED
  BY <1>2, <1>3

-----------------------------------------------------------------------------
(* The steps.                                                              *)

\* A step on the USB side after which a reply is owed takes a query, leaves the
\* channel alone, or sends a unit.
LEMMA StepOwed ==
    ASSUME TypeOK, OwnReplyInv, UsbStep, Owed' # "none"
    PROVE  \/ ~Sending /\ ~Sending' /\ mixed' = FALSE
           \/ StillWaits
           \/ Untouched
           \/ AppTransmitReply /\ st = "TX_REQUESTED" /\ remaining = Request
           \/ TransferContinues
<1>a. /\ asked \in [Transports -> Queries \cup {"none"}] /\ "usb" \in Transports
      /\ buffer_len \in Nat /\ buffer_tx_ix \in Nat /\ BufferSize \in Nat \ {0}
  BY MessageAssumption DEF TypeOK, ScpiTypeOK, UsbTypeOK, Transports
<1>b. buffer_tx_ix' = 0 /\ asked'["usb"] # "none"
  BY DEF Owed
<1>1. CASE BusReset \/ Open \/ TransferComplete \/ InitiateClear
  <2>1. asked'["usb"] = "none"
    BY <1>1, <1>a DEF BusReset, Open, TransferComplete, InitiateClear, Void
  <2> QED
    BY <1>b, <2>1
<1>2. ASSUME NEW m \in Messages, NEW left, Take(m, left), Listening
      PROVE  ~Sending /\ ~Sending' /\ mixed' = FALSE
  <2>1. ~Sending /\ ~Sending'
    BY <1>2 DEF Take, StartBusRead, Listening, Sending
  <2>2. CASE AtEnd(m, left)
    <3>1. Chunk(m, left).from = "usb"
      BY MessageAssumption DEF Chunk, Pieces
    <3>2. SCPI_Main_Input(Chunk(m, left), ReplyLenAtData)
      BY <1>2, <2>2 DEF Take
    <3> QED
      BY <2>1, <3>1, <3>2 DEF SCPI_Main_Input, MixedAfter
  <2>3. CASE ~AtEnd(m, left)
    BY <1>2, <1>a, <1>b, <2>3 DEF Take, Void
  <2> QED
    BY <2>2, <2>3
<1>3. ASSUME NEW m, NEW left, Refuse(m, left), Listening PROVE StillWaits
  BY <1>3 DEF Refuse, Listening, Sending, StillWaits, scpiVars
<1>4. CASE (Ignore \/ Trigger) /\ Listening
  BY <1>4 DEF Ignore, Trigger, Listening, Sending, StillWaits, appVars, scpiVars
<1>5. CASE RequestData
  <2>1. CASE queryState = 0 \/ buffer_tx_ix = 0
    BY <1>5, <2>1 DEF RequestData, Sending, StillWaits, scpiVars
  <2>2. CASE ~(queryState = 0 \/ buffer_tx_ix = 0)
    <3>1. buffer_tx_ix' # 0
      BY <1>5, <2>2, <1>a DEF RequestData
    <3> QED
      BY <1>b, <3>1
  <2> QED
    BY <2>1, <2>2
<1>6. CASE AppQueried \/ AppDelayOver \/ AppReady
  BY <1>6 DEF AppQueried, AppDelayOver, AppReady, Untouched, driverVars, hostVars, scpiVars
<1>7. CASE AppTransmitReply
  <2>1. bulkInStarted /\ buffer_tx_ix = 0 /\ asked' = asked
    BY <1>7 DEF AppTransmitReply
  <2>2. st = "TX_REQUESTED" /\ remaining = Request
    BY <1>b, <2>1 DEF OwnReplyInv, RequestKnown, NothingOwed
  <2> QED
    BY <1>7, <2>2
<1>8. CASE AppTransmitBuffer
  <2>1. /\ Transmit("buffer", 0, buffer_len) /\ buffer_tx_ix' = buffer_len
        /\ buffer_tx_ix = 0 /\ UNCHANGED <<reply, reply_len, asked, mixed>>
    BY <1>8 DEF AppTransmitBuffer, scpiVars
  <2> QED
    BY <1>b, <2>1 DEF Transmit, Untouched
<1>9. CASE \/ TransferAborted \/ CheckAbortBulkIn \/ ClearHalt
           \/ \E small_tag \in BOOLEAN : AbortBulkOut(small_tag)
  BY <1>9 DEF TransferAborted, CheckAbortBulkIn, ClearHalt, AbortBulkOut,
              StartBusRead, Sending, StillWaits, appVars, scpiVars
<1>10. CASE CheckClear
  <2>1. asked'["usb"] = "none"
    BY <1>10 DEF CheckClear, scpiVars, OwnReplyInv, NothingOwed
  <2> QED
    BY <1>b, <2>1
<1>11. CASE AbortBulkIn
  <2>1. CASE st = "TX_REQUESTED"
    BY <1>11, <2>1 DEF AbortBulkIn, Sending, StillWaits
  <2>2. CASE st # "TX_REQUESTED"
    BY <1>11, <2>2, <1>a, <1>b DEF AbortBulkIn, Void
  <2> QED
    BY <2>1, <2>2
<1>12. CASE TransferContinues
  BY <1>12
<1>13. CASE \E m \in Messages : SendMessage(m)
  BY <1>13, <1>2, <1>3 DEF SendMessage
<1>14. CASE SendMore
  <2>1. sending.msg \in Messages
    BY <1>14 DEF SendMore, TypeOK, UsbTypeOK
  <2> QED
    BY <1>14, <2>1, <1>2, <1>3, <1>4 DEF SendMore
<1>15. CASE Trigger
  BY <1>15, <1>4 DEF Trigger
<1> QED
  BY <1>1, <1>5, <1>6, <1>7, <1>8, <1>9, <1>10, <1>11, <1>12, <1>13, <1>14, <1>15
     DEF UsbStep, usbtmc_app_task_iter

\* A reply that waits for the host untouched by VXI-11 is the answer to its query.
LEMMA NewQuery ==
    ASSUME ChannelInv, ChannelInv', Owed' # "none", ~Sending, ~Sending', mixed' = FALSE
    PROVE  Channel!Ask(Owed')
<1>1. PICK q \in Queries : q = Owed'
  BY DEF ChannelInv
<1> DEFINE own == Text(q)
<1>2. /\ own \in Seq(Units) /\ Mixed' = FALSE /\ Sent' = 0 /\ Ended' = FALSE
      /\ Due' = reply_len' /\ Comes' \in [1..Due' -> ChannelUnits]
  BY <1>1 DEF ChannelInv
<1>3. Sent = 0 /\ Ended = FALSE
  BY DEF ChannelInv, Silent
<1>4. reply_len' = Len(own) /\ \A i \in 1..Len(own) : reply'[i] = own[i]
  <2>1. ReplyKept(Text(Owed))'
    BY DEF ChannelInv
  <2> QED
    BY <1>1, <2>1 DEF ReplyKept
<1> HIDE DEF own
<1>5. own \in Seq(ChannelUnits) /\ Len(own) \in Nat
  BY <1>2 DEF ChannelUnits
<1>6. \A i \in 1..Due' : Comes'[i] = own[i]
  BY <1>2, <1>4, <1>5 DEF Comes
<1>7. Comes' = own
  BY <1>2, <1>4, <1>5, <1>6, FunctionIsSequence
<1> QED
  BY <1>1, <1>2, <1>3, <1>7 DEF Channel!Ask, own

\* What waits as it is, and what is not touched, is the same to the channel.
LEMMA SameChannel ==
    ASSUME ChannelInv, ChannelInv', StillWaits \/ Untouched
    PROVE  UNCHANGED <<Owed, Comes, Sent, Ended, Mixed>>
<1>1. CASE StillWaits
  <2>1. Owed' = Owed /\ Sent' = Sent /\ Ended' = Ended /\ Mixed' = Mixed /\ Due' = Due
    BY <1>1 DEF StillWaits, Owed, Sent, Ended, Mixed, Due, Sending
  <2>2. Sent = 0
    BY <1>1 DEF StillWaits, Sent
  <2>3. Comes' = Comes
    <3>1. \A i \in 1..Due : ~(i <= 0)
      OBVIOUS
    <3> QED
      BY <1>1, <2>1, <2>2, <3>1 DEF StillWaits, Comes
  <2> QED
    BY <2>1, <2>3
<1>2. CASE Untouched
  <2>1. Owed' = Owed
    BY <1>2 DEF Untouched, Owed
  <2>2. Sent' = Sent /\ Ended' = Ended /\ Mixed' = Mixed /\ Due' = Due
    BY <1>2, <2>1 DEF Untouched, Sent, Ended, Mixed, Due, Sending
  <2> QED
    BY <1>2, <2>1, <2>2 DEF Untouched, Comes
<1> QED
  BY <1>1, <1>2

\* The first packet of a reply is its first unit.
LEMMA FirstUnit ==
    ASSUME TypeOK, ChannelInv, ChannelInv', AppTransmitReply, st = "TX_REQUESTED",
           remaining = Request, Owed' # "none"
    PROVE  Channel!Send
<1>1. /\ Owed' = Owed /\ reply_len > 0 /\ Transmit("reply", 1, reply_len)
      /\ UNCHANGED <<reply, mixed>>
  BY DEF AppTransmitReply, Owed
<1>2. /\ reply_len \in Nat /\ reply_len <= Request /\ Request \in Nat
  BY ScpiAssumption, MessageAssumption DEF TypeOK, ScpiTypeOK
<1>3. /\ st' = (IF reply_len = 1 THEN "TX_SHORTED" ELSE "TX_INITIATED")
      /\ remaining' = reply_len - 1
      /\ got' = <<reply[1]>>
  BY <1>1, <1>2 DEF Transmit, UnitAt
<1>4. ~Sending /\ Sending'
  BY <1>3 DEF Sending
<1>5. /\ Sent = 0 /\ Ended = FALSE /\ Due = reply_len /\ Len(Comes) = Due /\ Mixed = mixed
  BY <1>1, <1>4 DEF ChannelInv
<1>6. /\ Sent' = 1 /\ Ended' = (st' = "TX_SHORTED") /\ Due' = reply_len /\ Mixed' = mixed
  BY <1>1, <1>2, <1>3, <1>4 DEF ChannelInv
<1>7. Comes' = Comes
  <2>1. ASSUME NEW i \in 1..reply_len
        PROVE  (IF i <= 1 THEN got'[i] ELSE reply'[i]) = (IF i <= 0 THEN got[i] ELSE reply[i])
    BY <1>1, <1>2, <1>3
  <2> QED
    BY <1>5, <1>6, <2>1 DEF Comes
<1>8. Ended' = (Sent + 1 = Len(Comes))
  BY <1>2, <1>3, <1>5, <1>6
<1> QED
  BY <1>1, <1>5, <1>6, <1>7, <1>8 DEF Channel!Send

\* A packet that follows is the next unit, and ends the transfer if it is the last.
LEMMA NextUnit ==
    ASSUME TypeOK, PositionInv, ChannelInv, ChannelInv', TransferContinues,
           Owed' # "none"
    PROVE  Channel!Send
<1> DEFINE n == Len(got)
<1>1. /\ Owed' = Owed /\ st = "TX_INITIATED" /\ UNCHANGED <<reply, mixed>>
      /\ st' = (IF remaining > 1 THEN "TX_INITIATED" ELSE "TX_SHORTED")
      /\ remaining' = (IF remaining > 1 THEN remaining - 1 ELSE 0)
      /\ got' = Append(got, UnitAt(dev_in.from, dev_in.pos))
  BY DEF TransferContinues, Owed, appVars, scpiVars
<1>2. Sending /\ Sending'
  BY <1>1 DEF Sending
<1>3. dev_in = [from |-> "reply", pos |-> n + 1]
  BY <1>1 DEF ChannelInv, ReplyKept
<1>4. /\ n \in Nat /\ remaining \in Nat /\ remaining > 0 /\ remaining' = remaining - 1
      /\ got \in Seq(ChannelUnits)
  BY <1>1 DEF TypeOK, UsbTypeOK, PositionInv, ChannelUnits
<1>5. got' = Append(got, reply[n + 1])
  BY <1>1, <1>3 DEF UnitAt
<1>6. /\ Len(got') = n + 1 /\ got'[n + 1] = reply[n + 1] /\ \A i \in 1..n : got'[i] = got[i]
  BY <1>4, <1>5
<1>7. /\ Sent = n /\ Ended = FALSE /\ Due = n + remaining /\ Len(Comes) = Due /\ Mixed = mixed
  BY <1>1, <1>2 DEF ChannelInv
<1>8. /\ Sent' = n + 1 /\ Ended' = (st' = "TX_SHORTED") /\ Due' = n + 1 + remaining'
      /\ Mixed' = mixed
  BY <1>1, <1>2, <1>6 DEF ChannelInv
<1> HIDE DEF n
<1>9. Due' = Due
  BY <1>4, <1>7, <1>8
<1>10. Comes' = Comes
  <2>1. ASSUME NEW i \in 1..Due
        PROVE  (IF i <= n + 1 THEN got'[i] ELSE reply'[i]) = (IF i <= n THEN got[i] ELSE reply[i])
    <3>1. i <= n \/ i = n + 1 \/ (i > n + 1)
      BY <1>4, <1>7
    <3> QED
      BY <1>1, <1>4, <1>6, <1>7, <3>1
  <2> QED
    BY <1>7, <1>8, <1>9, <2>1 DEF Comes
<1>11. Ended' = (Sent + 1 = Len(Comes))
  BY <1>1, <1>4, <1>7, <1>8
<1> QED
  BY <1>1, <1>7, <1>8, <1>10, <1>11 DEF Channel!Send

\* A reply to VXI-11 that is written while one to USB waits goes behind it.
LEMMA WrittenBehind ==
    ASSUME TypeOK, ChannelInv, ChannelInv', UNCHANGED usbVars, Owed # "none", Owed' = Owed,
           NEW q \in Queries, ~Sending, mixed' = TRUE,
           reply' = Stored(Text(q), reply_len), reply_len' = StoredLen(Text(q), reply_len)
    PROVE  Channel!Interfere(q)
<1> DEFINE own == Text(q)
<1>0. /\ own \in Seq(Units) /\ Len(own) \in Nat /\ ReplySize \in Nat /\ reply_len \in 0..ReplySize
      /\ ScpiTypeOK
  BY TextType, ScpiAssumption DEF TypeOK, ScpiTypeOK
<1> HIDE DEF own
<1>1. ~Sending'
  BY DEF usbVars, driverVars, Sending
<1>2. /\ Sent = 0 /\ Ended = FALSE /\ Due = reply_len /\ Comes \in Seq(ChannelUnits) /\ Len(Comes) = Due
  BY DEF ChannelInv
<1>3. /\ Sent' = 0 /\ Ended' = FALSE /\ Due' = reply_len' /\ Mixed' = TRUE
      /\ Comes' \in [1..Due' -> ChannelUnits]
  BY <1>1 DEF ChannelInv
<1>4. CASE ~Fits(own, reply_len)
  <2>1. reply_len' = reply_len
    BY <1>4 DEF StoredLen, own
  <2>2. reply' = reply
    <3>1. reply = [i \in 1..ReplySize |-> reply[i]]
      BY <1>0 DEF ScpiTypeOK
    <3> QED
      BY <1>4, <3>1 DEF Stored, own
  <2>3. Comes' = Comes
    <3>1. \A i \in 1..Due : ~(i <= 0)
      OBVIOUS
    <3> QED
      BY <1>2, <1>3, <2>1, <2>2, <3>1 DEF Comes
  <2> QED
    BY <1>2, <1>3, <2>3 DEF Channel!Interfere
<1>5. CASE Fits(own, reply_len)
  <2>1. reply_len' = reply_len + Len(own) /\ reply_len + Len(own) <= ReplySize
    BY <1>5 DEF StoredLen, Fits, own
  <2>2. ASSUME NEW i \in 1..reply_len + Len(own)
        PROVE  Comes'[i] = IF i <= Len(Comes) THEN Comes[i] ELSE own[i - Len(Comes)]
    <3>1. i \in 1..ReplySize /\ ~(i <= 0)
      BY <1>0, <2>1
    <3>2. reply'[i] = IF i \in reply_len + 1 .. reply_len + Len(own) THEN own[i - reply_len]
                      ELSE reply[i]
      BY <1>5, <3>1 DEF Stored, own
    <3>3. Comes'[i] = reply'[i]
      BY <1>3, <2>1, <3>1 DEF Comes
    <3>4. i <= reply_len => Comes[i] = reply[i]
      BY <1>0, <1>2, <3>1 DEF Comes
    <3> QED
      BY <1>0, <1>2, <3>2, <3>3, <3>4
  <2>3. own \in Seq(ChannelUnits)
    BY <1>0 DEF ChannelUnits
  <2>4. Comes' \in [1..Len(Comes) + Len(own) -> ChannelUnits]
    BY <1>2, <1>3, <2>1
  <2>5. Comes' = Comes \o own
    BY <1>2, <2>2, <2>3, <2>4, Concatenation
  <2> QED
    BY <1>2, <1>3, <2>5 DEF Channel!Interfere, own
<1> QED
  BY <1>4, <1>5

\* One that is written while a transfer is on its way changes only what is not sent.
LEMMA WrittenOver ==
    ASSUME TypeOK, ChannelInv, ChannelInv', UNCHANGED usbVars, Owed # "none", Owed' = Owed,
           NEW q \in Queries, Sending, mixed' = TRUE,
           reply' = Stored(Text(q), reply_len)
    PROVE  Channel!Interfere(q)
<1> DEFINE own == Text(q)
           at == IF Fits(own, reply_len) /\ reply_len <= Due THEN reply_len ELSE Due
<1>0. /\ own \in Seq(Units) /\ Len(own) \in Nat /\ ReplySize \in Nat /\ reply_len \in 0..ReplySize
      /\ got \in Seq(ChannelUnits) /\ Len(got) \in Nat
  BY TextType, ScpiAssumption DEF TypeOK, ScpiTypeOK, UsbTypeOK, ChannelUnits
<1> HIDE DEF own
<1>1. Sending' /\ UNCHANGED <<st, got, remaining>>
  BY DEF usbVars, driverVars, hostVars, Sending
<1>2. /\ Sent = Len(got) /\ Sent # 0 /\ Len(Comes) = Due /\ Due \in Nat
      /\ \A i \in 1..Due : i > Sent => i \in 1..ReplySize
  <2>1. Len(got) > 0
    BY DEF ChannelInv, ReplyKept
  <2> QED
    BY <1>0, <2>1 DEF ChannelInv
<1>3. /\ Sent' = Sent /\ Ended' = Ended /\ Due' = Due /\ Mixed' = TRUE
  BY <1>1 DEF ChannelInv
<1>4. at \in 0..Len(Comes)
  BY <1>0, <1>2
<1>5. ASSUME NEW i \in 1..Due
      PROVE  (IF i <= Sent THEN got[i] ELSE reply'[i])
                = IF i > Sent /\ i - at \in 1..Len(own) THEN own[i - at] ELSE Comes[i]
  <2>1. Comes[i] = IF i <= Sent THEN got[i] ELSE reply[i]
    BY DEF Comes
  <2>2. CASE i <= Sent
    BY <1>0, <1>2, <2>1, <2>2
  <2>3. CASE i > Sent
    <3>1. i \in 1..ReplySize /\ ~(i <= Sent)
      BY <1>0, <1>2, <2>3
    <3>2. reply'[i] = IF Fits(own, reply_len) /\ i \in reply_len + 1 .. reply_len + Len(own)
                      THEN own[i - reply_len] ELSE reply[i]
      BY <3>1 DEF Stored, own
    <3>3. CASE Fits(own, reply_len) /\ reply_len <= Due
      <4>0. at = reply_len
        BY <3>3
      <4> HIDE DEF at
      <4>1. i - at \in 1..Len(own) <=> i \in reply_len + 1 .. reply_len + Len(own)
        BY <1>0, <1>2, <4>0
      <4>2. reply'[i] = IF i - at \in 1..Len(own) THEN own[i - at] ELSE reply[i]
        BY <3>2, <3>3, <4>0, <4>1
      <4>3. Comes[i] = reply[i]
        BY <2>1, <3>1
      <4> QED
        BY <2>3, <3>1, <4>2, <4>3
    <3>4. CASE ~(Fits(own, reply_len) /\ reply_len <= Due)
      <4>1. ~(i - at \in 1..Len(own))
        BY <1>0, <1>2, <3>4
      <4>2. reply'[i] = reply[i]
        BY <1>0, <1>2, <3>2, <3>4
      <4> QED
        BY <2>1, <3>1, <4>1, <4>2
    <3> QED
      BY <3>3, <3>4
  <2> QED
    BY <1>0, <1>2, <2>2, <2>3
<1> HIDE DEF at
<1>6. Comes' = Channel!Overlaid(own, at)
  BY <1>1, <1>2, <1>3, <1>5 DEF Comes, Channel!Overlaid
<1> QED
  BY <1>2, <1>3, <1>4, <1>6 DEF Channel!Interfere, own

\* A step on the network side is a reply of VXI-11 written into that of USB, or
\* nothing.
LEMMA NetChannel ==
    ASSUME TypeOK, ChannelInv, ChannelInv', UNCHANGED usbVars,
           vxi11_server_task \/ ServerInit \/ ServerClose \/ VxiClient \/ ReadTimeout
    PROVE  Channel!Next \/ UNCHANGED <<Owed, Comes, Sent, Ended, Mixed>>
<1>1. asked'["usb"] = asked["usb"] /\ Owed' = Owed
  BY NetStep DEF usbVars, appVars, Owed
<1>2. CASE UNCHANGED <<reply, reply_len, mixed>>
  BY <1>1, <1>2, SameChannel DEF Untouched, usbVars, driverVars, appVars, hostVars
<1>3. CASE Owed = "none"
  BY <1>1, <1>3 DEF ChannelInv, Silent
<1>4. ASSUME NEW q \in Queries, mixed' = (mixed \/ asked["usb"] # "none"),
             reply' = Stored(Text(q), reply_len), reply_len' = StoredLen(Text(q), reply_len),
             Owed # "none"
      PROVE  Channel!Next
  <2>1. asked["usb"] # "none"
    BY <1>4 DEF Owed
  <2>2. mixed' = TRUE
    BY <1>4, <2>1
  <2>3. Channel!Interfere(q)
    BY <1>1, <1>4, <2>2, WrittenBehind, WrittenOver
  <2> QED
    BY <2>3 DEF Channel!Next
<1> QED
  BY <1>2, <1>3, <1>4, NetStep

\* Every step is a step of the channel or leaves it as it is.
LEMMA ChannelStep ==
    ASSUME TypeOK, PositionInv, OwnReplyInv, ChannelInv, ChannelInv', [Next]_vars
    PROVE  Channel!Next \/ UNCHANGED <<Owed, Comes, Sent, Ended, Mixed>>
<1>1. CASE UsbStep
  <2>1. CASE Owed' = "none"
    <3>1. Silent'
      BY <2>1 DEF ChannelInv
    <3>2. CASE Owed = "none"
      BY <2>1, <3>1, <3>2 DEF ChannelInv, Silent
    <3>3. CASE Owed # "none"
      BY <2>1, <3>1, <3>3 DEF Silent, Channel!Next, Channel!Forget
    <3> QED
      BY <3>2, <3>3
  <2>2. CASE Owed' # "none"
    <3>1. Owed' \in Queries
      BY <2>2 DEF ChannelInv
    <3>2. CASE ~Sending /\ ~Sending' /\ mixed' = FALSE
      BY <2>2, <3>1, <3>2, NewQuery DEF Channel!Next
    <3>3. CASE StillWaits \/ Untouched
      BY <3>3, SameChannel
    <3>4. CASE AppTransmitReply /\ st = "TX_REQUESTED" /\ remaining = Request
      BY <2>2, <3>4, FirstUnit DEF Channel!Next
    <3>5. CASE TransferContinues
      BY <2>2, <3>5, NextUnit DEF Channel!Next
    <3> QED
      BY <1>1, <2>2, <3>2, <3>3, <3>4, <3>5, StepOwed
  <2> QED
    BY <2>1, <2>2
<1>2. CASE NetTask \/ Outside
  BY <1>2, NetChannel DEF NetTask, Outside
<1>3. CASE UNCHANGED vars
  <2>1. Untouched
    BY <1>3 DEF Untouched, vars, usbVars, driverVars, appVars, hostVars, scpiVars
  <2> QED
    BY <2>1, SameChannel
<1> QED
  BY <1>1, <1>2, <1>3 DEF Next, UsbTask

\* The USB side implements ReplyChannel, for replies and buffers of any size and any
\* messages: a host receives the units of its answer in order and once, the transfer
\* ends with the last of what was to be sent when it began, and what is to be sent is
\* the answer, changed by nothing but a reply to VXI-11, which leaves an answer that
\* waits whole and first, and of one on its way what was sent and the length.
THEOREM ChannelRefinement == Spec => ImplementsChannel
<1>1. Init => Channel!Init
  <2> SUFFICES ASSUME Init PROVE Channel!Init
    OBVIOUS
  <2>1. Owed = "none"
    BY DEF Init, UsbInit, ScpiInit, Transports, Owed
  <2>2. Sent = 0 /\ Ended = FALSE /\ Mixed = FALSE /\ Due = 0
    BY <2>1 DEF Sent, Ended, Mixed, Due
  <2>3. Comes = <<>>
    BY <2>2 DEF Comes
  <2> QED
    BY <2>1, <2>2, <2>3 DEF Channel!Init
<1>2. TypeOK /\ PositionInv /\ OwnReplyInv /\ ChannelInv /\ ChannelInv' /\ [Next]_vars
          => [Channel!Next]_<<Owed, Comes, Sent, Ended, Mixed>>
  BY ChannelStep
<1> QED
  BY <1>1, <1>2, ChannelState, TypeCorrect, OwnReplyInvariant, PTL
     DEF Spec, ImplementsChannel, Channel!Spec, Channel!cvars
=============================================================================
