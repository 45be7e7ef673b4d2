# RDE_board: TLA+ models, checks and proofs

RDE_board is a programmable resistance box: an STM32G431 drives six resistor
decades through relays and is remote-controlled with SCPI commands over USB-TMC
and over Ethernet (VXI-11, W5500 chip). This directory holds TLA+ models of the
firmware's own code, TLC configurations that check them on small instances, and
TLAPS proofs that hold for every value of the constants.

`App/` below is `src/firmware/RDE_soft/App/`, `main.c` is
`src/firmware/RDE_soft/Core/Src/main.c`. `PROJECT.json` maps every definition to
the source lines it models, and lists hazards, mutants, findings and theorems.

A definition named `X_bug` is `X` with a plausible programming fault. Nothing
uses it; it is substituted for `X` to see that a property notices the fault.

## 1. The system

There is no operating system. `main()` initialises everything in a fixed order
(`relay_init`, `SCPI_Main_Init`, `net_config_init`, `relay_cal_init`, USB,
`w5500_net_init`) and then loops for ever: LEDs, USB connection debounce, while
USB is present `tud_task` and `usbtmc_app_task_iter`, then `w5500_net_task`.
Interrupts only move USB events into a queue
and count milliseconds. A handler therefore runs to completion before the next
begins; what interleaves is the order of *calls*, the outside world (cable,
network, power supply, host) and the steps of operations that take time.

| Component | Source | State | Operations | Correct when |
|---|---|---|---|---|
| Relay driver | `App/relay/relay_ctrl.c` | relay bytes, digits, value, output flag, supply flag | set value, decade, bit, raw; output on/off; enable; reset | flag, relays, digits and value agree; the reported value is on the terminals |
| SCPI handlers | `App/scpi_def.c` | reply buffer, error queue, LED flag | one handler per command | each command has its effect once, and its reply reaches its sender |
| Calibration table (flash) | `App/relay/relay_cal_flash.c` | table and enable flag in RAM; one flash page | init/load, set, reset, enable, save | what was saved is loaded; no damaged table is used |
| Network settings (flash) | `App/net_config.c` | settings in RAM; one flash page | init, setters, save | as above |
| The same, FRAM | `App/relay/relay_cal.c`, `App/net_config_fram.c`, `App/fram/fm24c64b.c` | records stored twice with CRC | as above, and repair | one fault never loses a record |
| Ethernet state machine | `App/w5500_net.c` | state, timers, link counter, DHCP flags, address | task, restart, init | servers run exactly under one agreed address; comes up with the link |
| DHCP client | `App/wiznet/Internet/DHCP/dhcp.c` | state, addresses, retry, tick | init, run, time handler | never blocks, a lease is applied |
| VXI-11 server, RPC | `App/vxi11/*.c` | socket state, received bytes, the wait in `device_read` | accept, calls, close | each call is answered, a read with its own reply |
| mDNS responder | `App/mdns/mdns.c` | sockets, own address | init, task, close | announces the address in use |
| USB-TMC application | `App/usbtmc_app.c` | buffer, reply, status byte, MAV | callbacks, task, abort, clear | one reply per query, MAV before it |
| USB-TMC class driver | `App/tinyusb/src/class/usbtmc/usbtmc_device.c` | driver state, transfer in progress, endpoints | packets, control requests | never waits for what cannot come |
| SCPI library | `App/libscpi/src/` | input buffer, error queue | input, parse, errors | a line is executed once, no error is lost unnoticed |
| Main loop | `main.c` | USB debounce, LEDs | loop | nothing blocks it |
| Serial number, MAC | `App/utils/utils.c`, `w5500_net.c` | none | pure functions | unique per board |

Interactions: USB-TMC and VXI-11 both feed the SCPI handlers and share one parser
and one reply path: `SCPI_Write` fills the buffer VXI-11 reads and the buffer
USB-TMC sends from, whoever asked. The handlers call the relay driver, the calibration table, the network
settings and `w5500_net_restart`. The Ethernet state machine reads the network
settings, runs the DHCP client and opens and closes VXI-11 and mDNS. The
calibrated readout combines relay digits with the table.

What is hard here: a power cut or a storage error in the middle of a save; long
sequences of commands that reach a state nobody tried; a cable pulled, a chip
reset or `NET:APPLy` in any state of the network machine; DHCP replies at any
time; waits that only the waiting loop itself could end. `PROJECT.json` lists 40
such hazards, each at its line, with the property that covers it or the reason
why none does yet.

## 2. Modules

| Module | Models | Runs | Proofs |
|---|---|---|---|
| `RelayCtrl` | relay driver, its SCPI handlers, the resistor network | `relay`, `relay_output_off`, `relay_raw` | `RelayCtrlProofs` |
| `NvFram` | FRAM backends | `fram` | `NvFramProofs` |
| `NvFlash` | flash backends (the ones the build includes) | `flash`, `flash_power_loss`, `flash_net_torn` | `NvFlashProofs` |
| `NvStore` | abstract: a load finds the last acknowledged value or that of an unfinished save | (refined by `NvFram` and `NvFlash`) | `NvFramProofs`, `NvFlashProofs` |
| `W5500Net` | Ethernet state machine with DHCP client, server sockets | `net`, `net_conflict`, `net_lease` | `W5500NetProofs` |
| `NetService` | abstract: reachable under one legitimate address, or not | (refined by `W5500Net`) | `W5500NetProofs` |
| `ScpiCore` | parser input, error queue, reply buffers, LED flag | (part of `RemoteControl`) | `RemoteControlProofs` |
| `UsbTmc` | USB-TMC class driver, its application, a host | (part of `RemoteControl`) | `RemoteControlProofs` |
| `Vxi11Server` | VXI-11 core channel, RPC framing, a client | (part of `RemoteControl`) | `RemoteControlProofs` |
| `RemoteControl` | both transports over one SCPI stack in one main loop | `remote`, `remote_live` | `RemoteControlProofs` |
| `ReplyChannel` | abstract: answers are sent in order, whole and at most once | (refined by `RemoteControl`) | `ReplyChannelProofs` |

`MC*` modules define the input sets of the instances; the `.cfg` files give the
other constants.

### RelayCtrl

A relay byte is the set of its closed relays (Q0..Q7). The variables are the
statics of `relay_ctrl.c`; one action is one SCPI handler with all the driver
calls it makes (`*RST` is `relay_set_resistance(0)` followed by
`relay_set_output(true)`). `decade_byte`, `build_data` and `apply_output` are
the driver's encoding. `DecadeOhms` and `ChainOhms` model the *hardware*, from
the drawing at the head of `relay_ctrl.c`: a string of resistors 1-2-2-2-2 with
taps. So `ReportedIsReal` compares what the firmware says with what a meter
would read. The only history variable, `raw_written`, remembers `RELay:RAW`,
which leaves the reported value stale (see findings).

Left out: SPI transfer details (a transfer is part of its handler's step),
parsing and formatting of parameters. `RESistance:VALue` above the maximum is
refused by the handler and changes nothing.

### NvFram

Each of three records (calibration data, calibration configuration, network
settings) has two copies, PRIMARY and BACKUP, each a body and a CRC. An I2C
transfer is a step. `PowerCut` may hit any transfer, leaving the old cell, the
new one or garbage (`Torn`); `WriteError` is a failed transfer, after which the
code skips that copy's CRC but goes on with the other copy. Boot reads PRIMARY,
then BACKUP, then falls back to defaults, and repairs accordingly.
`relay_cal.c` ignores failed reads, so its buffer may then hold an older value;
`Buffered` is the choice between them. The history variables `intent` (values a
boot may legitimately find), `faults` (faults since the last acknowledged save)
and `commanded` (a command changed RAM since the last load) are what the
properties speak of. Two faults between acknowledged saves are more than the
copies survive: the boot looks at BACKUP only when PRIMARY is bad and never
repairs it, so a BACKUP torn by one cut is still torn when the next save begins
with PRIMARY. `OneFaultSafe` is stated, and proved, for what two copies can
promise.

A CRC matches only the value it was computed from: CRC collisions are outside
the model. Array contents are opaque values.

### NvFlash

Each page is erased and then programmed by double words, each a step that a
power cut or HAL error may interrupt; an interrupted erase may leave any subset
of the words. A double word whose programming is interrupted is the new word or
matches nothing. `sr_error` models stale error flags in the flash status
register: `relay_cal_flash.c` clears them before it erases, `net_config.c` does
not, so that its first save may fail. History: `put_cal` and `put_net` (what the last
complete write put on a page), `hit` (a later write of it was cut or failed), `tried`
(the tables of those writes) and `commanded`, as in `NvFram`.

### NvStore

What both backends promise the rest of the firmware, in the value in use, the values
a load may find (`found`), and whether the record is `spoilt`, so that a load may
find anything. Two more variables, `on` and `commanded`, make a load of a wrong
value visible as such: without them it could pass for a command that sets the value
in RAM. A save adds its value to `found` when it begins and leaves it alone there
when it is complete; a load, at boot, by `CALibration:LOAD` or with failing reads,
takes a value of `found` into RAM; a repair at boot may write only such a value. The
backends differ in what spoils a record. `NvFram` maps `found` to `intent` and
`spoilt` to "a second fault since the last acknowledged save". `NvFlash` maps
`found` to the last completed write and, while a save runs, the value in RAM, and
`spoilt` to `hit`, a single cut or failed write of the page. That is what the second
copy is worth, and it is why the documents that promise power-loss safety describe
the FRAM backend, not the one that is built (see `flash_power_loss`).

### W5500Net

All fourteen states of `w5500_net_task`, one action per case of its switch
(two pairs of cases with the same body share an action). Time is abstracted to
"the wait of this state is over" (`due`), "500 ms since the last link check"
(`chk_due`) and "the DHCP tick passed its limit" (`dhcp.late`). `DHCP_run` is one
operator on the client's record; the DHCP servers may answer anything at any
time, and any address may prove to be in use. `spinning` is the busy wait in
`check_DHCP_leasedIP`. `NET:APPLy` and the `NET:` setters come between any two
iterations.

The chip may fall silent at any time (`chip`). Then a look at the link may show
anything, an address written to the chip or read back from it is `Unknown`, no DHCP
reply comes, and `socket()` and `close()` may never return, not even when the chip
is back (`Hang`: their `while` loops have no limit and the command is not
repeated). An outage that covers only part of a step, or none of its socket
commands, lets the step go on; the model allows both. The chip keeps its registers
through an outage; only the reset line clears them. Subnet mask and gateway follow the address and are left out; so are
message formats and the gratuitous ARP.

`NetService` is what a client is promised: an address that was configured, or
offered since the instrument was last reachable, which stays fixed while it is
reachable. An instrument whose main loop hangs answers nobody, which the service
does not tell from a slow one: it makes no promise of liveness. The refinement mapping is `service`, computed from `state`,
`dhcp_acquired` and `net_ip`.

### ScpiCore, UsbTmc, Vxi11Server, RemoteControl

`RemoteControl` composes three modules that share the variables of `ScpiCore`.
There is one thread: a step of `UsbTask` is one USB event with its callbacks or one
case of `usbtmc_app_task_iter`, a step of `NetTask` one poll of
`vxi11_server_task`. While `device_read` waits for `scpi_reply_ready` (`reading`)
neither happens; clients, TCP and the clock (`Outside`) go on.

*ScpiCore.* A transport hands over a *piece* of a command line: all of it, its
head without newline, or its tail. The parser does not know whose bytes it holds,
so pieces of both transports may meet in `scpi_input_buffer`; such a line cannot be
parsed and costs an error. Four commands stand for the rest by what they do here:
`idn` (a reply of two packets), `err` (`SYST:ERR?`, a short reply that takes an
error from the queue), `set` (no reply), `cls`. `ErrorsPushed` is
`SCPI_ErrorPush` with its overflow entry; `error_active` follows the callbacks of
the library. `reply`/`reply_len` is the buffer of `usbtmc_app.c` (old contents
stay), `reply_buf`/`reply_ready` the one VXI-11 reads.

*UsbTmc.* The driver's state machine, the two bulk endpoints, the application's
five `queryState`s, and a host that may send, read, trigger, abort, clear, clear a
halt or reset at any time. Lengths are in packets. Each action is one event with
everything it calls: `Take` is `handle_devMsgOutStart`/`handle_devMsgOut` with
`tud_usbtmc_msg_data_cb` and, at the end, `SCPI_Main_Input`. Only the last chunk of
a message reaches the parser, as in the code. A multi-packet reply is copied from
`reply[]` packet by packet (`TransferContinues`), so a VXI-11 query in between
shows. `got` (what the host has received), `asked` (the query whose reply a
transport may still count on) and `mixed` (the instrument has replied over VXI-11
since the USB host asked) are history variables.

*Vxi11Server.* One client connection with one call outstanding; TCP may split a
call; the server takes one `recv` for one call and drops parts. `device_read`
either answers at once or waits for the client's time-out, which nothing can
shorten because the waiting loop is what would produce the reply.

*ReplyChannel.* What a USB host is promised: the units of the answer it has coming
(`text`) are sent in order, each once, and the last of them, and no other, ends the
transfer; a host may ask something new only before the answer has begun. An answer
may be lost (`Forget`, which is also its end), and the host asks again. The channel is
shared: when the instrument replies over VXI-11, `SCPI_Write` hands that reply to
`setReply` as well. `Interfere` says what this does to an answer: behind one that waits
it is appended, or it does not fit; over one on its way it is written where that is not
sent yet, because `reply_len` is 0 by then, and the host gets a complete transfer that
ends strangely. Nothing else changes an answer; what was sent stands, a waiting one
stays whole and first, and a transfer has the length it began with. The mapping is
`Owed`, `Comes` (computed from `got` and `reply[]`), `Sent`, `Ended` and `Mixed`; a
left-over `buffer_tx_ix` gives the answer away. The channel does not say *when* an
answer may be lost: that a waiting one survives delays and aborted reads is
`UsbOwnReply`. A VXI-11 client gets its reply in one step, for which `VxiOwnReply` says
all there is to say.

Assumed of the USB host: it asks for at least as much as any reply or message holds
(`Request`, as VISA libraries do), sends the packets of a message in order, and
does not clear a halt of bulk-in, which the firmware never sets. Assumed of the VXI-11
client: the `requestSize` of `device_read` covers any reply. For less the server sends
the beginning with reason END and forgets the rest (`vxi11_server.c:181-186`), so that
`VxiOwnReply` would speak of a reply the client gets only in part. Requests the
driver refuses without a change of state (an abort of bulk-in with a tag above 127,
any abort in a wrong state) and requests that only answer
(`GET_CAPABILITIES`, `INDICATOR_PULSE`, `READ_STATUS_BYTE`) are no step. Left out: the portmapper's two
sockets, `link_id`, the SRQ bit, vendor-specific messages.

Met while modelling, and visible as the conditions of the properties:

- A query over VXI-11 changes what a USB host is sent. `SCPI_Write` hands every reply
  to `setReply` (`scpi_def.c:198-211`), which writes at `reply_len`
  (`usbtmc_app.c:207-212`): behind a reply that waits, over the packets not yet sent
  of one on its way. In the first case the host gets both replies in one transfer, in
  the second a transfer of the right length with a wrong end, and nothing tells it.
  The other way round, any input over USB takes back the reply a VXI-11 client has not
  read yet. `doc/docs/firmware/comms-api.md:30` names the unprotected buffer as a
  known limitation, so this is no finding. Hence `mixed` in `UsbOwnReply`, `Interfere`
  in `ReplyChannel`, and "USB has sent nothing since" in `VxiOwnReply`.
- An aborted read of a message that was being sent back leaves `buffer_tx_ix` set
  (`tud_usbtmc_initiate_abort_bulk_in_cb`): the next read is answered from the
  received command (`usbtmc_app.c:198`), or never. Hence `buffer_tx_ix = 0` in
  `UsbOwnReply` and `QueryServed`.
- A message refused as too long has set `buffer_len` to 0 and left `queryState`
  (`usbtmc_app.c:129`): a following read is never answered. Hence
  `reply_len + buffer_len > 0` in `QueryServed`.
- A trigger, which the capabilities announce, does not arm bulk-out again
  (`usbtmc_device.c:516`, `usbtmc_app.c:119`): the instrument listens only after
  the next clear, halt or reset. Hence no liveness is claimed of bulk-out.
- MAV stays set after a reply: the completion callback clears it only if
  `buffer_tx_ix == buffer_len`, which holds for a message sent back
  (`usbtmc_app.c:165-177`). Hence `MavBeforeReply` is one-directional.
- The tag test of `INITIATE_ABORT_BULK_OUT` is inverted (`usbtmc_device.c:671`):
  transfers with tags up to 127 are declared not in progress and go on. `Chunk`
  and `AbortBulkOut` model what follows.
- An RPC error reply announces 20 bytes and has 24 (`rpc.c:182`): no client can
  read it. Hence `CallAnswered` excludes unknown procedures.
- `socket()` and `close()` wait for the chip without a limit (`socket.c:337, 352, 384,
  393`). `w5500_net.c:137-139` says so and avoids `socket()` in one place, but
  `vxi11_server_task` calls it whenever the status of a socket reads 0
  (`vxi11_server.c:287`), as do `APPLY_IP`, `OPEN_SOCKETS` and `DHCP_run`, and
  `NET:APPLy` calls `close()`: a chip that falls silent in one of them may stop the
  firmware for good, with the servers open. Hence `Turning` in the premises of `ComesUp`
  and `GoesDown`.

## 3. Runs

Passing runs, each in one to two minutes or less:

| Run | Properties | Distinct states | Shows |
|---|---|---|---|
| `relay` | `TypeOK`, `TerminalRelaysFollowFlag`, `DigitsSpellValue`, `ReportedIsReal`, `NominalReadoutAgrees` | 12,662 | no sequence of commands lets flag, relays, digits, value and real resistance drift apart |
| `fram` | `TypeOK`, `OneFaultSafe`, `AcknowledgedIsMirrored`, `ImplementsStore` | 373,260 | one power cut or I2C error never loses a record; an acknowledged save left two good copies; loads with failing reads and repairs keep the promise of `NvStore` |
| `flash` | `TypeOK`, `CompletedWriteSurvives`, `NeverMixed`, `ImplementsStore` | 1,651,455 | a completed write survives everything that does not interrupt a write of its own page; no mixture of tables is ever loaded; until then the page keeps the promise of `NvStore` |
| `net` | `TypeOK`, `ServersWhileRunning`, `OneAddress`, `ImplementsService`, `ComesUp`, `GoesDown` | 1,259,744 | servers, address and state agree through outages of cable and chip; the machine comes up and goes down with the cable once the chip keeps answering, unless the main loop was caught in one of its two endless waits (after an address conflict; in `socket()` or `close()` on a silent chip) |
| `remote` | `TypeOK`, `EndpointsMatchState`, `UsbOwnReply`, `VxiOwnReply`, `MavBeforeReply`, `NoOverlappingReads`, `LedShowsErrors`, `ReplyForgottenWhenTaken`, `ImplementsChannel` | 3,530,320 | in every order of messages, reads, aborts, clears and resets of a USB host and calls of a VXI-11 client: driver and endpoints agree, its assertion holds, no reply is forgotten that the driver refused, LED and error queue agree. A USB host gets the whole reply to its own query and nothing else, provided that no sent-back message left `buffer_tx_ix` behind and that the instrument replied to nothing over VXI-11 since; with such a reply a waiting answer is still whole and first, and of one on its way `ImplementsChannel` keeps the part already sent, the length and the single end. A VXI-11 client gets the reply to its own query, provided that USB sent nothing since |
| `remote_live` | `QueryServed`, `CallAnswered`, `ListensAgain` | 109,567 | a read of a USB host and a call of a VXI-11 client are answered although both share one loop that `device_read` stops; the server listens again |

Bounds, and why they are enough:

- `relay`: two decades (0..99 Ohm) with every value and digit. Decades do not
  interact except through decade 1, which carries the terminal relays, so one
  ordinary decade beside it shows all cases; the proofs cover up to six. Three
  hand-settable relays: two of decade 1, one of the other, a bypass and a tap.
- `fram`: three values, so that the old, the new and the default differ;
  `MaxFaults = 2`, one more than the redundancy is meant to survive, so that the
  premise of `OneFaultSafe` is not vacuous at its edge.
- `flash`: two data words (30 on the board): the first and the last may come
  from different writes. Two tables, three network words.
- `net`: one static and two leased addresses (old and new), one `NET:APPLy`
  (`MaxRestarts = 1`); everything else is unbounded, cable and chip included.
- `remote`: messages of one packet (a query and `*CLS`), one of two (only its tail
  is parsed) and one that is too long; VXI-11 sends heads of lines and whole queries. A buffer of
  three packets holds one message; a reply buffer of three holds the long reply (two
  packets) and a short one behind it, but not two long ones, so that a VXI-11 reply is
  appended, refused for want of room, and written over either packet of a transfer;
  two pieces
  of input overrun on the third; an error queue of two entries fills up, overflows
  and drains. `remote_live` has smaller inputs with a whole VXI-11 query, a command
  without a reply and a refused message, the cases that decide liveness.

Fairness in `W5500Net`: weak fairness of `w5500_net_task`, because the loop of
`main()` calls it in every iteration, and of the passage of time (`elapsed`,
`chk_elapsed`), because SysTick counts. No fairness is assumed of cable, chip, DHCP
servers or user; what is needed of them is in the premises. Both properties speak of a
cable that stays in, or out, and a chip that answers from some time on, after any
outages before. And both exclude (`Turning`) that the main loop was caught for ever: in
the wait that `net_conflict` shows to be endless, or in `socket()` or `close()`. The
latter is an assumption about the chip: it was not silent when a socket command
was given, in `DHCP_RUN`, `APPLY_IP`, `OPEN_SOCKETS`, `RUNNING` or at `NET:APPLy`
(the guard of `Hang`), or only so briefly that the command went through. An outage
while the machine looks for the chip or waits for the cable needs no such assumption.

Fairness in `RemoteControl`: every iteration calls both tasks, but a VXI-11 client
may read, and so hold the loop up, again and again; between two such waits the loop
goes round once, so a step of a task that is possible in every such gap is taken.
That is strong fairness of `usbtmc_app_task_iter`, `vxi11_server_task` and the end
of a transfer the host has asked for. Weak fairness of `ReadTimeout` (the clock)
and of `SegmentArrives` (TCP). Hosts and clients need not send, read or stay.

The storage and relay modules state safety only. No run switches deadlock checking
off.

Runs that end in a violation, each a disagreement between the code and what a
comment or document says of it:

| Run | Says | Does |
|---|---|---|
| `relay_output_off` | output OFF closes SHORT (comments in `relay_ctrl.h`, `relay_ctrl.c`, `scpi_def.c`) | `relay_set_output(false)` only opens CONNECT |
| `relay_raw` | after `RELay:RAW` the value reads as unknown (command reference) | `current_resistance` keeps the old value |
| `flash_power_loss` | CRC and backup copy make the table safe against power loss | one copy, erased before it is rewritten: one cut loses it |
| `flash_net_torn` | corrupt settings fall back to defaults (`net_config.h`) | only the magic word is checked, so partly programmed settings are used |
| `net_conflict` | a non-blocking state machine (`w5500_net.c`) | the wait in `check_DHCP_leasedIP` needs ticks that only the blocked loop produces |
| `net_lease` | a new lease is applied in RUNNING | after a refused renewal the client leases again, but `DHCP_run` never answers `DHCP_IP_ASSIGN`, so the chip keeps the old address |

## 4. Proofs

All are checked by `tlapm`, from the named `ASSUME`s of the component modules
only (ranges of the constants; that a torn or blank cell is not a legal value).

**RelayCtrlProofs**, one to six decades. `TypeCorrect`; `TerminalRelays`;
`DigitsConsistent`; `ReportedResistance`; `NominalReadout`. `ReportedIsReal` is
not inductive, since the supply may be switched on later. The strengthening
`ShowsValue` says what the latched bytes would show; it needs that digits of a
value are 0..9 and sum up to it (a lemma on the division chain) and that
`DecadeOhms(decade_byte(digit)) = digit`.

**NvFramProofs**, any set of values and any number of faults. `TypeCorrect`,
`StorageInvariant`, `OneFault`, `Acknowledged`, `Refinement` (`Spec => Store!Spec`).
The invariant `StorageInv` says
for each record, depending on the transfer that comes next, which copy is good
and which values the copies may hold: without a fault the copies agree at rest;
while a save rewrites PRIMARY, BACKUP is good, and the other way round; and a
record whose turn has not come is untouched. `OneFaultSafe` speaks of the *next* boot,
with working reads; the refinement also of the load that happens, where the failed
read is itself the fault. Its lemma `LoadedFindable` needs one more clause of
`RestInv`: without a fault, a CRC in the FRAM always stands beside its own body.
So an old buffer that passes the CRC check of an unread PRIMARY holds the very value
that could not be read.

**NvFlashProofs**, tables of any length. `TypeCorrect`, `FlashInvariant`,
`TablesNeverMixed`, `CompletedWrites`, `RepairPutsBack`, `Refinement`. `FlashInv`
adds that the words before the one being programmed are already those of RAM and
that a table CRC on the page is that of a table whose write was tried. The refinement
needs `RepairInv`: a boot that rewrites a page no write of which was cut (the first boot
of a new board) writes what the last complete write put there, so it makes no new
value permanent. It rests on `CompletedWriteSurvives`.

**W5500NetProofs**, any sets of addresses and any number of restarts.
`TypeCorrect`, `ServersCorrect`, `AddressInvariant`, `AddressAgreed` and
`Refinement` (`Spec => Service!Spec`). `AddressInv` says that an address on its
way to the chip (requested, about to be applied, applied before the sockets
open) was configured or offered, and that a renewal never changes it. An address the
chip was told while it was silent is `Unknown`, and then `AddressAgreed` says nothing of
the chip's.

**RemoteControlProofs**, any sizes of queue and buffers, any sets of messages and
calls. `TypeCorrect`, `DriverAndEndpoints`, `ReadsDoNotOverlap`, `MavSet`,
`VxiReply`, `UsbReply`, `ReplyTaken`, `ErrorLed`. Three invariants need strengthening. `PositionInv` bounds
the position of a transfer by what is left of it: without it a transfer might run
past `reply[]`. `ReadInv` says that a request the application has noted lasts until
its transfer ends, and that a message being sent back has been counted whole.
`OwnReplyInv` says how far the transfer of the reply has come: `dev_in`,
`remaining` and `got` always split the reply at the same place, so the last packet
completes it; a request that waits is known to the driver with its full length, so
that the reply is not refused; a reset or cleared device owes nothing. Once VXI-11 has
been answered (`mixed`), it says this of the lengths only, and of the text only while it
waits. The proof goes once over the events that change the reply (`SCPI_Main_Input`, with a lemma on
what `setReply` stores) and once over those that move it. `ReplyTaken` is an action
property from the same invariant: the application forgets its reply without looking at
the result of the driver, and what it forgets is on its way, whole, because a request
the application remembers is one the driver still has, with its full length.

**ReplyChannelProofs**, under the same assumptions. `ChannelRefinement`
(`Spec => Channel!Spec`), the steps of VXI-11 included. `OwnReplyInv` says what is
being sent in one state; what one step makes of it needs the actions. `ChannelInv`
turns it into the variables of the channel. `StepOwed` sorts the steps of the USB side
after which a reply is still owed: a query is taken, the channel is left alone, or a
unit is sent; no step leads out of a transfer while its answer stays owed. `FirstUnit`
and `NextUnit` show that the unit sent is the right one and ends the transfer exactly
when it is the last. `WrittenBehind` and `WrittenOver` show what a VXI-11 reply does to
`reply[]`: it goes behind a reply that waits, or does not fit, and changes of one on its
way only what is not sent.

Every leaf of the proofs needs a small part of the time the provers are given: all
modules still prove when the time limits are cut to 15 percent
(`tlapm --stretch 0.15`), so that a slower machine proves them too.

Only model-checked: the liveness properties (`ComesUp`, `GoesDown`, `QueryServed`,
`CallAnswered`, `ListensAgain`), as liveness
under fairness and `ENABLED` are beyond the prover. No module declares a
`RECURSIVE` operator, and nothing needs induction over data: sums over decades
are written out, because there are at most six.

## 5. Not modelled

- Third-party code: STM32 HAL and CMSIS, start-up code, the TinyUSB core, the
  W5500 socket library and the drivers of other WIZnet chips, libscpi's lexer,
  expression and unit code. They are most of the lines of the repository; what this
  firmware relies on is modelled by how it uses them (endpoint states, socket
  states, flash and FRAM transfers, parser input, error queue).
- Constant tables and pure text: USB descriptors, DHCP, mDNS, RPC and XDR formats,
  the texts of replies, number formatting.
- The portmapper (answers a constant, keeps nothing), mDNS queries (each answered
  from one copied address, whose agreement `OneAddress` states).
- The 20 ms debounce of USB detect: its effect, a disconnect at any time, is
  `BusReset`. Serial number and MAC are constants of the hardware, read once.
- Host-side test tools, board and case files.

See also the "left out" notes above.

## 6. Plan

Done: relay driver, storage, network, both transports over one SCPI stack, and
abstract specifications of storage, network and replies that the detailed ones are
proved to implement.

What is left, most important first: the composition of `NvFlash` and `W5500Net`
(settings changed, saved and applied), in which the settings meant to be in force
become state, so that the effect of `NET:` commands that were never applied can be
stated; a second VXI-11 client, which the one socket keeps waiting.
