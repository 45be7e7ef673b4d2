------------------------------ MODULE RelayCtrl ------------------------------
(***************************************************************************)
(* The relay driver App/relay/relay_ctrl.c and the SCPI handlers of        *)
(* App/scpi_def.c that drive it.                                           *)
(*                                                                         *)
(* Six shift-register bytes switch six resistor decades; the byte of       *)
(* decade 1 also carries the two terminal relays, Q6 = CONNECT (the chain  *)
(* is wired to the terminals) and Q7 = SHORT (the terminals are shorted).  *)
(* A byte is the set of its closed relays, and the arrays are indexed by   *)
(* decade (1 = 1 Ohm) where the C code uses index 6 - decade.              *)
(*                                                                         *)
(* Every handler runs to completion inside the main loop and no interrupt  *)
(* touches this state, so one handler is one step.                         *)
(*                                                                         *)
(* A definition named X_bug is X with a plausible fault; it is used only   *)
(* to see that a property notices the fault.                               *)
(***************************************************************************)
EXTENDS Integers, FiniteSets

CONSTANTS
    NDecades,                  \* 6 on the board
    RELAY_RESISTANCE_UNKNOWN,  \* UINT32_MAX in the code
    RelayInputs                \* the <<decade, bit>> pairs RELay:... may name

Decades  == 1..NDecades
Scale    == <<1, 10, 100, 1000, 10000, 100000>>
MaxOhms  == 10 * Scale[NDecades] - 1          \* 999999 with six decades
Q        == 0..7                              \* outputs of one STPIC6C595
CONNECT  == 6
SHORT    == 7

ASSUME NDecadesAssumption == NDecades \in 1..6
ASSUME UnknownAssumption ==
    RELAY_RESISTANCE_UNKNOWN \in Nat /\ RELAY_RESISTANCE_UNKNOWN > 999999
ASSUME RelayInputsAssumption == RelayInputs \subseteq Decades \X (0..5)

VARIABLES
    relay_state,         \* [Decades -> SUBSET Q]: the bytes last latched
    decade_digits,       \* [Decades -> 0..9]: the digits last asked for
    current_resistance,  \* ohms, or RELAY_RESISTANCE_UNKNOWN
    output_connected,    \* the OUTPut:STATe? flag
    relay_en_state,      \* REL_EN: FALSE leaves every coil without supply
    raw_written          \* history: RELay:RAW wrote the bytes since the last
                         \* command that sets them from current_resistance

vars == <<relay_state, decade_digits, current_resistance, output_connected,
          relay_en_state, raw_written>>

-----------------------------------------------------------------------------
(* Encoding of ohms into relay bytes.                                      *)

\* The digit of decade d, as the division chain r / scale, r %= scale finds it.
Digit(ohms, d) ==
    (IF d = NDecades THEN ohms ELSE ohms % Scale[d + 1]) \div Scale[d]

DigitsOf(ohms) == [d \in Decades |-> Digit(ohms, d)]

Part(digits, d) == IF d \in Decades THEN digits[d] * Scale[d] ELSE 0

Part_bug(digits, d) == IF d \in Decades THEN digits[d] * Scale[d + 1] ELSE 0

OhmsOf_bug(digits) ==
    Part_bug(digits, 1) + Part_bug(digits, 2) + Part_bug(digits, 3)
        + Part_bug(digits, 4) + Part_bug(digits, 5)

\* relay_set_decade's sum over the six decades.
OhmsOf(digits) ==
    Part(digits, 1) + Part(digits, 2) + Part(digits, 3)
        + Part(digits, 4) + Part(digits, 5) + Part(digits, 6)

\* The relays that make one decade show the given digit.
decade_byte(digit) ==
    IF digit \in 0..9
    THEN << {0}, {2}, {1, 3}, {3}, {1, 4}, {4}, {1, 5}, {5}, {1}, {} >>[digit + 1]
    ELSE {}

AllOff == [d \in Decades |-> {}]

build_data(ohms) == [d \in Decades |-> decade_byte(Digit(ohms, d))]

apply_output_bug(data, ohms) ==
    [data EXCEPT ![1] = IF ohms = 0 THEN (@ \ {CONNECT}) \cup {SHORT}
                                    ELSE @ \cup {CONNECT}]

\* The terminal relays for a value: SHORT alone for 0 Ohm, CONNECT alone else.
apply_output(data, ohms) ==
    [data EXCEPT ![1] = IF ohms = 0 THEN (@ \ {CONNECT}) \cup {SHORT}
                                    ELSE (@ \ {SHORT}) \cup {CONNECT}]

\* What relay_set_resistance and relay_set_decade latch.
RelaysFor(ohms) ==
    apply_output(IF ohms = 0 THEN AllOff ELSE build_data(ohms), ohms)

\* What relay_set_output(true) latches.
RelaysReconnected(data, ohms) ==
    apply_output(IF ohms \in {0, RELAY_RESISTANCE_UNKNOWN} THEN data ELSE build_data(ohms),
                 IF ohms = RELAY_RESISTANCE_UNKNOWN THEN 1 ELSE ohms)

-----------------------------------------------------------------------------
(* State and handlers.                                                     *)

\* relay_init and the static initialisers; main() leaves REL_EN low.
Init ==
    /\ relay_state = AllOff
    /\ decade_digits = [d \in Decades |-> 0]
    /\ current_resistance = 0
    /\ output_connected = FALSE
    /\ relay_en_state = FALSE
    /\ raw_written = FALSE

\* RESistance:VALue <ohms>; values above MaxOhms are refused by the handler.
relay_set_resistance(ohms) ==
    /\ current_resistance' = ohms
    /\ decade_digits' = DigitsOf(ohms)
    /\ relay_state' = RelaysFor(ohms)
    /\ output_connected' = TRUE
    /\ raw_written' = FALSE
    /\ UNCHANGED relay_en_state

\* OUTPut:STATe OFF: only CONNECT is opened, every other relay stays.
relay_set_output_off ==
    /\ output_connected' = FALSE
    /\ relay_state' = [relay_state EXCEPT ![1] = @ \ {CONNECT}]
    /\ UNCHANGED <<decade_digits, current_resistance, relay_en_state, raw_written>>

\* OUTPut:STATe ON: re-applies current_resistance, or keeps hand-set relays.
relay_set_output_on ==
    /\ output_connected' = TRUE
    /\ relay_state' = RelaysReconnected(relay_state, current_resistance)
    /\ raw_written' = (raw_written /\ current_resistance = RELAY_RESISTANCE_UNKNOWN)
    /\ UNCHANGED <<decade_digits, current_resistance, relay_en_state>>

relay_set_decade_bug(decade, digit) ==
    LET ohms == OhmsOf([decade_digits EXCEPT ![decade] = digit])
    IN  /\ current_resistance' = ohms
        /\ relay_state' = RelaysFor(ohms)
        /\ output_connected' = TRUE
        /\ raw_written' = FALSE
        /\ UNCHANGED <<decade_digits, relay_en_state>>

\* RESistance:DECade <decade>,<digit>.
relay_set_decade(decade, digit) ==
    LET digits == [decade_digits EXCEPT ![decade] = digit]
        ohms   == OhmsOf(digits)
    IN  /\ decade_digits' = digits
        /\ current_resistance' = ohms
        /\ relay_state' = RelaysFor(ohms)
        /\ output_connected' = TRUE
        /\ raw_written' = FALSE
        /\ UNCHANGED relay_en_state

relay_set_bit_bug(decade, bit, on) ==
    /\ relay_state' = [relay_state EXCEPT
                          ![decade] = IF on THEN @ \cup {bit} ELSE @ \ {bit}]
    /\ UNCHANGED <<decade_digits, current_resistance, output_connected,
                   relay_en_state, raw_written>>

\* RELay:STATe <decade>,<bit>,<on>.
relay_set_bit(decade, bit, on) ==
    /\ relay_state' = [relay_state EXCEPT
                          ![decade] = IF on THEN @ \cup {bit} ELSE @ \ {bit}]
    /\ current_resistance' = RELAY_RESISTANCE_UNKNOWN
    /\ UNCHANGED <<decade_digits, output_connected, relay_en_state, raw_written>>

\* RELay:RAW <token>,...: the bytes are rebuilt from the tokens alone and the
\* terminal relays follow the output flag.
SCPI_RelayRawSet(tokens) ==
    LET named == [d \in Decades |-> {t[2] : t \in {u \in tokens : u[1] = d}}]
    IN  /\ relay_state' = [named EXCEPT ![1] =
                              @ \cup (IF output_connected THEN {CONNECT} ELSE {SHORT})]
        /\ raw_written' = TRUE
        /\ UNCHANGED <<decade_digits, current_resistance, output_connected, relay_en_state>>

\* *RST: relay_set_resistance(0); relay_set_output(true).
SCPI_Reset ==
    /\ current_resistance' = 0
    /\ decade_digits' = DigitsOf(0)
    /\ relay_state' = RelaysReconnected(RelaysFor(0), 0)
    /\ output_connected' = TRUE
    /\ raw_written' = FALSE
    /\ UNCHANGED relay_en_state

\* OUTPut:RELay:ENable ON|OFF.
relay_enable(en) ==
    /\ relay_en_state' = en
    /\ UNCHANGED <<relay_state, decade_digits, current_resistance, output_connected,
                   raw_written>>

Next ==
    \/ \E ohms \in 0..MaxOhms : relay_set_resistance(ohms)
    \/ relay_set_output_off
    \/ relay_set_output_on
    \/ \E decade \in Decades, digit \in 0..9 : relay_set_decade(decade, digit)
    \/ \E t \in RelayInputs, on \in BOOLEAN : relay_set_bit(t[1], t[2], on)
    \/ \E tokens \in (SUBSET RelayInputs) \ {{}} : SCPI_RelayRawSet(tokens)
    \/ SCPI_Reset
    \/ \E en \in BOOLEAN : relay_enable(en)

Spec == Init /\ [][Next]_vars

-----------------------------------------------------------------------------
(* The queries.                                                            *)

Unknown == current_resistance = RELAY_RESISTANCE_UNKNOWN

\* relay_get_decade_digit: 255 (0xFF) once a relay was set by hand.
relay_get_decade_digit(d) == IF Unknown THEN 255 ELSE decade_digits[d]

nominal_milliohm_bug(d, digit) == digit * Scale[d]

\* fill_nominal: milliohms of a digit.
nominal_milliohm(d, digit) == digit * Scale[d] * 1000

\* relay_cal_total_milliohm over a table of nominal entries.
CalEntry(d) ==
    IF d \in Decades
    THEN nominal_milliohm(d, IF relay_get_decade_digit(d) = 255 THEN 0
                                                  ELSE relay_get_decade_digit(d))
    ELSE 0

relay_cal_total_milliohm ==
    CalEntry(1) + CalEntry(2) + CalEntry(3) + CalEntry(4) + CalEntry(5) + CalEntry(6)

-----------------------------------------------------------------------------
(* The resistor network behind the relays, from the drawing at the head of *)
(* relay_ctrl.c: a string 1-2-2-2-2 whose taps Q2..Q5 lead to the decade's *)
(* output, Q0 bridges the decade and Q1 bridges the first resistor. Only   *)
(* the first closed tap carries current.                                   *)

Untapped(byte) ==
    IF 2 \in byte THEN 0 ELSE IF 3 \in byte THEN 1
    ELSE IF 4 \in byte THEN 2 ELSE IF 5 \in byte THEN 3 ELSE 4

DecadeOhms(byte) ==
    IF 0 \in byte THEN 0 ELSE (IF 1 \in byte THEN 0 ELSE 1) + 2 * Untapped(byte)

ChainOhms(state) == OhmsOf([d \in Decades |-> DecadeOhms(state[d])])

Open == -1   \* no path between the terminals

\* What a meter at the terminals reads.
TerminalOhms ==
    IF ~relay_en_state THEN Open
    ELSE IF SHORT \in relay_state[1] THEN 0
    ELSE IF CONNECT \in relay_state[1] THEN ChainOhms(relay_state)
    ELSE Open

-----------------------------------------------------------------------------
(* Properties.                                                             *)

\* The driver's variables stay in their ranges: six bytes whose protection
\* relays exist only in decade 1, digits 0-9, a value of at most MaxOhms or
\* the unknown mark.
TypeOK ==
    /\ relay_state \in [Decades -> SUBSET Q]
    /\ \A d \in Decades \ {1} : relay_state[d] \subseteq 0..5
    /\ decade_digits \in [Decades -> 0..9]
    /\ current_resistance \in (0..MaxOhms) \cup {RELAY_RESISTANCE_UNKNOWN}
    /\ output_connected \in BOOLEAN
    /\ relay_en_state \in BOOLEAN
    /\ raw_written \in BOOLEAN

\* The output flag and the two terminal relays never drift apart, whatever
\* sequence of value, decade, raw, bit and output commands ran: with the flag
\* set exactly one of CONNECT and SHORT is closed, with it clear CONNECT is open.
TerminalRelaysFollowFlag ==
    IF output_connected
    THEN (CONNECT \in relay_state[1]) # (SHORT \in relay_state[1])
    ELSE CONNECT \notin relay_state[1]

\* While the value is known, the per-decade digits RESistance:DECade? reports
\* spell the value RESistance:VALue? reports, also after single-relay commands
\* left the digits behind and a decade command picked them up again.
DigitsSpellValue == ~Unknown => current_resistance = OhmsOf(decade_digits)

\* The value the instrument reports is the resistance its relays really put on
\* the terminals: supply on, output on, value known and no RELay:RAW since.
ReportedIsReal ==
    relay_en_state /\ output_connected /\ ~Unknown /\ ~raw_written
        => TerminalOhms = current_resistance

\* ReportedIsReal without the supply: what the latched bytes would show. It is
\* inductive together with TypeOK, ReportedIsReal alone is not (the supply may
\* be switched on later).
ShowsValue ==
    output_connected /\ ~Unknown /\ ~raw_written =>
        IF current_resistance = 0
        THEN SHORT \in relay_state[1]
        ELSE /\ SHORT \notin relay_state[1]
             /\ CONNECT \in relay_state[1]
             /\ ChainOhms(relay_state) = current_resistance

\* With nominal calibration entries, the calibrated readout (milliohms) and the
\* plain readout (ohms) of RESistance:VALue? agree for every known value.
NominalReadoutAgrees == ~Unknown => relay_cal_total_milliohm = 1000 * current_resistance

\* What relay_ctrl.h, relay_ctrl.c and scpi_def.c say of output OFF: the SHORT
\* relay is closed, so the terminals are shorted.
OutputOffShorts ==
    [][relay_set_output_off => SHORT \in relay_state'[1]]_vars

\* What the command reference says of RELay:RAW: afterwards the value is unknown.
RawMakesUnknown == raw_written => Unknown
=============================================================================
