--------------------------- MODULE RelayCtrlProofs ---------------------------
EXTENDS RelayCtrl, TLAPS

\* The decade weights, for every number of decades the board may have.
LEMMA ScaleValues ==
  /\ Scale[1] = 1     /\ Scale[2] = 10     /\ Scale[3] = 100
  /\ Scale[4] = 1000  /\ Scale[5] = 10000  /\ Scale[6] = 100000
BY SMT DEF Scale

\* The largest settable value of each board size.
LEMMA MaxOhmsValues ==
  /\ NDecades = 1 => MaxOhms = 9
  /\ NDecades = 2 => MaxOhms = 99
  /\ NDecades = 3 => MaxOhms = 999
  /\ NDecades = 4 => MaxOhms = 9999
  /\ NDecades = 5 => MaxOhms = 99999
  /\ NDecades = 6 => MaxOhms = 999999
BY ScaleValues, SMT DEF MaxOhms

\* ... and its bounds, which keep it apart from RELAY_RESISTANCE_UNKNOWN.
LEMMA MaxOhmsNat == MaxOhms \in Nat /\ 9 <= MaxOhms /\ MaxOhms <= 999999
<1>1. NDecades = 1 \/ NDecades = 2 \/ NDecades = 3 \/ NDecades = 4 \/ NDecades = 5 \/ NDecades = 6
  BY NDecadesAssumption
<1>2. MaxOhms \in {9, 99, 999, 9999, 99999, 999999}
  BY <1>1, MaxOhmsValues, SMT
<1> QED  BY <1>2, SMT

\* 0 Ohm is always settable (*RST sets it).
LEMMA ZeroAdmissible == 0 \in 0..MaxOhms
BY MaxOhmsNat, SMT

\* A decade's digit written without the IF: division and remainder by its weight.
LEMMA DigitValue ==
  ASSUME NEW ohms \in 0..MaxOhms
  PROVE  /\ 1 \in Decades => Digit(ohms, 1) = ohms % 10
         /\ 2 \in Decades => Digit(ohms, 2) = (ohms % 100) \div 10
         /\ 3 \in Decades => Digit(ohms, 3) = (ohms % 1000) \div 100
         /\ 4 \in Decades => Digit(ohms, 4) = (ohms % 10000) \div 1000
         /\ 5 \in Decades => Digit(ohms, 5) = (ohms % 100000) \div 10000
         /\ 6 \in Decades => Digit(ohms, 6) = ohms \div 100000
<1> USE ScaleValues, MaxOhmsValues, NDecadesAssumption DEF Decades
<1>0. ohms \in Nat  BY MaxOhmsNat, SMT
<1>1. 1 \in Decades => Digit(ohms, 1) = ohms % 10  BY <1>0, SMT DEF Digit
<1>2. 2 \in Decades => Digit(ohms, 2) = (ohms % 100) \div 10  BY <1>0, SMT DEF Digit
<1>3. 3 \in Decades => Digit(ohms, 3) = (ohms % 1000) \div 100  BY <1>0, SMT DEF Digit
<1>4. 4 \in Decades => Digit(ohms, 4) = (ohms % 10000) \div 1000  BY <1>0, SMT DEF Digit
<1>5. 5 \in Decades => Digit(ohms, 5) = (ohms % 100000) \div 10000  BY <1>0, SMT DEF Digit
<1>6. 6 \in Decades => Digit(ohms, 6) = ohms \div 100000  BY <1>0, SMT DEF Digit
<1> QED  BY <1>1, <1>2, <1>3, <1>4, <1>5, <1>6

\* Every decade of an admissible value is a decimal digit.
LEMMA DigitRange ==
  ASSUME NEW ohms \in 0..MaxOhms, NEW d \in Decades
  PROVE  Digit(ohms, d) \in 0..9
<1>0. ohms \in Nat /\ ohms <= 999999  BY MaxOhmsNat, SMT
<1>1. d \in {1, 2, 3, 4, 5, 6}  BY NDecadesAssumption DEF Decades
<1> QED  BY <1>0, <1>1, DigitValue, SMT

\* DigitsOf is a digit per decade.
LEMMA DigitsType ==
  ASSUME NEW ohms \in 0..MaxOhms
  PROVE  DigitsOf(ohms) \in [Decades -> 0..9]
BY DigitRange DEF DigitsOf

\* Decade 1, which carries the terminal relays, exists on every board.
LEMMA DecadeOne == 1 \in Decades /\ Decades \subseteq 1..6
BY NDecadesAssumption DEF Decades

\* One term of relay_set_decade's sum, for the digits of a value: above the
\* board's last decade both the term and the formula are zero.
LEMMA PartValue ==
  ASSUME NEW ohms \in 0..MaxOhms
  PROVE  /\ Part(DigitsOf(ohms), 1) = ohms % 10
         /\ Part(DigitsOf(ohms), 2) = ((ohms % 100) \div 10) * 10
         /\ Part(DigitsOf(ohms), 3) = ((ohms % 1000) \div 100) * 100
         /\ Part(DigitsOf(ohms), 4) = ((ohms % 10000) \div 1000) * 1000
         /\ Part(DigitsOf(ohms), 5) = ((ohms % 100000) \div 10000) * 10000
         /\ Part(DigitsOf(ohms), 6) = (ohms \div 100000) * 100000
<1>0. ohms \in Nat /\ ohms <= MaxOhms  BY MaxOhmsNat, SMT
<1>1. \A d \in Decades : Part(DigitsOf(ohms), d) = Digit(ohms, d) * Scale[d]
  BY DEF Part, DigitsOf
<1>2. \A d \in 1..6 : d \notin Decades => Part(DigitsOf(ohms), d) = 0
  BY DEF Part
<1>3. /\ 2 \notin Decades => ohms <= 9
      /\ 3 \notin Decades => ohms <= 99
      /\ 4 \notin Decades => ohms <= 999
      /\ 5 \notin Decades => ohms <= 9999
      /\ 6 \notin Decades => ohms <= 99999
  BY <1>0, MaxOhmsValues, NDecadesAssumption, SMT DEF Decades
<1> USE <1>0, <1>1, <1>2, <1>3, DigitValue, ScaleValues
<1>4. Part(DigitsOf(ohms), 1) = ohms % 10  BY DecadeOne, SMT
<1>5. Part(DigitsOf(ohms), 2) = ((ohms % 100) \div 10) * 10
  <2>1. CASE 2 \in Decades  BY <2>1, SMT
  <2>2. CASE 2 \notin Decades  BY <2>2, SMT
  <2> QED  BY <2>1, <2>2
<1>6. Part(DigitsOf(ohms), 3) = ((ohms % 1000) \div 100) * 100
  <2>1. CASE 3 \in Decades  BY <2>1, SMT
  <2>2. CASE 3 \notin Decades  BY <2>2, SMT
  <2> QED  BY <2>1, <2>2
<1>7. Part(DigitsOf(ohms), 4) = ((ohms % 10000) \div 1000) * 1000
  <2>1. CASE 4 \in Decades  BY <2>1, SMT
  <2>2. CASE 4 \notin Decades  BY <2>2, SMT
  <2> QED  BY <2>1, <2>2
<1>8. Part(DigitsOf(ohms), 5) = ((ohms % 100000) \div 10000) * 10000
  <2>1. CASE 5 \in Decades  BY <2>1, SMT
  <2>2. CASE 5 \notin Decades  BY <2>2, SMT
  <2> QED  BY <2>1, <2>2
<1>9. Part(DigitsOf(ohms), 6) = (ohms \div 100000) * 100000
  <2>1. CASE 6 \in Decades  BY <2>1, SMT
  <2>2. CASE 6 \notin Decades  BY <2>2, SMT
  <2> QED  BY <2>1, <2>2
<1> QED  BY <1>4, <1>5, <1>6, <1>7, <1>8, <1>9

\* build_data's division chain loses nothing: the digits add up to the value.
LEMMA DigitsSum ==
  ASSUME NEW ohms \in 0..MaxOhms
  PROVE  OhmsOf(DigitsOf(ohms)) = ohms
<1>0. ohms \in Nat  BY MaxOhmsNat, SMT
<1> QED  BY <1>0, PartValue, SMT DEF OhmsOf

\* relay_set_decade's sum of any six digits is an admissible value.
LEMMA OhmsRange ==
  ASSUME NEW digits \in [Decades -> 0..9]
  PROVE  OhmsOf(digits) \in 0..MaxOhms
<1> USE ScaleValues, NDecadesAssumption DEF Part, Decades
<1>1. \A d \in Decades : digits[d] \in 0..9  OBVIOUS
<1>2. Part(digits, 1) \in Nat /\ Part(digits, 1) <= 9  BY <1>1, SMT
<1>3. Part(digits, 2) \in Nat /\ Part(digits, 2) <= (IF NDecades >= 2 THEN 90 ELSE 0)  BY <1>1, SMT
<1>4. Part(digits, 3) \in Nat /\ Part(digits, 3) <= (IF NDecades >= 3 THEN 900 ELSE 0)  BY <1>1, SMT
<1>5. Part(digits, 4) \in Nat /\ Part(digits, 4) <= (IF NDecades >= 4 THEN 9000 ELSE 0)  BY <1>1, SMT
<1>6. Part(digits, 5) \in Nat /\ Part(digits, 5) <= (IF NDecades >= 5 THEN 90000 ELSE 0)  BY <1>1, SMT
<1>7. Part(digits, 6) \in Nat /\ Part(digits, 6) <= (IF NDecades >= 6 THEN 900000 ELSE 0)  BY <1>1, SMT
<1> HIDE DEF Part, Decades
<1> QED  BY <1>2, <1>3, <1>4, <1>5, <1>6, <1>7, MaxOhmsValues, MaxOhmsNat, SMT DEF OhmsOf

-----------------------------------------------------------------------------
(* The relays of a value.                                                    *)

\* decade_byte drives Q0..Q5 only, and the resistor string then shows the digit.
LEMMA ByteShowsDigit ==
  ASSUME NEW digit \in 0..9
  PROVE  /\ decade_byte(digit) \subseteq 0..5
         /\ DecadeOhms(decade_byte(digit)) = digit
<1>1. digit \in {0, 1, 2, 3, 4, 5, 6, 7, 8, 9}  OBVIOUS
<1>2. /\ decade_byte(0) = {0}     /\ decade_byte(1) = {2}  /\ decade_byte(2) = {1, 3}
      /\ decade_byte(3) = {3}     /\ decade_byte(4) = {1, 4}  /\ decade_byte(5) = {4}
      /\ decade_byte(6) = {1, 5}  /\ decade_byte(7) = {5}  /\ decade_byte(8) = {1}
      /\ decade_byte(9) = {}
  BY DEF decade_byte
<1> QED  BY <1>1, <1>2 DEF DecadeOhms, Untapped

\* The terminal relays share decade 1's byte but not its resistor string.
LEMMA TerminalBitsInert ==
  ASSUME NEW byte
  PROVE  /\ DecadeOhms((byte \ {SHORT}) \cup {CONNECT}) = DecadeOhms(byte)
         /\ DecadeOhms((byte \ {CONNECT}) \cup {SHORT}) = DecadeOhms(byte)
BY DEF DecadeOhms, Untapped, SHORT, CONNECT

\* build_data never touches the terminal relays.
LEMMA BuildDataType ==
  ASSUME NEW ohms \in 0..MaxOhms
  PROVE  build_data(ohms) \in [Decades -> SUBSET (0..5)]
BY DigitRange, ByteShowsDigit DEF build_data

\* apply_output sets exactly one terminal relay and leaves the other decades alone.
LEMMA ApplyOutputType ==
  ASSUME NEW data \in [Decades -> SUBSET Q], NEW ohms,
         \A d \in Decades \ {1} : data[d] \subseteq 0..5
  PROVE  /\ apply_output(data, ohms) \in [Decades -> SUBSET Q]
         /\ \A d \in Decades \ {1} : apply_output(data, ohms)[d] \subseteq 0..5
         /\ ohms = 0 => SHORT \in apply_output(data, ohms)[1]
                        /\ CONNECT \notin apply_output(data, ohms)[1]
         /\ ohms # 0 => SHORT \notin apply_output(data, ohms)[1]
                        /\ CONNECT \in apply_output(data, ohms)[1]
BY DecadeOne DEF apply_output, Q, SHORT, CONNECT

\* A non-zero value's bytes, however they are completed by apply_output, put
\* exactly that value on the chain.
LEMMA ChainShowsValue ==
  ASSUME NEW ohms \in 0..MaxOhms, ohms # 0
  PROVE  ChainOhms(apply_output(build_data(ohms), ohms)) = ohms
<1> DEFINE data == build_data(ohms)
           out  == apply_output(data, ohms)
<1>1. data \in [Decades -> SUBSET (0..5)]  BY BuildDataType
<1>2. \A d \in Decades : DecadeOhms(data[d]) = Digit(ohms, d)
  BY DigitRange, ByteShowsDigit DEF build_data
<1>3. \A d \in Decades : DecadeOhms(out[d]) = DecadeOhms(data[d])
  <2>1. out[1] = (data[1] \ {SHORT}) \cup {CONNECT}  BY <1>1, DecadeOne DEF apply_output
  <2>2. \A d \in Decades \ {1} : out[d] = data[d]  BY <1>1 DEF apply_output
  <2> QED  BY <2>1, <2>2, TerminalBitsInert
<1>4. [d \in Decades |-> DecadeOhms(out[d])] = DigitsOf(ohms)  BY <1>2, <1>3 DEF DigitsOf
<1> QED  BY <1>4, DigitsSum DEF ChainOhms

\* What RESistance:VALue, RESistance:DECade and *RST latch for a value.
LEMMA RelaysForValue ==
  ASSUME NEW ohms \in 0..MaxOhms
  PROVE  /\ RelaysFor(ohms) \in [Decades -> SUBSET Q]
         /\ \A d \in Decades \ {1} : RelaysFor(ohms)[d] \subseteq 0..5
         /\ ohms = 0 => SHORT \in RelaysFor(ohms)[1] /\ CONNECT \notin RelaysFor(ohms)[1]
         /\ ohms # 0 => /\ SHORT \notin RelaysFor(ohms)[1]
                        /\ CONNECT \in RelaysFor(ohms)[1]
                        /\ ChainOhms(RelaysFor(ohms)) = ohms
<1> DEFINE data == IF ohms = 0 THEN AllOff ELSE build_data(ohms)
<1>1. data \in [Decades -> SUBSET (0..5)]  BY BuildDataType DEF AllOff
<1>2. /\ data \in [Decades -> SUBSET Q]
      /\ \A d \in Decades \ {1} : data[d] \subseteq 0..5
  BY <1>1 DEF Q
<1>3. RelaysFor(ohms) = apply_output(data, ohms)  BY DEF RelaysFor
<1>4. ohms # 0 => ChainOhms(RelaysFor(ohms)) = ohms  BY <1>3, ChainShowsValue
<1> HIDE DEF data
<1> QED  BY <1>2, <1>3, <1>4, ApplyOutputType

\* What OUTPut:STATe ON latches, over bytes that may have been set by hand.
LEMMA ReconnectedValue ==
  ASSUME NEW data \in [Decades -> SUBSET Q],
         \A d \in Decades \ {1} : data[d] \subseteq 0..5,
         NEW ohms \in (0..MaxOhms) \cup {RELAY_RESISTANCE_UNKNOWN}
  PROVE  LET out == RelaysReconnected(data, ohms) IN
         /\ out \in [Decades -> SUBSET Q]
         /\ \A d \in Decades \ {1} : out[d] \subseteq 0..5
         /\ ohms = 0 => SHORT \in out[1] /\ CONNECT \notin out[1]
         /\ ohms # 0 => SHORT \notin out[1] /\ CONNECT \in out[1]
         /\ ohms \notin {0, RELAY_RESISTANCE_UNKNOWN} => ChainOhms(out) = ohms
<1>0. RELAY_RESISTANCE_UNKNOWN # 0 /\ RELAY_RESISTANCE_UNKNOWN \notin 0..MaxOhms
  BY UnknownAssumption, MaxOhmsNat, SMT
<1> DEFINE base == IF ohms \in {0, RELAY_RESISTANCE_UNKNOWN} THEN data ELSE build_data(ohms)
           shown == IF ohms = RELAY_RESISTANCE_UNKNOWN THEN 1 ELSE ohms
<1>1. /\ base \in [Decades -> SUBSET Q]
      /\ \A d \in Decades \ {1} : base[d] \subseteq 0..5
  BY BuildDataType DEF Q
<1>2. RelaysReconnected(data, ohms) = apply_output(base, shown)  BY DEF RelaysReconnected
<1>3. (shown = 0) <=> (ohms = 0)  BY <1>0
<1>4. ohms \notin {0, RELAY_RESISTANCE_UNKNOWN}
        => ChainOhms(RelaysReconnected(data, ohms)) = ohms
  BY <1>2, ChainShowsValue
<1> HIDE DEF base, shown
<1> QED  BY <1>1, <1>2, <1>3, <1>4, ApplyOutputType

-----------------------------------------------------------------------------
(* Invariants.                                                               *)

\* The driver's variables keep their ranges, whatever commands arrive.
THEOREM TypeCorrect == Spec => []TypeOK
<1>1. Init => TypeOK
  <2> SUFFICES ASSUME Init PROVE TypeOK
    OBVIOUS
  <2>1. /\ relay_state \in [Decades -> SUBSET Q]
        /\ \A d \in Decades \ {1} : relay_state[d] \subseteq 0..5
    BY DEF Init, AllOff
  <2>2. decade_digits \in [Decades -> 0..9]  BY DEF Init
  <2> QED  BY <2>1, <2>2, ZeroAdmissible DEF Init, TypeOK
<1>2. TypeOK /\ [Next]_vars => TypeOK'
  <2> SUFFICES ASSUME TypeOK, [Next]_vars PROVE TypeOK'
    OBVIOUS
  <2>1. ASSUME NEW ohms \in 0..MaxOhms, relay_set_resistance(ohms) PROVE TypeOK'
    BY <2>1, RelaysForValue, DigitsType DEF relay_set_resistance, TypeOK
  <2>2. CASE relay_set_output_off
    BY <2>2, DecadeOne DEF relay_set_output_off, TypeOK
  <2>3. CASE relay_set_output_on
    BY <2>3, ReconnectedValue DEF relay_set_output_on, TypeOK
  <2>4. ASSUME NEW decade \in Decades, NEW digit \in 0..9, relay_set_decade(decade, digit)
        PROVE  TypeOK'
    <3>1. [decade_digits EXCEPT ![decade] = digit] \in [Decades -> 0..9]  BY DEF TypeOK
    <3> QED  BY <2>4, <3>1, OhmsRange, RelaysForValue DEF relay_set_decade, TypeOK
  <2>5. ASSUME NEW t \in RelayInputs, NEW on \in BOOLEAN, relay_set_bit(t[1], t[2], on)
        PROVE  TypeOK'
    <3>1. t[1] \in Decades /\ t[2] \in 0..5  BY RelayInputsAssumption
    <3> QED  BY <2>5, <3>1 DEF relay_set_bit, TypeOK, Q
  <2>6. ASSUME NEW tokens \in (SUBSET RelayInputs) \ {{}}, SCPI_RelayRawSet(tokens)
        PROVE  TypeOK'
    <3>1. \A t \in tokens : t[2] \in 0..5  BY RelayInputsAssumption
    <3> QED  BY <2>6, <3>1, DecadeOne DEF SCPI_RelayRawSet, TypeOK, Q, CONNECT, SHORT
  <2>7. CASE SCPI_Reset
    BY <2>7, ZeroAdmissible, RelaysForValue, ReconnectedValue, DigitsType DEF SCPI_Reset, TypeOK
  <2>8. ASSUME NEW en \in BOOLEAN, relay_enable(en) PROVE TypeOK'
    BY <2>8 DEF relay_enable, TypeOK
  <2>9. CASE UNCHANGED vars
    BY <2>9 DEF vars, TypeOK
  <2> QED  BY <2>1, <2>2, <2>3, <2>4, <2>5, <2>6, <2>7, <2>8, <2>9 DEF Next
<1> QED  BY <1>1, <1>2, PTL DEF Spec

\* CONNECT and SHORT follow the output flag through every command sequence.
THEOREM TerminalRelays == Spec => []TerminalRelaysFollowFlag
<1>1. Init => TerminalRelaysFollowFlag
  BY DecadeOne DEF Init, TerminalRelaysFollowFlag, AllOff
<1>2. TypeOK /\ TerminalRelaysFollowFlag /\ [Next]_vars => TerminalRelaysFollowFlag'
  <2> SUFFICES ASSUME TypeOK, TerminalRelaysFollowFlag, [Next]_vars
               PROVE  TerminalRelaysFollowFlag'
    OBVIOUS
  <2> USE DecadeOne DEF TerminalRelaysFollowFlag
  <2>1. ASSUME NEW ohms \in 0..MaxOhms, relay_set_resistance(ohms)
        PROVE  TerminalRelaysFollowFlag'
    BY <2>1, RelaysForValue DEF relay_set_resistance
  <2>2. CASE relay_set_output_off
    BY <2>2 DEF relay_set_output_off, TypeOK
  <2>3. CASE relay_set_output_on
    BY <2>3, ReconnectedValue DEF relay_set_output_on, TypeOK
  <2>4. ASSUME NEW decade \in Decades, NEW digit \in 0..9, relay_set_decade(decade, digit)
        PROVE  TerminalRelaysFollowFlag'
    <3>1. [decade_digits EXCEPT ![decade] = digit] \in [Decades -> 0..9]  BY DEF TypeOK
    <3> QED  BY <2>4, <3>1, OhmsRange, RelaysForValue DEF relay_set_decade
  <2>5. ASSUME NEW t \in RelayInputs, NEW on \in BOOLEAN, relay_set_bit(t[1], t[2], on)
        PROVE  TerminalRelaysFollowFlag'
    <3>1. t[1] \in Decades /\ t[2] \in 0..5  BY RelayInputsAssumption
    <3>2. /\ CONNECT \in relay_state'[1] <=> CONNECT \in relay_state[1]
          /\ SHORT \in relay_state'[1] <=> SHORT \in relay_state[1]
      BY <2>5, <3>1 DEF relay_set_bit, TypeOK, CONNECT, SHORT
    <3> QED  BY <2>5, <3>2 DEF relay_set_bit
  <2>6. ASSUME NEW tokens \in (SUBSET RelayInputs) \ {{}}, SCPI_RelayRawSet(tokens)
        PROVE  TerminalRelaysFollowFlag'
    <3>1. \A t \in tokens : t[2] \in 0..5  BY RelayInputsAssumption
    <3> QED  BY <2>6, <3>1 DEF SCPI_RelayRawSet, CONNECT, SHORT
  <2>7. CASE SCPI_Reset
    BY <2>7, ZeroAdmissible, RelaysForValue, ReconnectedValue DEF SCPI_Reset
  <2>8. ASSUME NEW en \in BOOLEAN, relay_enable(en) PROVE TerminalRelaysFollowFlag'
    BY <2>8 DEF relay_enable
  <2>9. CASE UNCHANGED vars
    BY <2>9 DEF vars
  <2> QED  BY <2>1, <2>2, <2>3, <2>4, <2>5, <2>6, <2>7, <2>8, <2>9 DEF Next
<1> QED  BY <1>1, <1>2, TypeCorrect, PTL DEF Spec

\* RESistance:DECade? and RESistance:VALue? never contradict each other.
THEOREM DigitsConsistent == Spec => []DigitsSpellValue
<1>1. Init => DigitsSpellValue
  <2> SUFFICES ASSUME Init PROVE current_resistance = OhmsOf(decade_digits)
    BY DEF DigitsSpellValue
  <2>1. \A d \in 1..6 : Part(decade_digits, d) = 0
    BY ScaleValues, SMT DEF Init, Part
  <2> QED  BY <2>1 DEF Init, OhmsOf
<1>2. TypeOK /\ DigitsSpellValue /\ [Next]_vars => DigitsSpellValue'
  <2> SUFFICES ASSUME TypeOK, DigitsSpellValue, [Next]_vars PROVE DigitsSpellValue'
    OBVIOUS
  <2>o. ASSUME UNCHANGED <<decade_digits, current_resistance>> PROVE DigitsSpellValue'
    BY <2>o DEF DigitsSpellValue, Unknown, OhmsOf, Part
  <2>1. ASSUME NEW ohms \in 0..MaxOhms, relay_set_resistance(ohms) PROVE DigitsSpellValue'
    BY <2>1, DigitsSum DEF relay_set_resistance, DigitsSpellValue, OhmsOf, Part
  <2>4. ASSUME NEW decade \in Decades, NEW digit \in 0..9, relay_set_decade(decade, digit)
        PROVE  DigitsSpellValue'
    BY <2>4 DEF relay_set_decade, DigitsSpellValue, OhmsOf, Part
  <2>5. ASSUME NEW t \in RelayInputs, NEW on \in BOOLEAN, relay_set_bit(t[1], t[2], on)
        PROVE  DigitsSpellValue'
    BY <2>5 DEF relay_set_bit, DigitsSpellValue, Unknown
  <2>7. CASE SCPI_Reset
    BY <2>7, ZeroAdmissible, DigitsSum DEF SCPI_Reset, DigitsSpellValue, OhmsOf, Part
  <2> QED  BY <2>o, <2>1, <2>4, <2>5, <2>7
           DEF Next, vars, relay_set_output_off, relay_set_output_on, SCPI_RelayRawSet,
               relay_enable
<1> QED  BY <1>1, <1>2, TypeCorrect, PTL DEF Spec

\* The reported resistance is the one between the terminals.
THEOREM ReportedResistance == Spec => []ReportedIsReal
<1>1. Init => ShowsValue
  BY DEF Init, ShowsValue
<1>2. TypeOK /\ ShowsValue /\ [Next]_vars => ShowsValue'
  <2> SUFFICES ASSUME TypeOK, ShowsValue, [Next]_vars PROVE ShowsValue'
    OBVIOUS
  <2>1. ASSUME NEW ohms \in 0..MaxOhms,
               current_resistance' = ohms, relay_state' = RelaysFor(ohms)
        PROVE  ShowsValue'
    <3>1. ohms # 0 => ChainOhms(relay_state') = ohms  BY <2>1, RelaysForValue
    <3> QED  BY <2>1, <3>1, RelaysForValue DEF ShowsValue, ChainOhms, OhmsOf, Part
  <2>2. CASE relay_set_output_off
    BY <2>2 DEF relay_set_output_off, ShowsValue
  <2>3. CASE relay_set_output_on
    BY <2>3, ReconnectedValue
       DEF relay_set_output_on, ShowsValue, TypeOK, Unknown, ChainOhms, OhmsOf, Part
  <2>4. ASSUME NEW decade \in Decades, NEW digit \in 0..9, relay_set_decade(decade, digit)
        PROVE  ShowsValue'
    <3>1. [decade_digits EXCEPT ![decade] = digit] \in [Decades -> 0..9]  BY DEF TypeOK
    <3> QED  BY <2>1, <2>4, <3>1, OhmsRange DEF relay_set_decade
  <2>5. ASSUME NEW t \in RelayInputs, NEW on \in BOOLEAN, relay_set_bit(t[1], t[2], on)
        PROVE  ShowsValue'
    BY <2>5 DEF relay_set_bit, ShowsValue, Unknown
  <2>6. ASSUME NEW tokens \in (SUBSET RelayInputs) \ {{}}, SCPI_RelayRawSet(tokens)
        PROVE  ShowsValue'
    BY <2>6 DEF SCPI_RelayRawSet, ShowsValue
  <2>7. CASE SCPI_Reset
    BY <2>7, ZeroAdmissible, RelaysForValue, ReconnectedValue DEF SCPI_Reset, ShowsValue
  <2>8. ASSUME NEW en \in BOOLEAN, relay_enable(en) PROVE ShowsValue'
    BY <2>8 DEF relay_enable, ShowsValue, Unknown, ChainOhms, OhmsOf, Part
  <2>9. CASE UNCHANGED vars
    BY <2>9 DEF vars, ShowsValue, Unknown, ChainOhms, OhmsOf, Part
  <2>a. ASSUME NEW ohms \in 0..MaxOhms, relay_set_resistance(ohms) PROVE ShowsValue'
    BY <2>1, <2>a DEF relay_set_resistance
  <2> QED  BY <2>2, <2>3, <2>4, <2>5, <2>6, <2>7, <2>8, <2>9, <2>a DEF Next
<1>3. ShowsValue => ReportedIsReal
  BY DEF ShowsValue, ReportedIsReal, TerminalOhms
<1> QED  BY <1>1, <1>2, <1>3, TypeCorrect, PTL DEF Spec

\* Nominal calibration entries make the calibrated readout equal the plain one.
THEOREM NominalReadout == Spec => []NominalReadoutAgrees
<1>1. TypeOK /\ DigitsSpellValue => NominalReadoutAgrees
  <2> SUFFICES ASSUME TypeOK, DigitsSpellValue, ~Unknown
               PROVE  relay_cal_total_milliohm = 1000 * current_resistance
    BY DEF NominalReadoutAgrees
  <2>1. \A d \in 1..6 : Part(decade_digits, d) \in Nat
    <3> SUFFICES ASSUME NEW d \in 1..6 PROVE Part(decade_digits, d) \in Nat
      OBVIOUS
    <3>1. CASE d \notin Decades  BY <3>1 DEF Part
    <3>2. CASE d \in Decades
      <4>1. decade_digits[d] \in Nat /\ Scale[d] \in Nat
        BY <3>2, ScaleValues DEF TypeOK
      <4> QED  BY <3>2, <4>1 DEF Part
    <3> QED  BY <3>1, <3>2
  <2>2. \A d \in 1..6 : CalEntry(d) = 1000 * Part(decade_digits, d)
    <3> SUFFICES ASSUME NEW d \in 1..6 PROVE CalEntry(d) = 1000 * Part(decade_digits, d)
      OBVIOUS
    <3>1. CASE d \notin Decades  BY <3>1 DEF CalEntry, Part
    <3>2. CASE d \in Decades
      <4>1. decade_digits[d] \in 0..9 /\ decade_digits[d] # 255  BY <3>2 DEF TypeOK
      <4>2. CalEntry(d) = decade_digits[d] * Scale[d] * 1000
        BY <3>2, <4>1, SMT DEF CalEntry, relay_get_decade_digit, nominal_milliohm
      <4>3. Scale[d] \in Nat  BY ScaleValues, SMT
      <4> QED  BY <3>2, <4>1, <4>2, <4>3, SMT DEF Part
    <3> QED  BY <3>1, <3>2
  <2> QED  BY <2>1, <2>2, SMT DEF relay_cal_total_milliohm, DigitsSpellValue, OhmsOf
<1> QED  BY <1>1, TypeCorrect, DigitsConsistent, PTL
=============================================================================
