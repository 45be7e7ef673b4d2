--------------------------- MODULE NvFlashProofs ---------------------------
(* CompletedWriteSurvives and NeverMixed for tables of any size and any      *)
(* sequence of saves, loads, cuts and errors; FlashInv is the inductive part. *)
(* Then the refinement of NvStore, with RepairInv as the additional invariant. *)
EXTENDS NvFlash, TLAPS

USE NDataAssumption DEF Pages

\* The words of the two pages.
LEMMA WordsOf ==
  /\ Words["cal"] = 0..(NData + 1) /\ Words["net"] = 0..2
  /\ Words.cal = 0..(NData + 1) /\ Words.net = 0..2
  /\ Last["cal"] = NData + 1 /\ Last["net"] = 2
BY DEF Words, Last

\* Table parts, CRCs and flags are told apart, and each says what it belongs to.
LEMMA WordsDiffer ==
  /\ \A s, t : DataWord(s) = DataWord(t) => s = t
  /\ \A s, t : CrcWord(s) = CrcWord(t) => s = t
  /\ \A e, f : CfgWord(e) = CfgWord(f) => e = f
  /\ \A t : DataWord(t).table = t
  /\ \A e : CfgWord(e).enabled = e
BY DEF DataWord, CrcWord, CfgWord

\* What the write in progress puts in a word.
LEMMA ImageType ==
  ASSUME g_cal \in Table, enabled \in BOOLEAN, NEW i
  PROVE  CalImage(i) \in CalStored
BY DEF CalImage, CalStored

\* What a boot loads is a table, a flag and settings with a good first word.
LEMMA LoadedType ==
  ASSUME cal \in [Words.cal -> CalStored], net \in [Words.net -> NetStored]
  PROVE  /\ LoadedTable(cal) \in Table
         /\ LoadedEnabled(cal) \in BOOLEAN
         /\ LoadedNet(net) \in [Words.net -> NetStored]
         /\ LoadedNet(net)[0] \in NetPart
         /\ NetDefaults \in [Words.net -> NetStored] /\ NetDefaults[0] \in NetPart
<1>1. LoadedTable(cal) \in Table
  BY NominalAssumption, WordsDiffer DEF LoadedTable, data_ok, DataOf
<1>2. LoadedEnabled(cal) \in BOOLEAN
  BY WordsDiffer DEF LoadedEnabled, cfg_ok
<1>3. NetDefaults \in [Words.net -> NetStored] /\ NetDefaults[0] \in NetPart
  BY WordsOf, DefaultPartAssumption DEF NetDefaults, NetStored
<1> QED  BY <1>1, <1>2, <1>3 DEF LoadedNet

\* An interrupted step leaves well-formed words, and no CRC that was not there
\* or was not being written.
LEMMA InterruptedPages ==
  ASSUME TypeOK, Writing, Interrupted
  PROVE  /\ cal' \in [Words.cal -> CalStored]
         /\ net' \in [Words.net -> NetStored]
         /\ \A t \in Table : cal'[NData] = CrcWord(t) =>
               cal[NData] = CrcWord(t) \/ (Page = "cal" /\ t = g_cal)
         /\ Page = "cal" => net' = net
         /\ Page = "net" => cal' = cal
<1> USE DEF TypeOK
<1>1. CASE Page = "cal"
  <2>1. CASE erased
    <3>1. PICK w \in {Blank, CalImage(at)} : cal' = [cal EXCEPT ![at] = w]
      BY <1>1, <2>1 DEF Interrupted, PartlyProgrammed
    <3>2. w \in CalStored  BY <3>1, ImageType DEF CalStored
    <3>3. \A t \in Table : w = CrcWord(t) => w = CalImage(at)
      BY <3>1, CalBlankAssumption
    <3>4. \A t \in Table : at = NData /\ w = CrcWord(t) => t = g_cal
      BY <3>3, WordsDiffer DEF CalImage
    <3> QED  BY <1>1, <3>1, <3>2, <3>4, WordsOf DEF Interrupted
  <2>2. CASE ~erased
    <3>1. PICK gone \in SUBSET Words.cal :
             cal' = [i \in Words.cal |-> IF i \in gone THEN Blank ELSE cal[i]]
      BY <1>1, <2>2 DEF Interrupted, PartlyErased
    <3>2. NData \in Words.cal  BY WordsOf
    <3> QED  BY <1>1, <3>1, <3>2, CalBlankAssumption DEF Interrupted, CalStored
  <2> QED  BY <2>1, <2>2
<1>2. CASE Page = "net"
  <2>0. cal' = cal  BY <1>2 DEF Interrupted
  <2>1. CASE erased
    <3>1. PICK w \in {Blank, g_cfg[at]} : net' = [net EXCEPT ![at] = w]
      BY <1>2, <2>1 DEF Interrupted, PartlyProgrammed
    <3>2. w \in NetStored  BY <1>2, <2>1, <3>1 DEF NetStored
    <3> QED  BY <1>2, <2>0, <3>1, <3>2
  <2>2. CASE ~erased
    <3>1. PICK gone \in SUBSET Words.net :
             net' = [i \in Words.net |-> IF i \in gone THEN Blank ELSE net[i]]
      BY <1>2, <2>2 DEF Interrupted, PartlyErased
    <3> QED  BY <1>2, <2>0, <3>1 DEF NetStored
  <2> QED  BY <2>1, <2>2
<1> QED  BY <1>1, <1>2 DEF Page

\* Pages and RAM keep their types through every interrupted write.
THEOREM TypeCorrect == Spec => []TypeOK
<1>1. Init => TypeOK
  <2> SUFFICES ASSUME Init PROVE TypeOK  OBVIOUS
  <2>1. cal \in [Words.cal -> CalStored] /\ net \in [Words.net -> NetStored]
    BY DEF Init, CalStored, NetStored
  <2>2. NetDefaults \in [Words.net -> NetStored] /\ NetDefaults[0] \in NetPart
    BY <2>1, LoadedType
  <2> QED  BY <2>1, <2>2, NominalAssumption DEF Init, TypeOK, Writing
<1>2. TypeOK /\ [Next]_vars => TypeOK'
  <2> SUFFICES ASSUME TypeOK, [Next]_vars PROVE TypeOK'  OBVIOUS
  <2> USE DEF TypeOK
  <2>1. CASE net_config_init
    BY <2>1, LoadedType DEF net_config_init, hist, Writing, Page
  <2>2. CASE relay_cal_init
    <3>1. tried' \in SUBSET Table  BY <2>2, LoadedType DEF relay_cal_init
    <3> QED  BY <2>2, <3>1, LoadedType DEF relay_cal_init, hist, Writing, Page
  <2>3. ASSUME NEW t \in Table, relay_cal_set(t) PROVE TypeOK'
    BY <2>3 DEF relay_cal_set, hist, Writing, Page
  <2>4. ASSUME NEW e \in BOOLEAN, relay_cal_enable(e) PROVE TypeOK'
    BY <2>4 DEF relay_cal_enable, hist, Writing, Page
  <2>5. ASSUME NEW c \in NetInputs, NetSet(c[1], c[2]) PROVE TypeOK'
    <3>1. c[1] \in 0..2 /\ c[2] \in NetPart  BY NetInputsAssumption
    <3>2. g_cfg' \in [Words.net -> NetStored] /\ g_cfg'[0] \in NetPart
      BY <2>5, <3>1, WordsOf DEF NetSet, NetStored
    <3> QED  BY <2>5, <3>2 DEF NetSet, hist, Writing, Page
  <2>6. CASE relay_cal_save
    BY <2>6 DEF relay_cal_save, ram, Writing, Page
  <2>7. CASE net_config_save
    BY <2>7 DEF net_config_save, ram, hist, Writing, Page
  <2>8. CASE EraseOK
    <3>1. /\ cal' \in [Words.cal -> CalStored]
          /\ net' \in [Words.net -> NetStored]
      BY <2>8 DEF EraseOK, CalStored, NetStored
    <3>2. at = 0 /\ 0 \in Words[Page]  BY <2>8, WordsOf DEF EraseOK, Page
    <3> QED  BY <2>8, <3>1, <3>2 DEF EraseOK, ram, hist, Writing, Page
  <2>9. CASE ProgramOK
    <3>1. /\ cal' \in [Words.cal -> CalStored]
          /\ net' \in [Words.net -> NetStored]
      BY <2>9, ImageType DEF ProgramOK, Page
    <3>2. CASE at = Last[Page]
      <4>1. /\ hit' = [hit EXCEPT ![Page] = FALSE]
            /\ commanded' = commanded
            /\ pc' = "idle" /\ at' = 0 /\ erased' = FALSE
            /\ UNCHANGED <<g_cal, enabled, g_cfg, sr_error>>
        BY <2>9, <3>2 DEF ProgramOK, ram
      <4>2. hit' \in [Pages -> BOOLEAN]  BY <4>1 DEF Page
      <4>3. /\ put_cal' \in [table : Table, enabled : BOOLEAN]
            /\ put_net' \in [Words.net -> NetStored]
            /\ tried' \in SUBSET Table
        BY <2>9, <3>2 DEF ProgramOK
      <4> QED  BY <3>1, <4>1, <4>2, <4>3 DEF Writing
    <3>3. CASE at # Last[Page]
      <4>1. at + 1 \in Words[Page]
        <5>1. at \in Words[Page]  BY <2>9 DEF ProgramOK
        <5> HIDE DEF TypeOK
        <5> QED  BY <3>3, <5>1, WordsOf DEF Page
      <4> QED  BY <2>9, <3>1, <3>3, <4>1 DEF ProgramOK, ram, hist, Writing, Page
    <3> QED  BY <3>2, <3>3
  <2>a. CASE WriteError
    BY <2>a, InterruptedPages DEF WriteError, ram, Writing, Page
  <2>b. CASE PowerCut
    <3>1. /\ cal' \in [Words.cal -> CalStored]
          /\ net' \in [Words.net -> NetStored]
      BY <2>b, InterruptedPages DEF PowerCut
    <3>2. hit' \in [Pages -> BOOLEAN]  BY <2>b DEF PowerCut, Page
    <3>3. NetDefaults \in [Words.net -> NetStored] /\ NetDefaults[0] \in NetPart
      BY LoadedType
    <3> QED  BY <2>b, <3>1, <3>2, <3>3, NominalAssumption DEF PowerCut, Writing, Page
  <2>c. CASE UNCHANGED vars
    BY <2>c DEF vars, ram, hist, Writing, Page
  <2> QED
    BY <2>1, <2>2, <2>3, <2>4, <2>5, <2>6, <2>7, <2>8, <2>9, <2>a, <2>b, <2>c DEF Next
<1> QED  BY <1>1, <1>2, PTL DEF Spec

-----------------------------------------------------------------------------

\* A fully programmed page is loaded as it was meant.
LEMMA FullPageLoads ==
  ASSUME NEW page, NEW t \in Table, NEW e \in BOOLEAN,
         \A i \in 0..(NData - 1) : page[i] = DataWord(t),
         page[NData] = CrcWord(t), page[NData + 1] = CfgWord(e)
  PROVE  LoadedTable(page) = t /\ LoadedEnabled(page) = e
<1>1. DataOf(page) = t
  <2>1. page[0] = DataWord(t)  OBVIOUS
  <2>2. \A i \in 0..(NData - 1) : page[i] = page[0]  BY <2>1
  <2> QED  BY <2>1, <2>2, WordsDiffer DEF DataOf
<1>2. data_ok(page)  BY <1>1, MixtureAssumption DEF data_ok
<1>3. cfg_ok(page)  BY DEF cfg_ok
<1> QED  BY <1>1, <1>2, <1>3, WordsDiffer DEF LoadedTable, LoadedEnabled

\* The last word of a write: the page then holds all of it.
LEMMA LastWord ==
  ASSUME TypeOK, FlashInv, ProgramOK, at = Last[Page]
  PROVE  /\ Page = "cal" => /\ LoadedTable(cal') = g_cal
                            /\ LoadedEnabled(cal') = enabled
                            /\ cal'[NData] = CrcWord(g_cal)
         /\ Page = "net" => LoadedNet(net') = g_cfg
<1> USE DEF TypeOK
<1>0. Writing /\ erased  BY DEF ProgramOK
<1>1. CASE Page = "cal"
  <2>1. at = NData + 1 /\ cal' = [cal EXCEPT ![NData + 1] = CalImage(NData + 1)]
    BY <1>1, WordsOf DEF ProgramOK
  <2>2. \A i \in 0..NData : cal'[i] = CalImage(i)
    <3>1. \A i \in Words["cal"] : i < at => cal[i] = CalImage(i)
      BY <1>0, <1>1 DEF FlashInv
    <3>2. \A i \in 0..NData : i \in Words["cal"] /\ i < at  BY <2>1, WordsOf
    <3>3. \A i \in 0..NData : cal'[i] = cal[i]  BY <2>1, WordsOf
    <3> QED  BY <3>1, <3>2, <3>3
  <2>3. \A i \in 0..(NData - 1) : cal'[i] = DataWord(g_cal)
    BY <2>2 DEF CalImage
  <2>4. cal'[NData] = CrcWord(g_cal)  BY <2>2 DEF CalImage
  <2>5. cal'[NData + 1] = CfgWord(enabled)  BY <2>1, WordsOf DEF CalImage
  <2> QED  BY <1>1, <2>3, <2>4, <2>5, FullPageLoads
<1>2. CASE Page = "net"
  <2>1. at = 2 /\ net' = [net EXCEPT ![2] = g_cfg[2]]
    BY <1>2, WordsOf DEF ProgramOK
  <2>2. \A i \in 0..2 : net'[i] = g_cfg[i]
    BY <1>0, <1>2, <2>1, WordsOf DEF FlashInv
  <2>3. net' = g_cfg  BY <2>1, <2>2, WordsOf
  <2> QED  BY <1>2, <2>3 DEF LoadedNet
<1> QED  BY <1>1, <1>2

\* A table that passes its CRC is the one the CRC belongs to.
LEMMA LoadedHasCrc ==
  \/ LoadedTable(cal) = Nominal
  \/ LoadedTable(cal) \in Table /\ cal[NData] = CrcWord(LoadedTable(cal))
BY WordsDiffer DEF LoadedTable, data_ok, DataOf

\* Words are programmed in order, and no CRC on the page is of an unknown table.
THEOREM FlashInvariant == Spec => []FlashInv
<1>1. Init => FlashInv
  <2> SUFFICES ASSUME Init PROVE FlashInv  OBVIOUS
  <2>1. cal[NData] = Blank  BY WordsOf DEF Init
  <2> QED  BY <2>1, CalBlankAssumption DEF Init, FlashInv, Writing
<1>2. TypeOK /\ FlashInv /\ [Next]_vars => FlashInv'
  <2> SUFFICES ASSUME TypeOK, FlashInv, [Next]_vars PROVE FlashInv'  OBVIOUS
  <2> USE DEF TypeOK
  <2>1. CASE net_config_init
    BY <2>1 DEF net_config_init, hist, FlashInv, Writing
  <2>2. CASE relay_cal_init
    BY <2>2 DEF relay_cal_init, FlashInv, Writing
  <2>3. CASE (\E t \in Table : relay_cal_set(t)) \/ (\E e \in BOOLEAN : relay_cal_enable(e))
             \/ (\E c \in NetInputs : NetSet(c[1], c[2]))
    BY <2>3 DEF relay_cal_set, relay_cal_enable, NetSet, hist, FlashInv, Writing
  <2>4. CASE relay_cal_save
    BY <2>4 DEF relay_cal_save, ram, FlashInv, Writing
  <2>5. CASE net_config_save
    BY <2>5 DEF net_config_save, ram, hist, FlashInv, Writing, Page
  <2>6. CASE EraseOK
    <3>1. at = 0  BY <2>6 DEF EraseOK
    <3>2. at' = 0 /\ pc' = pc /\ g_cal' = g_cal /\ tried' = tried
      BY <2>6, <3>1 DEF EraseOK, ram, hist
    <3>3. \A t \in Table : cal'[NData] = CrcWord(t) => cal[NData] = CrcWord(t)
      <4>1. CASE Page = "cal"
        <5>1. cal' = [i \in Words.cal |-> Blank]  BY <2>6, <4>1 DEF EraseOK
        <5>2. cal'[NData] = Blank
          <6> HIDE DEF TypeOK
          <6> QED  BY <5>1, WordsOf
        <5> QED  BY <5>2, CalBlankAssumption
      <4>2. CASE Page = "net"
        BY <2>6, <4>2 DEF EraseOK
      <4> QED  BY <4>1, <4>2 DEF Page
    <3>4. \A i \in Words[Page] : ~(i < 0)
      <4>1. (\A i \in Words["cal"] : ~(i < 0)) /\ (\A i \in Words["net"] : ~(i < 0))
        BY WordsOf
      <4>2. Page = "cal" \/ Page = "net"  BY DEF Page
      <4> QED  BY <4>1, <4>2
    <3> QED  BY <3>2, <3>3, <3>4 DEF FlashInv, Writing, Page
  <2>7. CASE ProgramOK
    <3>1. Writing /\ erased  BY <2>7 DEF ProgramOK
    <3>2. CASE at = Last[Page]
      <4>1. pc' = "idle" /\ erased' = FALSE  BY <2>7, <3>2 DEF ProgramOK
      <4>2. CASE Page = "cal"
        <5>1. tried' = {g_cal} /\ cal'[NData] = CrcWord(g_cal)
          BY <2>7, <3>2, <4>2, LastWord DEF ProgramOK
        <5> QED  BY <4>1, <5>1, WordsDiffer DEF FlashInv, Writing
      <4>3. CASE Page = "net"
        <5>1. tried' = tried /\ cal' = cal  BY <2>7, <3>2, <4>3 DEF ProgramOK
        <5> QED  BY <4>1, <5>1 DEF FlashInv, Writing
      <4> QED  BY <4>2, <4>3 DEF Page
    <3>3. CASE at # Last[Page]
      <4>1. /\ at' = at + 1 /\ pc' = pc /\ erased' = erased /\ tried' = tried
            /\ g_cal' = g_cal /\ enabled' = enabled /\ g_cfg' = g_cfg
        BY <2>7, <3>3 DEF ProgramOK, ram, hist
      <4>2. at \in Words[Page] /\ Page' = Page /\ Writing'
        BY <3>1, <4>1 DEF Page, Writing
      <4>3. CASE Page = "cal"
        <5>1. cal' = [cal EXCEPT ![at] = CalImage(at)]  BY <2>7, <4>3 DEF ProgramOK
        <5>2. \A i \in 0..(NData + 1) : i < at + 1 => cal'[i] = CalImage(i)
          <6> SUFFICES ASSUME NEW i \in 0..(NData + 1), i < at + 1
                       PROVE  cal'[i] = CalImage(i)
            OBVIOUS
          <6>1. at \in 0..(NData + 1) /\ Words["cal"] = 0..(NData + 1)
            BY <4>2, <4>3, WordsOf
          <6>2. CASE i = at
            BY <5>1, <6>1, <6>2
          <6>3. CASE i # at
            <7>1. i < at  BY <6>1, <6>3
            <7>2. cal[i] = CalImage(i)  BY <3>1, <4>3, <6>1, <7>1 DEF FlashInv
            <7> QED  BY <5>1, <6>1, <6>3, <7>2
          <6> QED  BY <6>2, <6>3
        <5>3. \A i : CalImage(i)' = CalImage(i)  BY <4>1 DEF CalImage
        <5>4. \A t \in Table : cal'[NData] = CrcWord(t) => t \in tried
          <6>1. CASE at = NData
            BY <3>1, <4>3, <5>1, <6>1, WordsOf, WordsDiffer DEF FlashInv, CalImage
          <6>2. CASE at # NData
            BY <4>2, <4>3, <5>1, <6>2, WordsOf DEF FlashInv
          <6> QED  BY <6>1, <6>2
        <5> QED  BY <3>1, <4>1, <4>2, <4>3, <5>2, <5>3, <5>4, WordsOf DEF FlashInv, Words
      <4>4. CASE Page = "net"
        <5>1. net' = [net EXCEPT ![at] = g_cfg[at]] /\ cal' = cal
          BY <2>7, <4>4 DEF ProgramOK
        <5>2. \A i \in 0..2 : i < at + 1 => net'[i] = g_cfg[i]
          BY <3>1, <4>2, <4>4, <5>1, WordsOf DEF FlashInv
        <5> QED  BY <4>1, <4>2, <4>4, <5>1, <5>2, WordsOf DEF FlashInv, Words
      <4> QED  BY <4>3, <4>4 DEF Page
    <3> QED  BY <3>2, <3>3
  <2>8. CASE WriteError
    <3>1. Writing /\ Interrupted /\ pc' = "idle" /\ erased' = FALSE /\ tried' = tried
      BY <2>8 DEF WriteError
    <3> QED  BY <3>1, InterruptedPages DEF FlashInv, Writing
  <2>9. CASE PowerCut
    <3>1. pc' = "off" /\ erased' = FALSE /\ tried' = tried  BY <2>9 DEF PowerCut
    <3>2. \A t \in Table : cal'[NData] = CrcWord(t) => t \in tried
      BY <2>9, InterruptedPages DEF PowerCut, FlashInv
    <3> QED  BY <3>1, <3>2 DEF FlashInv, Writing
  <2>a. CASE UNCHANGED vars
    BY <2>a DEF vars, ram, hist, FlashInv, Writing, Page, CalImage
  <2> QED
    BY <2>1, <2>2, <2>3, <2>4, <2>5, <2>6, <2>7, <2>8, <2>9, <2>a DEF Next
<1> QED  BY <1>1, <1>2, TypeCorrect, PTL DEF Spec

\* No sequence of cut or failed writes makes a boot load a mixture of tables.
THEOREM TablesNeverMixed == Spec => []NeverMixed
<1>1. FlashInv => NeverMixed
  BY LoadedHasCrc DEF FlashInv, NeverMixed
<1> QED  BY <1>1, FlashInvariant, PTL

\* A completed write survives power cycles and trouble with the other page.
THEOREM CompletedWrites == Spec => []CompletedWriteSurvives
<1>1. Init => CompletedWriteSurvives
  <2> SUFFICES ASSUME Init PROVE CompletedWriteSurvives  OBVIOUS
  <2>1. cal[NData] = Blank /\ net[0] = Blank  BY WordsOf DEF Init
  <2>2. ~data_ok(cal) /\ ~cfg_ok(cal)
    BY <2>1, CalBlankAssumption, WordsDiffer DEF data_ok, cfg_ok, DataOf
  <2>3. LoadedNet(net) = NetDefaults  BY <2>1, BlankAssumption DEF LoadedNet
  <2> QED
    BY <2>2, <2>3 DEF Init, CompletedWriteSurvives, LoadedTable, LoadedEnabled
<1>2. TypeOK /\ FlashInv /\ CompletedWriteSurvives /\ [Next]_vars => CompletedWriteSurvives'
  <2> SUFFICES ASSUME TypeOK, FlashInv, CompletedWriteSurvives, [Next]_vars
               PROVE  CompletedWriteSurvives'
    OBVIOUS
  <2> USE DEF TypeOK
  <2>s. ASSUME UNCHANGED <<cal, net, put_cal, put_net, hit>>,
               AtRest("cal")' => AtRest("cal"), AtRest("net")' => AtRest("net")
        PROVE  CompletedWriteSurvives'
    BY <2>s DEF CompletedWriteSurvives
  <2>1. CASE net_config_init \/ relay_cal_init \/ relay_cal_save \/ net_config_save
             \/ (\E t \in Table : relay_cal_set(t)) \/ (\E e \in BOOLEAN : relay_cal_enable(e))
             \/ (\E c \in NetInputs : NetSet(c[1], c[2])) \/ UNCHANGED vars
    <3>1. UNCHANGED <<cal, net, put_cal, put_net, hit>>
      BY <2>1 DEF net_config_init, relay_cal_init, relay_cal_save, net_config_save,
                  relay_cal_set, relay_cal_enable, NetSet, vars, ram, hist
    <3>2. pc \in {"off", "boot", "idle"} \/ pc' = pc
      BY <2>1 DEF net_config_init, relay_cal_init, relay_cal_save, net_config_save,
                  relay_cal_set, relay_cal_enable, NetSet, vars
    <3> QED  BY <2>s, <3>1, <3>2 DEF AtRest, Writing, Page
  <2>2. CASE EraseOK
    <3>1. Writing /\ pc' = pc /\ UNCHANGED <<put_cal, put_net, hit>>
      BY <2>2 DEF EraseOK, hist
    <3>2. CASE Page = "cal"
      BY <2>2, <3>1, <3>2 DEF EraseOK, CompletedWriteSurvives, AtRest, Writing, Page
    <3>3. CASE Page = "net"
      BY <2>2, <3>1, <3>3 DEF EraseOK, CompletedWriteSurvives, AtRest, Writing, Page
    <3> QED  BY <3>2, <3>3 DEF Page
  <2>3. CASE ProgramOK
    <3>1. CASE at = Last[Page]
      <4>1. CASE Page = "cal"
        <5>1. /\ put_cal' = [table |-> g_cal, enabled |-> enabled]
              /\ net' = net /\ put_net' = put_net /\ hit'["net"] = hit["net"]
          BY <2>3, <3>1, <4>1 DEF ProgramOK
        <5>2. LoadedTable(cal') = put_cal'.table /\ LoadedEnabled(cal') = put_cal'.enabled
          BY <2>3, <3>1, <4>1, <5>1, LastWord
        <5>3. AtRest("net")  BY <4>1 DEF AtRest
        <5> QED  BY <5>1, <5>2, <5>3 DEF CompletedWriteSurvives
      <4>2. CASE Page = "net"
        <5>1. /\ put_net' = g_cfg /\ cal' = cal /\ put_cal' = put_cal
              /\ hit'["cal"] = hit["cal"]
          BY <2>3, <3>1, <4>2 DEF ProgramOK
        <5>2. LoadedNet(net') = put_net'  BY <2>3, <3>1, <4>2, <5>1, LastWord
        <5>3. AtRest("cal")  BY <4>2 DEF AtRest
        <5> QED  BY <5>1, <5>2, <5>3 DEF CompletedWriteSurvives
      <4> QED  BY <4>1, <4>2 DEF Page
    <3>2. CASE at # Last[Page]
      <4>1. Writing /\ pc' = pc /\ UNCHANGED <<put_cal, put_net, hit>>
        BY <2>3, <3>2 DEF ProgramOK, hist
      <4>2. CASE Page = "cal"
        BY <2>3, <4>1, <4>2 DEF ProgramOK, CompletedWriteSurvives, AtRest, Writing, Page
      <4>3. CASE Page = "net"
        BY <2>3, <4>1, <4>3 DEF ProgramOK, CompletedWriteSurvives, AtRest, Writing, Page
      <4> QED  BY <4>2, <4>3 DEF Page
    <3> QED  BY <3>1, <3>2
  <2>4. CASE (WriteError \/ PowerCut) /\ Writing
    <3>1. /\ Interrupted /\ hit' = [hit EXCEPT ![Page] = TRUE]
          /\ put_cal' = put_cal /\ put_net' = put_net
      BY <2>4 DEF WriteError, PowerCut
    <3>2. CASE Page = "cal"
      <4>1. net' = net /\ hit'["cal"] /\ hit'["net"] = hit["net"] /\ AtRest("net")
        BY <2>4, <3>1, <3>2, InterruptedPages DEF AtRest
      <4> QED  BY <3>1, <4>1 DEF CompletedWriteSurvives
    <3>3. CASE Page = "net"
      <4>1. cal' = cal /\ hit'["net"] /\ hit'["cal"] = hit["cal"] /\ AtRest("cal")
        BY <2>4, <3>1, <3>3, InterruptedPages DEF AtRest
      <4> QED  BY <3>1, <4>1 DEF CompletedWriteSurvives
    <3> QED  BY <3>2, <3>3 DEF Page
  <2>5. CASE PowerCut /\ ~Writing
    <3>1. UNCHANGED <<cal, net, put_cal, put_net, hit>>  BY <2>5 DEF PowerCut
    <3> QED  BY <2>5, <2>s, <3>1 DEF AtRest
  <2> QED
    BY <2>1, <2>2, <2>3, <2>4, <2>5 DEF Next, WriteError
<1> QED  BY <1>1, <1>2, TypeCorrect, FlashInvariant, PTL DEF Spec

-----------------------------------------------------------------------------
(* The abstract store.                                                       *)

\* What the boot or CALibration:LOAD takes from a page no write of which was cut.
LEMMA LoadFindsPut ==
  ASSUME TypeOK, CompletedWriteSurvives, relay_cal_init, ~hit["cal"]
  PROVE  [table |-> g_cal', enabled |-> enabled'] = put_cal
<1>1. AtRest("cal")  BY DEF relay_cal_init, AtRest, Writing
<1>2. g_cal' = put_cal.table /\ enabled' = put_cal.enabled
  BY <1>1 DEF relay_cal_init, CompletedWriteSurvives
<1>3. put_cal = [table |-> put_cal.table, enabled |-> put_cal.enabled]  BY DEF TypeOK
<1> QED  BY <1>2, <1>3

\* The boot's rewriting of the page puts back what the last complete write put there.
THEOREM RepairPutsBack == Spec => []RepairInv
<1>1. Init => RepairInv  BY DEF Init, RepairInv
<1>2. TypeOK /\ CompletedWriteSurvives /\ RepairInv /\ [Next]_vars => RepairInv'
  <2> SUFFICES ASSUME TypeOK, CompletedWriteSurvives, RepairInv, [Next]_vars,
                      pc' = "init_cal", ~hit'["cal"]
               PROVE  put_cal' = [table |-> g_cal', enabled |-> enabled']
    BY DEF RepairInv
  <2>1. CASE relay_cal_init
    BY <2>1, LoadFindsPut DEF relay_cal_init
  <2>2. CASE EraseOK \/ ProgramOK
    <3>1. pc = "init_cal" /\ hit' = hit /\ UNCHANGED <<put_cal, g_cal, enabled>>
      BY <2>2 DEF EraseOK, ProgramOK, ram, hist
    <3> QED  BY <3>1 DEF RepairInv
  <2>3. CASE UNCHANGED vars
    BY <2>3 DEF vars, ram, hist, RepairInv
  <2> QED
    BY <2>1, <2>2, <2>3
    DEF Next, net_config_init, relay_cal_set, relay_cal_enable, NetSet, relay_cal_save,
        net_config_save, WriteError, PowerCut
<1> QED  BY <1>1, <1>2, TypeCorrect, CompletedWrites, PTL DEF Spec

\* Two maps over the pages are equal if they agree on both.
LEMMA SameMap ==
  ASSUME NEW f, NEW g, f = [r \in Pages |-> f[r]], g = [r \in Pages |-> g[r]],
         f["cal"] = g["cal"], f["net"] = g["net"]
  PROVE  f = g
<1>1. \A r \in Pages : f[r] = g[r]  OBVIOUS
<1> QED  BY <1>1, Zenon

\* The records of NvStore.
LEMMA Views ==
  /\ InUse = [r \in Pages |-> InUse[r]] /\ Findable = [r \in Pages |-> Findable[r]]
  /\ InUse["cal"] = [table |-> g_cal, enabled |-> enabled] /\ InUse["net"] = g_cfg
  /\ Findable["cal"] = {put_cal} \cup (IF pc = "save_cal" THEN {InUse["cal"]} ELSE {})
  /\ Findable["net"] = {put_net} \cup (IF pc = "save_net" THEN {InUse["net"]} ELSE {})
BY DEF InUse, Findable

\* The same after a step.
LEMMA NextViews ==
  /\ InUse' = [r \in Pages |-> InUse'[r]] /\ Findable' = [r \in Pages |-> Findable'[r]]
  /\ InUse'["cal"] = [table |-> g_cal', enabled |-> enabled'] /\ InUse'["net"] = g_cfg'
  /\ Findable'["cal"] = {put_cal'} \cup (IF pc' = "save_cal" THEN {InUse'["cal"]} ELSE {})
  /\ Findable'["net"] = {put_net'} \cup (IF pc' = "save_net" THEN {InUse'["net"]} ELSE {})
BY DEF InUse, Findable

\* A step that leaves RAM alone, or what can be found, leaves NvStore's view of it.
LEMMA SameViews ==
  /\ UNCHANGED <<g_cal, enabled, g_cfg>> => InUse' = InUse
  /\ UNCHANGED <<put_cal, put_net>> /\ pc \notin {"save_cal", "save_net"}
        /\ pc' \notin {"save_cal", "save_net"} => Findable' = Findable
  /\ UNCHANGED <<put_cal, put_net, g_cal, enabled, g_cfg, pc>> => Findable' = Findable
BY DEF InUse, Findable

\* A cut or failed write spoils its page; what was to be written is given up.
LEMMA InterruptSpoils ==
  ASSUME TypeOK, Writing, hit' = [hit EXCEPT ![Page] = TRUE],
         UNCHANGED <<put_cal, put_net>>, pc' \notin {"save_cal", "save_net"}
  PROVE  Store!Spoils
<1>1. CASE Page = "cal"
  <2>1. Findable'["cal"] \subseteq Findable["cal"]  BY Views, NextViews
  <2>2. Findable'["net"] = Findable["net"]  BY <1>1, Views, NextViews DEF Page
  <2>3. "cal" \in Pages /\ \A s \in Pages \ {"cal"} : s = "net"  OBVIOUS
  <2> QED  BY <1>1, <2>1, <2>2, <2>3 DEF Store!Spoils
<1>2. CASE Page = "net"
  <2>1. Findable'["net"] \subseteq Findable["net"]  BY Views, NextViews
  <2>2. Findable'["cal"] = Findable["cal"]  BY <1>2, Views, NextViews DEF Page
  <2>3. "net" \in Pages /\ \A s \in Pages \ {"net"} : s = "cal"  OBVIOUS
  <2> QED  BY <1>2, <2>1, <2>2, <2>3 DEF Store!Spoils
<1> QED  BY <1>1, <1>2 DEF Page

\* Every step of the backends is a step of NvStore or changes nothing it speaks of.
LEMMA StoreStep ==
  TypeOK /\ CompletedWriteSurvives /\ RepairInv /\ [Next]_vars => [Store!Next]_(Store!svars)
<1> SUFFICES ASSUME TypeOK, CompletedWriteSurvives, RepairInv, [Next]_vars
             PROVE  Store!Next \/ UNCHANGED <<pc # "off", InUse, commanded, Findable, hit>>
  BY Zenon DEF Store!svars
<1>n. Pages = {"cal", "net"} /\ Pages \ {"cal"} = {"net"} /\ Pages \ {"net"} = {"cal"}
  OBVIOUS
<1>1. CASE net_config_init
  <2>1. /\ pc = "off" /\ pc' = "boot" /\ g_cfg' = LoadedNet(net)
        /\ UNCHANGED <<g_cal, enabled, put_cal, put_net, hit>>
        /\ commanded' = FALSE
    BY <1>1 DEF net_config_init, hist
  <2>2. Findable' = Findable  BY <2>1, SameViews
  <2>3. InUse'["cal"] = InUse["cal"]  BY <2>1, Views, NextViews
  <2>4. InUse'["net"] \in Findable["net"] \/ hit'["net"]
    <3>1. AtRest("net")  BY <2>1 DEF AtRest, Writing
    <3>2. hit'["net"] \/ g_cfg' = put_net  BY <2>1, <3>1 DEF CompletedWriteSurvives
    <3> QED  BY <3>2, Views, NextViews
  <2>5. Store!Load({"net"})  BY <1>n, <2>1, <2>2, <2>3, <2>4 DEF Store!Load
  <2> QED  BY <2>5 DEF Store!Next
<1>2. CASE relay_cal_init
  <2>1. /\ pc \in {"boot", "idle"} /\ pc' \in {"idle", "init_cal"}
        /\ UNCHANGED <<g_cfg, put_cal, put_net, hit>>
        /\ commanded' = FALSE
    BY <1>2 DEF relay_cal_init
  <2>2. Findable' = Findable  BY <2>1, SameViews
  <2>3. InUse'["net"] = InUse["net"]  BY <2>1, Views, NextViews
  <2>4. InUse'["cal"] \in Findable["cal"] \/ hit'["cal"]
    BY <1>2, <2>1, LoadFindsPut, Views, NextViews
  <2>5. Store!Load({"cal"})  BY <1>n, <2>1, <2>2, <2>3, <2>4 DEF Store!Load
  <2> QED  BY <2>5 DEF Store!Next
<1>3. CASE (\E t \in Table : relay_cal_set(t)) \/ (\E e \in BOOLEAN : relay_cal_enable(e))
  <2>1. /\ pc = "idle" /\ pc' = "idle" /\ UNCHANGED <<g_cfg, put_cal, put_net, hit>>
        /\ g_cal' \in Table /\ enabled' \in BOOLEAN
        /\ commanded' = TRUE
    BY <1>3 DEF relay_cal_set, relay_cal_enable, hist, TypeOK
  <2>2. Findable' = Findable  BY <2>1, SameViews
  <2>3. InUse'["net"] = InUse["net"]  BY <2>1, Views, NextViews
  <2>4. InUse'["cal"] \in [table : Table, enabled : BOOLEAN]  BY <2>1, NextViews
  <2>5. Store!Set("cal")  BY <1>n, <2>1, <2>2, <2>3, <2>4 DEF Store!Set
  <2> QED  BY <1>n, <2>5 DEF Store!Next
<1>4. ASSUME NEW c \in NetInputs, NetSet(c[1], c[2])
      PROVE  Store!Next
  <2>1. /\ pc = "idle" /\ pc' = "idle" /\ g_cfg' = [g_cfg EXCEPT ![c[1]] = c[2]]
        /\ UNCHANGED <<g_cal, enabled, put_cal, put_net, hit>>
        /\ commanded' = TRUE
    BY <1>4 DEF NetSet, hist
  <2>2. Findable' = Findable  BY <2>1, SameViews
  <2>3. InUse'["cal"] = InUse["cal"]  BY <2>1, Views, NextViews
  <2>4. InUse'["net"] \in [Words.net -> NetStored]
    <3>1. c[2] \in NetStored  BY NetInputsAssumption DEF NetStored
    <3> QED  BY <2>1, <3>1, NextViews DEF TypeOK
  <2>5. Store!Set("net")  BY <1>n, <2>1, <2>2, <2>3, <2>4 DEF Store!Set
  <2> QED  BY <1>n, <2>5 DEF Store!Next
<1>5. CASE relay_cal_save
  <2>1. /\ pc = "idle" /\ pc' = "save_cal"
        /\ UNCHANGED <<g_cal, enabled, g_cfg, put_cal, put_net, hit, commanded>>
    BY <1>5 DEF relay_cal_save, ram
  <2>2. InUse' = InUse  BY <2>1, SameViews
  <2>3. /\ Findable'["cal"] = Findable["cal"] \cup {InUse["cal"]}
        /\ Findable'["net"] = Findable["net"]
    BY <2>1, <2>2, Views, NextViews
  <2>4. Store!Begin({"cal"})
    <3> DEFINE g == [r \in Pages |-> IF r \in {"cal"} THEN Findable[r] \cup {InUse[r]}
                                                      ELSE Findable[r]]
    <3>1. g["cal"] = Findable'["cal"] /\ g["net"] = Findable'["net"]  BY <2>3
    <3>2. g = [r \in Pages |-> g[r]]  OBVIOUS
    <3>3. Findable' = g
      <4> HIDE DEF g
      <4> QED  BY <3>1, <3>2, NextViews, SameMap
    <3> QED  BY <2>1, <2>2, <3>3 DEF Store!Begin
  <2> QED  BY <2>4 DEF Store!Next
<1>6. CASE net_config_save
  <2>1. /\ pc = "idle" /\ pc' = (IF sr_error THEN "idle" ELSE "save_net")
        /\ UNCHANGED <<g_cal, enabled, g_cfg, put_cal, put_net, hit, commanded>>
    BY <1>6 DEF net_config_save, ram, hist
  <2>2. InUse' = InUse  BY <2>1, SameViews
  <2>3. CASE sr_error
    BY <2>1, <2>2, <2>3, SameViews
  <2>4. CASE ~sr_error
    <3>1. /\ Findable'["net"] = Findable["net"] \cup {InUse["net"]}
          /\ Findable'["cal"] = Findable["cal"]
      BY <2>1, <2>2, <2>4, Views, NextViews
    <3>2. Store!Begin({"net"})
      <4> DEFINE g == [r \in Pages |-> IF r \in {"net"} THEN Findable[r] \cup {InUse[r]}
                                                        ELSE Findable[r]]
      <4>1. g["cal"] = Findable'["cal"] /\ g["net"] = Findable'["net"]  BY <3>1
      <4>2. g = [r \in Pages |-> g[r]]  OBVIOUS
      <4>3. Findable' = g
        <5> HIDE DEF g
        <5> QED  BY <4>1, <4>2, NextViews, SameMap
      <4> QED  BY <2>1, <2>2, <4>3 DEF Store!Begin
    <3> QED  BY <3>2 DEF Store!Next
  <2> QED  BY <2>3, <2>4
<1>7. CASE EraseOK
  <2>1. UNCHANGED <<put_cal, put_net, g_cal, enabled, g_cfg, pc, hit, commanded>>
    BY <1>7 DEF EraseOK, ram, hist
  <2> QED  BY <2>1, SameViews
<1>8. CASE ProgramOK
  <2>1. CASE at # Last[Page]
    <3>1. UNCHANGED <<put_cal, put_net, g_cal, enabled, g_cfg, pc, hit, commanded>>
      BY <1>8, <2>1 DEF ProgramOK, ram, hist
    <3> QED  BY <3>1, SameViews
  <2>2. CASE at = Last[Page]
    <3>1. /\ Writing /\ pc' = "idle" /\ hit' = [hit EXCEPT ![Page] = FALSE]
          /\ commanded' = commanded
          /\ UNCHANGED <<g_cal, enabled, g_cfg>>
      BY <1>8, <2>2 DEF ProgramOK, ram
    <3>2. InUse' = InUse  BY <3>1, SameViews
    <3>p. pc # "off" /\ pc' # "off"  BY <3>1 DEF Writing
    <3>3. Findable = [r \in Pages |-> Findable[r]] /\ Findable' = [r \in Pages |-> Findable'[r]]
      BY Views, NextViews
    <3>4. CASE Page = "cal"
      <4>1. put_cal' = InUse["cal"] /\ put_net' = put_net
        BY <1>8, <2>2, <3>4, Views DEF ProgramOK
      <4>2. Findable'["cal"] = {InUse["cal"]} /\ Findable'["net"] = Findable["net"]
        BY <3>1, <3>4, <4>1, Views, NextViews DEF Page
      <4>3. InUse["cal"] \in Findable["cal"] \/ hit["cal"]
        <5>1. CASE pc = "save_cal"  BY <5>1, Views
        <5>2. CASE pc = "init_cal"  BY <5>2, Views DEF RepairInv
        <5> QED  BY <3>1, <3>4, <5>1, <5>2 DEF Writing, Page
      <4>4. Findable' = [Findable EXCEPT !["cal"] = {InUse["cal"]}]
        <5> DEFINE g == [Findable EXCEPT !["cal"] = {InUse["cal"]}]
        <5>1. g["cal"] = {InUse["cal"]} /\ g["net"] = Findable["net"]  BY <3>3
        <5>2. g = [r \in Pages |-> g[r]]  BY <3>3
        <5> HIDE DEF g
        <5>3. Findable' = g  BY <3>3, <4>2, <5>1, <5>2, SameMap
        <5> QED  BY <5>3 DEF g
      <4>5. Store!Commit("cal")  BY <3>1, <3>2, <3>p, <3>4, <4>3, <4>4 DEF Store!Commit
      <4> QED  BY <1>n, <4>5 DEF Store!Next
    <3>5. CASE Page = "net"
      <4>1. put_net' = InUse["net"] /\ put_cal' = put_cal
        BY <1>8, <2>2, <3>5, Views DEF ProgramOK
      <4>2. Findable'["net"] = {InUse["net"]} /\ Findable'["cal"] = Findable["cal"]
        BY <3>1, <3>5, <4>1, Views, NextViews DEF Page
      <4>3. InUse["net"] \in Findable["net"]  BY <3>5, Views DEF Page
      <4>4. Findable' = [Findable EXCEPT !["net"] = {InUse["net"]}]
        <5> DEFINE g == [Findable EXCEPT !["net"] = {InUse["net"]}]
        <5>1. g["net"] = {InUse["net"]} /\ g["cal"] = Findable["cal"]  BY <3>3
        <5>2. g = [r \in Pages |-> g[r]]  BY <3>3
        <5> HIDE DEF g
        <5>3. Findable' = g  BY <3>3, <4>2, <5>1, <5>2, SameMap
        <5> QED  BY <5>3 DEF g
      <4>5. Store!Commit("net")  BY <3>1, <3>2, <3>p, <3>5, <4>3, <4>4 DEF Store!Commit
      <4> QED  BY <1>n, <4>5 DEF Store!Next
    <3> QED  BY <3>4, <3>5 DEF Page
  <2> QED  BY <2>1, <2>2
<1>9. CASE WriteError
  <2>1. /\ Writing /\ pc' = "idle" /\ hit' = [hit EXCEPT ![Page] = TRUE]
        /\ UNCHANGED <<g_cal, enabled, g_cfg, put_cal, put_net, commanded>>
    BY <1>9 DEF WriteError, ram
  <2>2. InUse' = InUse  BY <2>1, SameViews
  <2>3. Store!Spoils  BY <2>1, InterruptSpoils
  <2>4. pc # "off"  BY <2>1 DEF Writing
  <2>5. Store!Fail  BY <2>1, <2>2, <2>3, <2>4 DEF Store!Fail
  <2> QED  BY <2>5 DEF Store!Next
<1>a. CASE PowerCut
  <2>1. /\ pc # "off" /\ pc' = "off" /\ UNCHANGED <<put_cal, put_net>>
        /\ commanded' = FALSE
        /\ g_cal' = Nominal /\ enabled' = FALSE /\ g_cfg' = NetDefaults
    BY <1>a DEF PowerCut
  <2>2. InUse' = [cal |-> [table |-> Nominal, enabled |-> FALSE], net |-> NetDefaults]
    BY <2>1 DEF InUse
  <2>3. CASE Writing
    <3>1. Store!Spoils  BY <1>a, <2>1, <2>3, InterruptSpoils DEF PowerCut
    <3>2. Store!PowerCut  BY <2>1, <2>2, <3>1 DEF Store!PowerCut
    <3> QED  BY <3>2 DEF Store!Next
  <2>4. CASE ~Writing
    <3>1. hit' = hit  BY <1>a, <2>4 DEF PowerCut
    <3>2. Findable' = Findable  BY <2>1, <2>4, SameViews DEF Writing
    <3>3. Store!PowerCut  BY <2>1, <2>2, <3>1, <3>2 DEF Store!PowerCut, Store!Spoils
    <3> QED  BY <3>3 DEF Store!Next
  <2> QED  BY <2>3, <2>4
<1>b. CASE UNCHANGED vars
  BY <1>b, SameViews DEF vars, ram, hist
<1> QED
  BY <1>1, <1>2, <1>3, <1>4, <1>5, <1>6, <1>7, <1>8, <1>9, <1>a, <1>b DEF Next

\* The flash backends implement NvStore, a page being spoilt by a cut or failed write
\* until its next complete one.
THEOREM Refinement == Spec => ImplementsStore
<1>1. Init => Store!Init
  <2> SUFFICES ASSUME Init PROVE Store!Init  OBVIOUS
  <2> DEFINE default == [cal |-> [table |-> Nominal, enabled |-> FALSE], net |-> NetDefaults]
             g == [r \in Pages |-> {default[r]}]
  <2>1. InUse = default  BY DEF Init, InUse
  <2>2. g["cal"] = Findable["cal"] /\ g["net"] = Findable["net"]
    BY Views DEF Init
  <2>3. g = [r \in Pages |-> g[r]]  OBVIOUS
  <2>4. Findable = g
    <3> HIDE DEF g
    <3> QED  BY <2>2, <2>3, Views, SameMap
  <2>5. hit = [p \in Pages |-> FALSE] /\ commanded = FALSE  BY DEF Init
  <2>6. (pc # "off") = FALSE  BY DEF Init
  <2> QED  BY <2>1, <2>4, <2>5, <2>6, Zenon DEF Store!Init
<1> QED
  BY <1>1, StoreStep, TypeCorrect, CompletedWrites, RepairPutsBack, PTL
  DEF Spec, ImplementsStore, Store!Spec
=============================================================================
