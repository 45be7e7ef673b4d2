------------------------------ MODULE NvFlash ------------------------------
(***************************************************************************)
(* The flash storage backends, the ones the build includes:                *)
(* App/relay/relay_cal_flash.c (page "cal": calibration table and enable   *)
(* flag) and App/net_config.c (page "net": network settings).              *)
(*                                                                         *)
(* A page is erased as a whole and then programmed one double word at a    *)
(* time. Erasing and each word are one step here; the power may fail, or   *)
(* the HAL report an error, at any of them.                                *)
(*                                                                         *)
(* Words of page "cal", with NData = 30 on the board: NData words of the   *)
(* table, then its CRC together with the magic word of the enable flag,    *)
(* then the flag with the flag's CRC. Page "net" has three words: magic    *)
(* and IP address, mask and gateway, DHCP and PHY mode. A CRC matches only *)
(* the table it was computed from. An erased word and one whose erase or   *)
(* programming was cut short (Blank) match no CRC and no magic word.       *)
(*                                                                         *)
(* A definition named X_bug is X with a plausible fault (see RelayCtrl).   *)
(***************************************************************************)
EXTENDS Naturals

CONSTANTS
    NData,         \* double words of the calibration table
    Table,         \* calibration tables
    Nominal,       \* the table of fill_nominal
    Mixture,       \* what data words of different origin make up
    NetPart,       \* contents of one double word of the network settings
    DefaultPart,   \* ... as apply_defaults sets it
    NetInputs,     \* the <<word, content>> pairs the NET: commands may set
    FlashErrors,   \* TRUE if the HAL may report errors
    Blank          \* a flash word that holds nothing that was written

ASSUME NDataAssumption == NData \in Nat \ {0}
ASSUME NominalAssumption == Nominal \in Table
ASSUME MixtureAssumption == Mixture \notin Table
ASSUME DefaultPartAssumption == DefaultPart \in NetPart
ASSUME NetInputsAssumption == NetInputs \subseteq (0..2) \X NetPart
ASSUME FlashErrorsAssumption == FlashErrors \in BOOLEAN
ASSUME BlankAssumption == Blank \notin NetPart

Words == [cal |-> 0..(NData + 1), net |-> 0..2]
Last  == [cal |-> NData + 1, net |-> 2]
Pages == {"cal", "net"}

\* Contents of the words of page "cal".
DataWord(t) == [part |-> "data", table |-> t]
CrcWord(t)  == [part |-> "crc", table |-> t]
CfgWord(e)  == [part |-> "cfg", enabled |-> e]

CalStored == {DataWord(t) : t \in Table} \cup {CrcWord(t) : t \in Table}
                \cup {CfgWord(e) : e \in BOOLEAN} \cup {Blank}
NetStored == NetPart \cup {Blank}

ASSUME CalBlankAssumption ==
    /\ \A t \in Table : Blank # DataWord(t) /\ Blank # CrcWord(t)
    /\ \A e \in BOOLEAN : Blank # CfgWord(e)

VARIABLES
    cal, net,    \* the two pages
    pc,          \* "off", "boot", "idle", or the write in progress: "init_cal",
                 \* "save_cal", "save_net"
    at,          \* the word to program next; 0 is preceded by the erase
    erased,      \* the erase of the write in progress is done
    g_cal,       \* RAM: the table
    enabled,     \* RAM: g_cfg.enabled of relay_cal_flash.c
    g_cfg,       \* RAM: [0..2 -> NetStored], g_cfg of net_config.c
    sr_error,    \* stale error flags in the flash status register (OPTVERR)
    \* History: what the last complete write of each page put there, whether a
    \* later write of that page was cut or failed, the tables of those, and whether
    \* a command changed RAM since the last load.
    put_cal, put_net,
    hit,
    tried,
    commanded

ram  == <<g_cal, enabled, g_cfg>>
hist == <<put_cal, put_net, hit, tried, commanded>>
vars == <<cal, net, pc, at, erased, ram, sr_error, hist>>

-----------------------------------------------------------------------------
(* What a boot reads.                                                      *)

\* The table that the data words of the page make up.
DataOf(page) ==
    IF page[0] \in {DataWord(t) : t \in Table} /\ \A i \in 0..(NData - 1) : page[i] = page[0]
    THEN page[0].table ELSE Mixture

data_ok_bug(page) == page[NData] # Blank

data_ok(page) == DataOf(page) # Mixture /\ page[NData] = CrcWord(DataOf(page))

cfg_ok(page) ==
    /\ \E t \in Table : page[NData] = CrcWord(t)
    /\ \E e \in BOOLEAN : page[NData + 1] = CfgWord(e)

LoadedTable(page)   == IF data_ok(page) THEN DataOf(page) ELSE Nominal
LoadedEnabled(page) == IF cfg_ok(page) THEN page[NData + 1].enabled ELSE FALSE

NetDefaults == [i \in 0..2 |-> DefaultPart]

LoadedNet_bug(page) == page

\* Only the magic word, in word 0, is checked.
LoadedNet(page) == IF page[0] \in NetPart THEN page ELSE NetDefaults

-----------------------------------------------------------------------------
(* The write in progress.                                                  *)

Writing == pc \in {"init_cal", "save_cal", "save_net"}
Page    == IF pc = "save_net" THEN "net" ELSE "cal"

CalImage(i) == IF i < NData THEN DataWord(g_cal)
               ELSE IF i = NData THEN CrcWord(g_cal) ELSE CfgWord(enabled)

\* A word or a page whose write is cut short, or ends in an error.
PartlyProgrammed(new) == {Blank, new}
PartlyErased(page, words) ==
    { [i \in words |-> IF i \in gone THEN Blank ELSE page[i]] : gone \in SUBSET words }

\* The page after the interrupted step.
Interrupted ==
    IF Page = "cal"
    THEN /\ IF erased
            THEN \E w \in PartlyProgrammed(CalImage(at)) : cal' = [cal EXCEPT ![at] = w]
            ELSE cal' \in PartlyErased(cal, Words.cal)
         /\ UNCHANGED net
    ELSE /\ IF erased
            THEN \E w \in PartlyProgrammed(g_cfg[at]) : net' = [net EXCEPT ![at] = w]
            ELSE net' \in PartlyErased(net, Words.net)
         /\ UNCHANGED cal

-----------------------------------------------------------------------------

\* A new board: both pages are blank.
Init ==
    /\ cal = [i \in Words.cal |-> Blank]
    /\ net = [i \in Words.net |-> Blank]
    /\ pc = "off"
    /\ at = 0
    /\ erased = FALSE
    /\ g_cal = Nominal
    /\ enabled = FALSE
    /\ g_cfg = NetDefaults
    /\ sr_error = FALSE
    /\ put_cal = [table |-> Nominal, enabled |-> FALSE]
    /\ put_net = NetDefaults
    /\ hit = [p \in Pages |-> FALSE]
    /\ tried = {Nominal}
    /\ commanded = FALSE

\* Power-up: main() calls net_config_init, with or without stale error flags.
net_config_init ==
    /\ pc = "off"
    /\ pc' = "boot"
    /\ g_cfg' = LoadedNet(net)
    /\ sr_error' \in BOOLEAN
    /\ commanded' = FALSE
    /\ UNCHANGED <<cal, net, at, erased, g_cal, enabled, put_cal, put_net, hit, tried>>

\* As it would be if the enable flag were read only where the table is repaired.
relay_cal_init_bug ==
    /\ pc \in {"boot", "idle"}
    /\ g_cal' = LoadedTable(cal)
    /\ IF data_ok(cal) /\ cfg_ok(cal)
       THEN pc' = "idle" /\ UNCHANGED <<enabled, sr_error, tried>>
       ELSE /\ pc' = "init_cal"
            /\ enabled' = LoadedEnabled(cal)
            /\ sr_error' = FALSE
            /\ tried' = tried \cup {LoadedTable(cal)}
    /\ at' = 0
    /\ erased' = FALSE
    /\ commanded' = FALSE
    /\ UNCHANGED <<cal, net, g_cfg, put_cal, put_net, hit>>

\* Then relay_cal_init; CALibration:LOAD calls it again later. It rewrites the
\* page if the table or the flag was not valid.
relay_cal_init ==
    /\ pc \in {"boot", "idle"}
    /\ g_cal' = LoadedTable(cal)
    /\ enabled' = LoadedEnabled(cal)
    /\ IF data_ok(cal) /\ cfg_ok(cal)
       THEN pc' = "idle" /\ UNCHANGED <<sr_error, tried>>
       ELSE /\ pc' = "init_cal"
            /\ sr_error' = FALSE
            /\ tried' = tried \cup {LoadedTable(cal)}
    /\ at' = 0
    /\ erased' = FALSE
    /\ commanded' = FALSE
    /\ UNCHANGED <<cal, net, g_cfg, put_cal, put_net, hit>>

\* CALibration:DECade and CALibration:RESet change the table in RAM.
relay_cal_set(t) ==
    /\ pc = "idle"
    /\ g_cal' = t
    /\ commanded' = TRUE
    /\ UNCHANGED <<cal, net, pc, at, erased, enabled, g_cfg, sr_error, put_cal, put_net, hit, tried>>

relay_cal_enable(e) ==
    /\ pc = "idle"
    /\ enabled' = e
    /\ commanded' = TRUE
    /\ UNCHANGED <<cal, net, pc, at, erased, g_cal, g_cfg, sr_error, put_cal, put_net, hit, tried>>

\* NET:IPADdress, SMASk, GATEway, DHCP and PHY:MODE change one field in RAM.
NetSet(i, x) ==
    /\ pc = "idle"
    /\ g_cfg' = [g_cfg EXCEPT ![i] = x]
    /\ commanded' = TRUE
    /\ UNCHANGED <<cal, net, pc, at, erased, g_cal, enabled, sr_error, put_cal, put_net, hit, tried>>

\* CALibration:SAVE.
relay_cal_save ==
    /\ pc = "idle"
    /\ pc' = "save_cal"
    /\ sr_error' = FALSE
    /\ tried' = tried \cup {g_cal}
    /\ UNCHANGED <<cal, net, at, erased, ram, put_cal, put_net, hit, commanded>>

\* NET:APPLy. With stale error flags the erase fails at once, which clears them.
net_config_save ==
    /\ pc = "idle"
    /\ pc' = IF sr_error THEN "idle" ELSE "save_net"
    /\ sr_error' = FALSE
    /\ UNCHANGED <<cal, net, at, erased, ram, hist>>

EraseOK ==
    /\ Writing /\ ~erased
    /\ erased' = TRUE
    /\ IF Page = "cal" THEN cal' = [i \in Words.cal |-> Blank] /\ UNCHANGED net
                       ELSE net' = [i \in Words.net |-> Blank] /\ UNCHANGED cal
    /\ UNCHANGED <<pc, at, ram, sr_error, hist>>

ProgramOK_bug ==
    /\ Writing /\ erased
    /\ IF Page = "cal" THEN cal' = [cal EXCEPT ![at] = CalImage(at)] /\ UNCHANGED net
                       ELSE net' = [net EXCEPT ![at] = g_cfg[at]] /\ UNCHANGED cal
    /\ IF at + 1 = Last[Page]
       THEN /\ pc' = "idle" /\ at' = 0 /\ erased' = FALSE
            /\ hit' = [hit EXCEPT ![Page] = FALSE]
            /\ IF Page = "cal"
               THEN /\ put_cal' = [table |-> g_cal, enabled |-> enabled]
                    /\ tried' = {g_cal}
                    /\ UNCHANGED put_net
               ELSE put_net' = g_cfg /\ UNCHANGED <<put_cal, tried>>
       ELSE at' = at + 1 /\ UNCHANGED <<pc, erased, hist>>
    /\ UNCHANGED <<ram, sr_error, commanded>>

\* One double word; after the last one the call returns 1.
ProgramOK ==
    /\ Writing /\ erased
    /\ IF Page = "cal" THEN cal' = [cal EXCEPT ![at] = CalImage(at)] /\ UNCHANGED net
                       ELSE net' = [net EXCEPT ![at] = g_cfg[at]] /\ UNCHANGED cal
    /\ IF at = Last[Page]
       THEN /\ pc' = "idle" /\ at' = 0 /\ erased' = FALSE
            /\ hit' = [hit EXCEPT ![Page] = FALSE]
            /\ IF Page = "cal"
               THEN /\ put_cal' = [table |-> g_cal, enabled |-> enabled]
                    /\ tried' = {g_cal}
                    /\ UNCHANGED put_net
               ELSE put_net' = g_cfg /\ UNCHANGED <<put_cal, tried>>
       ELSE at' = at + 1 /\ UNCHANGED <<pc, erased, hist>>
    /\ UNCHANGED <<ram, sr_error, commanded>>

\* HAL_FLASHEx_Erase or HAL_FLASH_Program fails: the call returns 0.
WriteError ==
    /\ FlashErrors
    /\ Writing
    /\ Interrupted
    /\ pc' = "idle" /\ at' = 0 /\ erased' = FALSE
    /\ hit' = [hit EXCEPT ![Page] = TRUE]
    /\ UNCHANGED <<ram, sr_error, put_cal, put_net, tried, commanded>>

\* The supply fails, perhaps in the middle of a step of a write.
PowerCut ==
    /\ pc # "off"
    /\ pc' = "off" /\ at' = 0 /\ erased' = FALSE
    /\ IF Writing THEN Interrupted /\ hit' = [hit EXCEPT ![Page] = TRUE]
                  ELSE UNCHANGED <<cal, net, hit>>
    /\ g_cal' = Nominal /\ enabled' = FALSE /\ g_cfg' = NetDefaults
    /\ commanded' = FALSE
    /\ UNCHANGED <<sr_error, put_cal, put_net, tried>>

Next ==
    \/ net_config_init
    \/ relay_cal_init
    \/ \E t \in Table : relay_cal_set(t)
    \/ \E e \in BOOLEAN : relay_cal_enable(e)
    \/ \E c \in NetInputs : NetSet(c[1], c[2])
    \/ relay_cal_save
    \/ net_config_save
    \/ EraseOK
    \/ ProgramOK
    \/ WriteError
    \/ PowerCut

Spec == Init /\ [][Next]_vars

-----------------------------------------------------------------------------
(* Properties.                                                             *)

\* Pages hold double words of their layout, RAM a table, a flag and settings.
TypeOK ==
    /\ cal \in [Words.cal -> CalStored]
    /\ net \in [Words.net -> NetStored]
    /\ pc \in {"off", "boot", "idle", "init_cal", "save_cal", "save_net"}
    /\ at \in Nat /\ (at # 0 => erased) /\ (erased => Writing /\ at \in Words[Page])
    /\ erased \in BOOLEAN
    /\ g_cal \in Table
    /\ enabled \in BOOLEAN
    /\ g_cfg \in [Words.net -> NetStored] /\ g_cfg[0] \in NetPart
    /\ sr_error \in BOOLEAN
    /\ put_cal \in [table : Table, enabled : BOOLEAN]
    /\ put_net \in [Words.net -> NetStored]
    /\ hit \in [Pages -> BOOLEAN]
    /\ tried \in SUBSET Table
    /\ commanded \in BOOLEAN

AtRest(p) == ~(Writing /\ Page = p)

\* What a page's last complete write put there, acknowledged to the user or done
\* by the boot, is what every later boot loads: table and enable flag, or all
\* network settings, through any number of power cycles, of CALibration:LOADs
\* and of cut or failed writes of the other page.
CompletedWriteSurvives ==
    /\ AtRest("cal") /\ ~hit["cal"] =>
          LoadedTable(cal) = put_cal.table /\ LoadedEnabled(cal) = put_cal.enabled
    /\ AtRest("net") /\ ~hit["net"] => LoadedNet(net) = put_net

\* Whatever a cut or failed write, or several, left on the page, a boot loads
\* the nominal table, the last completely written one or one whose write was
\* tried since: never a mixture of tables.
NeverMixed == LoadedTable(cal) \in tried \cup {Nominal}

\* Inductive strengthening of both: the words before `at` are programmed, and
\* every table CRC on the page is that of a table whose write was tried.
FlashInv ==
    /\ Writing /\ erased => \A i \in Words[Page] : i < at =>
          IF Page = "cal" THEN cal[i] = CalImage(i) ELSE net[i] = g_cfg[i]
    /\ Writing /\ Page = "cal" => g_cal \in tried
    /\ \A t \in Table : cal[NData] = CrcWord(t) => t \in tried

\* A page that the boot rewrites gets what was on it, unless a write had been cut.
RepairInv ==
    pc = "init_cal" /\ ~hit["cal"] => put_cal = [table |-> g_cal, enabled |-> enabled]

\* The values in RAM, and what the next load may find, as records of NvStore.
InUse == [cal |-> [table |-> g_cal, enabled |-> enabled], net |-> g_cfg]

Findable ==
    [cal |-> {put_cal} \cup (IF pc = "save_cal" THEN {InUse.cal} ELSE {}),
     net |-> {put_net} \cup (IF pc = "save_net" THEN {InUse.net} ELSE {})]

Store == INSTANCE NvStore WITH
    Record  <- Pages,
    Value   <- [cal |-> [table : Table, enabled : BOOLEAN], net |-> [Words.net -> NetStored]],
    Default <- [cal |-> [table |-> Nominal, enabled |-> FALSE], net |-> NetDefaults],
    on      <- pc # "off",
    inuse   <- InUse,
    commanded <- commanded,
    found   <- Findable,
    spoilt  <- hit

\* The single copy in flash keeps the promise of NvStore as long as no write of the
\* page is cut or fails: what a boot or CALibration:LOAD takes into RAM is all of
\* the last completed write, flag and settings included, and a repair at boot makes
\* nothing else permanent. The next complete write mends a spoilt page.
ImplementsStore == Store!Spec

\* What the calibration guide says of the stored table: CRC and backup copy
\* make it safe against power loss.
PowerLossSafe == AtRest("cal") => LoadedTable(cal) \in tried

\* What net_config.h says: corrupt settings are not used, the defaults are.
CorruptFallsBack == \A i \in Words.net : g_cfg[i] \in NetPart
=============================================================================
