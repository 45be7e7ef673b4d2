------------------------------- MODULE NvFram -------------------------------
(***************************************************************************)
(* The FRAM storage backends: App/relay/relay_cal.c (the calibration table *)
(* and its enable flag) and App/net_config_fram.c (the network settings).  *)
(*                                                                         *)
(* Three records, "data", "cfg" and "net", are each kept twice in the      *)
(* FM24C64B, PRIMARY and BACKUP, a copy being a body followed by its       *)
(* CRC32. Body and CRC are written by separate I2C transfers (fm24_write). *)
(* A transfer is one step here; the power may fail between any two steps   *)
(* or in the middle of one, and a transfer may end in an I2C error.        *)
(*                                                                         *)
(* A record's value is opaque. A CRC matches only the value it was         *)
(* computed from, and a half-written cell (Torn) matches nothing. The      *)
(* magic words are part of the value: every value written carries them.    *)
(***************************************************************************)
EXTENDS Naturals, FiniteSets

Records == {"data", "cfg", "net"}

CONSTANTS
    Value,        \* contents a record may have
    Default,      \* nominal table / disabled / default network settings
    Torn,         \* a cell whose write was cut short
    Input,        \* [Records -> SUBSET Value]: what commands may put in RAM
    I2CErrors,    \* TRUE if transfers may end in an I2C error
    MaxFaults     \* bound on the outstanding faults of all records together

ASSUME DefaultAssumption == Default \in Value
ASSUME TornAssumption == Torn \notin Value
ASSUME InputAssumption == Input \in [Records -> SUBSET Value]
ASSUME I2CErrorsAssumption == I2CErrors \in BOOLEAN
ASSUME MaxFaultsAssumption == MaxFaults \in Nat

Cells   == {"Pbody", "Pcrc", "Bbody", "Bcrc"}
Bodies  == {"Pbody", "Bbody"}

CRC(v) == <<"crc", v>>
CRCs   == {CRC(v) : v \in Value}
Stored == Value \cup CRCs \cup {Torn}

ASSUME TornCrcAssumption == Torn \notin CRCs

VARIABLES
    mem,     \* [Records -> [Cells -> Stored]]: the FRAM
    pc,      \* "off", "net_init", "cal_init", "idle" or "save"
    ram,     \* [Records -> Value]: g_cal, g_cfg of relay_cal.c, g_cfg of net_config
    plan,    \* [Records -> {"none", "restore", "full"}]: writes still to be done
    at,      \* [Records -> Cells]: the next cell of the plan
    ok,      \* no transfer of the plan has failed
    \* History: the values a reboot may come up with, the last acknowledged one
    \* and those of the saves since, the faults that hit a record since then, and
    \* whether a command changed RAM since the last load.
    intent,
    faults,
    commanded

vars == <<mem, pc, ram, plan, at, ok, intent, faults, commanded>>

-----------------------------------------------------------------------------

Valid(m, copy) ==
    IF copy = "P" THEN m["Pbody"] \in Value /\ m["Pcrc"] = CRC(m["Pbody"])
                  ELSE m["Bbody"] \in Value /\ m["Bcrc"] = CRC(m["Bbody"])

Loaded_bug(m, readable) ==
    IF "P" \in readable /\ Valid(m, "P") THEN m["Pbody"]
    ELSE IF "B" \in readable THEN m["Bbody"] ELSE Default

\* As it would be if an unreadable primary meant the defaults at once.
Loaded_bug2(m, readable) ==
    IF "P" \notin readable THEN Default
    ELSE IF Valid(m, "P") THEN m["Pbody"]
    ELSE IF "B" \in readable /\ Valid(m, "B") THEN m["Bbody"]
    ELSE Default

\* What the boot code loads when it can read the copies in `readable`.
Loaded(m, readable) ==
    IF "P" \in readable /\ Valid(m, "P") THEN m["Pbody"]
    ELSE IF "B" \in readable /\ Valid(m, "B") THEN m["Bbody"]
    ELSE Default

\* ... and what it then writes back: nothing, the primary, or both copies.
Repair(m, readable) ==
    IF "P" \in readable /\ Valid(m, "P") THEN "none"
    ELSE IF "B" \in readable /\ Valid(m, "B") THEN "restore"
    ELSE "full"

Content(cell, v) == IF cell \in Bodies THEN v ELSE CRC(v)

\* A write that is cut short leaves the old content, the new one or neither.
Partial(old, new) == IF old = new THEN {old} ELSE {old, new, Torn}

\* The writes run in program order: restores before fills, data before cfg.
Before(r, s) ==
    \/ plan[r] = "restore" /\ plan[s] = "full"
    \/ plan[r] = plan[s] /\ r = "data" /\ s = "cfg"

Turn(r) == plan[r] # "none" /\ ~\E s \in Records \ {r} : plan[s] # "none" /\ Before(s, r)

\* Named bound: room for one more fault, or for n more.
Room(n) == faults["data"] + faults["cfg"] + faults["net"] + n <= MaxFaults

Quiet == \A r \in Records : plan[r] = "none"

-----------------------------------------------------------------------------

\* A new board: the FRAM holds no valid copy of anything.
Init ==
    /\ mem = [r \in Records |-> [c \in Cells |-> Torn]]
    /\ pc = "off"
    /\ ram = [r \in Records |-> Default]
    /\ plan = [r \in Records |-> "none"]
    /\ at = [r \in Records |-> "Pbody"]
    /\ ok = [r \in Records |-> TRUE]
    /\ intent = [r \in Records |-> {Default}]
    /\ faults = [r \in Records |-> 0]
    /\ commanded = FALSE

\* What the boot code has in its buffers when it checks the CRCs. relay_cal.c
\* ignores a failed read, and the buffer may then still hold an older value. For
\* the copies in stale, that is the value the CRC stored in the FRAM belongs to.
Buffered(m, stale) ==
    [m EXCEPT !["Pbody"] = IF "P" \in stale /\ m["Pcrc"] \in CRCs THEN m["Pcrc"][2] ELSE @,
              !["Bbody"] = IF "B" \in stale /\ m["Bcrc"] \in CRCs THEN m["Bcrc"][2] ELSE @]

\* I2C errors met while reading: the backup is read only if the primary fails.
ReadFaults(m, unread, stale) ==
    (IF "P" \in unread THEN 1 ELSE 0)
        + (IF "B" \in unread /\ ("P" \in unread \ stale \/ ~Valid(Buffered(m, stale), "P"))
           THEN 1 ELSE 0)

\* The read phase of net_config_init / relay_cal_init for the records rs.
\* unread[r] are the copies whose read fails with an I2C error.
ReadRecords(rs, unread, stale) ==
    LET read(r)     == Buffered(mem[r], stale[r])
        readable(r) == {"P", "B"} \ (unread[r] \ stale[r])
        errors(r)   == ReadFaults(mem[r], unread[r], stale[r])
    IN  /\ \A r \in rs : stale[r] \subseteq unread[r] /\ (I2CErrors \/ unread[r] = {})
        /\ Room(IF rs = {"net"} THEN errors("net") ELSE errors("data") + errors("cfg"))
        /\ ram' = [r \in Records |-> IF r \in rs THEN Loaded(read(r), readable(r)) ELSE ram[r]]
        /\ plan' = [r \in Records |-> IF r \in rs THEN Repair(read(r), readable(r)) ELSE plan[r]]
        /\ at' = [r \in Records |-> "Pbody"]
        /\ ok' = [r \in Records |-> TRUE]
        /\ faults' = [r \in Records |-> IF r \in rs THEN faults[r] + errors(r) ELSE faults[r]]
        /\ commanded' = FALSE
        /\ UNCHANGED <<mem, intent>>

\* Power-up: main() calls net_config_init first, which does check its reads.
net_config_init(unread) ==
    /\ pc = "off"
    /\ pc' = "net_init"
    /\ ReadRecords({"net"}, unread, [r \in {"net"} |-> {}])

\* Then relay_cal_init; CALibration:LOAD calls it again later.
relay_cal_init(unread, stale) ==
    /\ pc \in {"net_init", "idle"} /\ Quiet
    /\ pc' = "cal_init"
    /\ ReadRecords({"data", "cfg"}, unread, stale)

\* The call returns once all its writes are done.
Return ==
    /\ pc \in {"cal_init", "save"} /\ Quiet
    /\ pc' = "idle"
    /\ UNCHANGED <<mem, ram, plan, at, ok, intent, faults, commanded>>

\* CALibration:DECade/ENable/RESet and the NET: setters change RAM only.
SetRam(r, v) ==
    /\ pc = "idle"
    /\ ram' = [ram EXCEPT ![r] = v]
    /\ commanded' = TRUE
    /\ UNCHANGED <<mem, pc, plan, at, ok, intent, faults>>

\* relay_cal_save (after a successful ping) and net_config_save.
Save(rs) ==
    /\ pc = "idle"
    /\ pc' = "save"
    /\ plan' = [r \in Records |-> IF r \in rs THEN "full" ELSE "none"]
    /\ at' = [r \in Records |-> "Pbody"]
    /\ ok' = [r \in Records |-> TRUE]
    /\ intent' = [r \in Records |-> IF r \in rs THEN intent[r] \cup {ram[r]} ELSE intent[r]]
    /\ UNCHANGED <<mem, ram, faults, commanded>>

relay_cal_save  == Save({"data", "cfg"})
net_config_save == Save({"net"})

\* The plan of r is over; good says that every transfer of a save succeeded.
Finish(r, good) ==
    /\ plan' = [plan EXCEPT ![r] = "none"]
    /\ at' = [at EXCEPT ![r] = "Pbody"]
    /\ intent' = [intent EXCEPT ![r] = IF good THEN {ram[r]} ELSE @]

WriteOK_bug(r) ==
    LET cell == at[r]
        last == cell = "Bcrc" \/ (cell = "Pcrc" /\ plan[r] = "restore")
    IN  /\ Turn(r)
        /\ mem' = [mem EXCEPT ![r][cell] = Content(cell, ram[r])]
        /\ IF last
           THEN /\ Finish(r, plan[r] = "full")
                /\ faults' = [faults EXCEPT ![r] = IF plan[r] = "full" THEN 0 ELSE @]
           ELSE /\ at' = [at EXCEPT ![r] = CASE cell = "Pbody" -> "Bbody"
                                             [] cell = "Bbody" -> "Pcrc"
                                             [] cell = "Pcrc"  -> "Bcrc"]
                /\ UNCHANGED <<plan, intent, faults>>
        /\ UNCHANGED <<pc, ram, ok, commanded>>

\* One fm24_write that succeeds.
WriteOK(r) ==
    LET cell == at[r]
        last == cell = "Bcrc" \/ (cell = "Pcrc" /\ plan[r] = "restore")
        good == plan[r] = "full" /\ ok[r]
    IN  /\ Turn(r)
        /\ mem' = [mem EXCEPT ![r][cell] = Content(cell, ram[r])]
        /\ IF last
           THEN /\ Finish(r, good)
                /\ faults' = [faults EXCEPT ![r] = IF good THEN 0 ELSE @]
           ELSE /\ at' = [at EXCEPT ![r] = CASE cell = "Pbody" -> "Pcrc"
                                             [] cell = "Pcrc"  -> "Bbody"
                                             [] cell = "Bbody" -> "Bcrc"]
                /\ UNCHANGED <<plan, intent, faults>>
        /\ UNCHANGED <<pc, ram, ok, commanded>>

WriteError_bug(r) ==
    LET cell == at[r]
        last == cell \in {"Bbody", "Bcrc"} \/ plan[r] = "restore"
    IN  /\ I2CErrors
        /\ Turn(r)
        /\ Room(1)
        /\ \E left \in Partial(mem[r][cell], Content(cell, ram[r])) :
              mem' = [mem EXCEPT ![r][cell] = left]
        /\ faults' = [faults EXCEPT ![r] = @ + 1]
        /\ IF last
           THEN Finish(r, FALSE)
           ELSE /\ at' = [at EXCEPT ![r] = "Bbody"]
                /\ UNCHANGED <<plan, intent>>
        /\ UNCHANGED <<pc, ram, ok, commanded>>

\* One fm24_write that fails: the block's CRC is not written, the other copy
\* still is, and the save will answer 0.
WriteError(r) ==
    LET cell == at[r]
        last == cell \in {"Bbody", "Bcrc"} \/ plan[r] = "restore"
    IN  /\ I2CErrors
        /\ Turn(r)
        /\ Room(1)
        /\ \E left \in Partial(mem[r][cell], Content(cell, ram[r])) :
              mem' = [mem EXCEPT ![r][cell] = left]
        /\ faults' = [faults EXCEPT ![r] = @ + 1]
        /\ ok' = [ok EXCEPT ![r] = FALSE]
        /\ IF last
           THEN Finish(r, FALSE)
           ELSE /\ at' = [at EXCEPT ![r] = "Bbody"]
                /\ UNCHANGED <<plan, intent>>
        /\ UNCHANGED <<pc, ram, commanded>>

\* The supply fails: the transfer in progress, if any, leaves its cell in any
\* state and the rest of the plan is forgotten with the RAM.
PowerCut ==
    /\ pc # "off"
    /\ pc' = "off"
    /\ \/ /\ Quiet
          /\ UNCHANGED <<mem, faults>>
       \/ \E r \in Records :
             /\ Turn(r)
             /\ Room(1)
             /\ \E left \in Partial(mem[r][at[r]], Content(at[r], ram[r])) :
                   mem' = [mem EXCEPT ![r][at[r]] = left]
             /\ faults' = [faults EXCEPT ![r] = @ + 1]
    /\ ram' = [r \in Records |-> Default]
    /\ plan' = [r \in Records |-> "none"]
    /\ at' = [r \in Records |-> "Pbody"]
    /\ ok' = [r \in Records |-> TRUE]
    /\ commanded' = FALSE
    /\ UNCHANGED intent

Next ==
    \/ \E u \in SUBSET {"P", "B"} : net_config_init([r \in {"net"} |-> u])
    \/ \E u, s \in [{"data", "cfg"} -> SUBSET {"P", "B"}] : relay_cal_init(u, s)
    \/ Return
    \/ \E r \in Records : \E v \in Input[r] : SetRam(r, v)
    \/ relay_cal_save
    \/ net_config_save
    \/ \E r \in Records : WriteOK(r)
    \/ \E r \in Records : WriteError(r)
    \/ PowerCut

Spec == Init /\ [][Next]_vars

-----------------------------------------------------------------------------
(* Properties.                                                             *)

\* The FRAM cells hold bodies, CRCs or torn writes, RAM holds whole values.
TypeOK ==
    /\ mem \in [Records -> [Cells -> Stored]]
    /\ pc \in {"off", "net_init", "cal_init", "idle", "save"}
    /\ ram \in [Records -> Value]
    /\ plan \in [Records -> {"none", "restore", "full"}]
    /\ at \in [Records -> Cells]
    /\ ok \in [Records -> BOOLEAN]
    /\ intent \in [Records -> SUBSET Value]
    /\ faults \in [Records -> Nat]
    /\ commanded \in BOOLEAN

AtBoot(r) == Loaded(mem[r], {"P", "B"})

\* Between commands, and with the power off, the next boot finds the last value
\* whose save was acknowledged or that of a later save that was cut short, as
\* long as at most one fault (a power cut during a write, a failed transfer)
\* hit the record since that acknowledgement.
OneFaultSafe == \A r \in Records : plan[r] = "none" /\ faults[r] <= 1 => AtBoot(r) \in intent[r]

\* The inductive form of OneFaultSafe, for one record with memory m, plan p at
\* cell c, transfers good so far (o), RAM value v, intent i and fault count f.
\* At rest without a fault the copies agree; while a save rewrites PRIMARY, BACKUP
\* is good, and while it rewrites BACKUP, PRIMARY is.
AllowedP(m, i) == Valid(m, "P") => m["Pbody"] \in i
AllowedB(m, i) == IF Valid(m, "B") THEN m["Bbody"] \in i ELSE Default \in i
Holds(m, copy, v) == Valid(m, copy) /\ m[IF copy = "P" THEN "Pbody" ELSE "Bbody"] = v

RestInv(m, i, f) ==
    /\ f <= 1 => Loaded(m, {"P", "B"}) \in i
    /\ f = 0 => /\ Valid(m, "P") <=> Valid(m, "B")
                /\ Valid(m, "P") => m["Pbody"] = m["Bbody"]
                /\ m["Pcrc"] \in CRCs => Valid(m, "P")
                /\ m["Bcrc"] \in CRCs => Valid(m, "B")

FullInv(m, c, o, v, i, f) ==
    /\ c = "Pbody" => RestInv(m, i, f)
    /\ f <= 1 => v \in i
    /\ ~o => f >= 1 /\ c \in {"Bbody", "Bcrc"}
    /\ c = "Pcrc" => m["Pbody"] = v
    /\ c \in {"Pbody", "Pcrc"} /\ f = 0 => AllowedP(m, i) /\ AllowedB(m, i)
    /\ c \in {"Bbody", "Bcrc"} => IF o THEN Holds(m, "P", v) ELSE f <= 1 => AllowedP(m, i)
    /\ c = "Bcrc" => m["Bbody"] = v

RestoreInv(m, c, v, i, f) ==
    /\ c = "Pbody" => RestInv(m, i, f)
    /\ f >= 1
    /\ f <= 1 => v \in i
    /\ c \in {"Pbody", "Pcrc"}
    /\ c = "Pcrc" => m["Pbody"] = v

RecordInv(m, p, c, o, v, i, f) ==
    /\ p = "none" => RestInv(m, i, f)
    /\ p = "full" => FullInv(m, c, o, v, i, f)
    /\ p = "restore" => RestoreInv(m, c, v, i, f)

\* The boot of net_config is alone, and a record that waits for another's writes
\* has not begun its own.
OrderInv ==
    /\ pc \in {"off", "idle"} => Quiet
    /\ plan["net"] # "none" => plan["data"] = "none" /\ plan["cfg"] = "none"
    /\ \A r, s \in Records :
          r # s /\ plan[r] # "none" /\ plan[s] # "none" /\ Before(r, s) => at[s] = "Pbody"

StorageInv ==
    /\ OrderInv
    /\ \A r \in Records :
          RecordInv(mem[r], plan[r], at[r], ok[r], ram[r], intent[r], faults[r])

\* A save that was answered 1 left two good copies, whatever happened before.
AcknowledgedIsMirrored ==
    [][\A r \in Records :
          plan[r] = "full" /\ plan'[r] = "none" /\ ok'[r] /\ pc' # "off"
              => /\ Valid(mem'[r], "P") /\ mem'[r]["Pbody"] = ram[r]
                 /\ Valid(mem'[r], "B") /\ mem'[r]["Bbody"] = ram[r]]_vars

Store == INSTANCE NvStore WITH
    Record  <- Records,
    Value   <- [r \in Records |-> Value],
    Default <- [r \in Records |-> Default],
    on      <- pc # "off",
    inuse   <- ram,
    commanded <- commanded,
    found   <- intent,
    spoilt  <- [r \in Records |-> faults[r] > 1]

\* The two copies keep the promise of NvStore through any single fault: what
\* net_config_init, relay_cal_init and CALibration:LOAD take into RAM is the last
\* acknowledged value or that of an unfinished save, also when the read itself fails
\* or is checked against an old buffer, and a repair never makes another value
\* permanent. Only a second fault before the next acknowledged save spoils a record.
ImplementsStore == Store!Spec
=============================================================================
