---------------------------- MODULE NvFramProofs ----------------------------
(* OneFaultSafe for every set of values and any number of faults in total:   *)
(* the inductive invariant is StorageInv, record by record. Then the         *)
(* refinement of NvStore.                                                    *)
EXTENDS NvFram, TLAPS

USE DEF Records, Cells

\* The cells hold bodies, CRCs or torn writes and the RAM holds whole values.
THEOREM TypeCorrect == Spec => []TypeOK
<1> USE DefaultAssumption, InputAssumption
<1>1. Init => TypeOK
  <2> SUFFICES ASSUME Init PROVE TypeOK  OBVIOUS
  <2>1. mem \in [Records -> [Cells -> Stored]]  BY DEF Init, Stored
  <2>2. commanded \in BOOLEAN  BY DEF Init
  <2>3. /\ ram \in [Records -> Value] /\ intent \in [Records -> SUBSET Value]
        /\ ok \in [Records -> BOOLEAN] /\ faults \in [Records -> Nat]
    BY DEF Init
  <2> QED  BY <2>1, <2>2, <2>3 DEF Init, TypeOK
<1>2. TypeOK /\ [Next]_vars => TypeOK'
  <2> SUFFICES ASSUME TypeOK, [Next]_vars PROVE TypeOK'
    OBVIOUS
  <2> USE DEF TypeOK
  <2>l. ASSUME NEW m, NEW readable
        PROVE  /\ Loaded(m, readable) \in Value
               /\ Repair(m, readable) \in {"none", "restore", "full"}
    BY DEF Loaded, Repair, Valid
  <2>c. ASSUME NEW cell \in Cells, NEW v \in Value PROVE Content(cell, v) \in Stored
    BY DEF Content, Stored, CRCs
  <2>p. ASSUME NEW x \in Stored, NEW y \in Stored PROVE Partial(x, y) \subseteq Stored
    BY DEF Partial, Stored
  <2>r. ASSUME NEW rs, NEW u, NEW s, ReadRecords(rs, u, s), pc' \in {"net_init", "cal_init"}
        PROVE  TypeOK'
    <3>1. \A r \in Records : faults[r] + ReadFaults(mem[r], u[r], s[r]) \in Nat
      BY DEF ReadFaults
    <3> QED  BY <2>r, <2>l, <3>1 DEF ReadRecords
  <2>1. ASSUME NEW u, net_config_init(u) PROVE TypeOK'
    BY <2>1, <2>r DEF net_config_init
  <2>2. ASSUME NEW u, NEW s, relay_cal_init(u, s) PROVE TypeOK'
    BY <2>2, <2>r DEF relay_cal_init
  <2>3. CASE Return  BY <2>3 DEF Return
  <2>4. ASSUME NEW r \in Records, NEW v \in Input[r], SetRam(r, v) PROVE TypeOK'
    BY <2>4 DEF SetRam
  <2>5. CASE relay_cal_save  BY <2>5 DEF relay_cal_save, Save
  <2>6. CASE net_config_save  BY <2>6 DEF net_config_save, Save
  <2>7. ASSUME NEW r \in Records, WriteOK(r) PROVE TypeOK'
    <3>1. mem' \in [Records -> [Cells -> Stored]]  BY <2>7, <2>c DEF WriteOK
    <3> QED  BY <2>7, <3>1 DEF WriteOK, Finish
  <2>8. ASSUME NEW r \in Records, WriteError(r) PROVE TypeOK'
    <3>1. PICK left \in Partial(mem[r][at[r]], Content(at[r], ram[r])) :
             mem' = [mem EXCEPT ![r][at[r]] = left]
      BY <2>8 DEF WriteError
    <3>2. left \in Stored  BY <3>1, <2>c, <2>p
    <3> QED  BY <2>8, <3>1, <3>2 DEF WriteError, Finish
  <2>9. CASE PowerCut
    <3>1. CASE Quiet /\ UNCHANGED <<mem, faults>>
      BY <2>9, <3>1 DEF PowerCut
    <3>2. CASE ~(Quiet /\ UNCHANGED <<mem, faults>>)
      <4>1. PICK r \in Records :
               /\ \E left \in Partial(mem[r][at[r]], Content(at[r], ram[r])) :
                     mem' = [mem EXCEPT ![r][at[r]] = left]
               /\ faults' = [faults EXCEPT ![r] = @ + 1]
        BY <2>9, <3>2 DEF PowerCut
      <4>2. PICK left \in Partial(mem[r][at[r]], Content(at[r], ram[r])) :
               mem' = [mem EXCEPT ![r][at[r]] = left]
        BY <4>1
      <4>3. left \in Stored  BY <4>2, <2>c, <2>p
      <4>4. mem' \in [Records -> [Cells -> Stored]]  BY <4>2, <4>3
      <4>5. faults' \in [Records -> Nat]  BY <4>1
      <4> QED  BY <2>9, <4>4, <4>5 DEF PowerCut
    <3> QED  BY <3>1, <3>2
  <2>a. CASE UNCHANGED vars  BY <2>a DEF vars
  <2> QED  BY <2>1, <2>2, <2>3, <2>4, <2>5, <2>6, <2>7, <2>8, <2>9, <2>a DEF Next
<1> QED  BY <1>1, <1>2, PTL DEF Spec

-----------------------------------------------------------------------------
(* One record, one transition at a time. The lemmas speak of values only.    *)

\* A buffer whose body was read is the copy; with a failed read it is valid only
\* if the stored CRC is a CRC.
LEMMA BufferedCopy ==
  ASSUME NEW m \in [Cells -> Stored], NEW s \in SUBSET {"P", "B"}
  PROVE  LET n == Buffered(m, s) IN
         /\ "P" \notin s => n["Pbody"] = m["Pbody"] /\ (Valid(n, "P") <=> Valid(m, "P"))
         /\ "B" \notin s => n["Bbody"] = m["Bbody"] /\ (Valid(n, "B") <=> Valid(m, "B"))
         /\ Valid(n, "B") => m["Bcrc"] \in CRCs
BY DEF Buffered, Valid, CRCs

\* Reading a record at rest: what is loaded is allowed and the plan is sound.
LEMMA ReadStep ==
  ASSUME NEW m \in [Cells -> Stored], NEW i \in SUBSET Value, NEW f \in Nat,
         NEW u \in SUBSET {"P", "B"}, NEW s \in SUBSET u, RestInv(m, i, f)
  PROVE  RecordInv(m, Repair(Buffered(m, s), {"P", "B"} \ (u \ s)), "Pbody", TRUE,
                   Loaded(Buffered(m, s), {"P", "B"} \ (u \ s)), i, f + ReadFaults(m, u, s))
<1> DEFINE n == Buffered(m, s)
           readable == {"P", "B"} \ (u \ s)
           e == ReadFaults(m, u, s)
           g == f + e
           v == Loaded(n, readable)
<1>1. e \in Nat  BY DEF ReadFaults
<1>2. RestInv(m, i, g)  BY <1>1 DEF RestInv
<1>3. /\ "P" \notin u => n["Pbody"] = m["Pbody"] /\ (Valid(n, "P") <=> Valid(m, "P"))
      /\ "B" \notin u => n["Bbody"] = m["Bbody"] /\ (Valid(n, "B") <=> Valid(m, "B"))
      /\ Valid(n, "B") => m["Bcrc"] \in CRCs
  BY BufferedCopy
<1>4. CASE Repair(n, readable) = "none"
  BY <1>2, <1>4 DEF RecordInv
<1>5. CASE Repair(n, readable) = "restore"
  <2>1. /\ "P" \in u \ s \/ ~Valid(n, "P")
        /\ Valid(n, "B") /\ v = n["Bbody"]
    BY <1>5 DEF Repair, Loaded
  <2>2. e = (IF "P" \in u THEN 1 ELSE 0) + (IF "B" \in u THEN 1 ELSE 0)
    BY <2>1 DEF ReadFaults
  <2>3. g >= 1
    BY <1>3, <2>1, <2>2 DEF RestInv
  <2>4. g <= 1 => v \in i
    BY <1>3, <2>1, <2>2 DEF RestInv, Loaded
  <2> HIDE DEF n, readable, e, g, v
  <2> QED  BY <1>2, <1>5, <2>3, <2>4 DEF RecordInv, RestoreInv, n, readable, e, g, v
<1>6. CASE Repair(n, readable) = "full"
  <2>1. /\ v = Default
        /\ "P" \in u \ s \/ ~Valid(n, "P")
        /\ "B" \in u \ s \/ ~Valid(n, "B")
    BY <1>6 DEF Repair, Loaded
  <2>2. e = (IF "P" \in u THEN 1 ELSE 0) + (IF "B" \in u THEN 1 ELSE 0)
    BY <2>1 DEF ReadFaults
  <2>3. g <= 1 => Default \in i
    BY <1>3, <2>1, <2>2 DEF RestInv, Loaded
  <2>4. g = 0 => AllowedP(m, i) /\ AllowedB(m, i)
    BY <1>3, <2>1, <2>2, <2>3 DEF AllowedP, AllowedB
  <2> QED  BY <1>2, <1>6, <2>1, <2>3, <2>4 DEF RecordInv, FullInv
<1> QED  BY <1>4, <1>5, <1>6 DEF Repair

\* Starting a save of a record at rest.
LEMMA SaveStep ==
  ASSUME NEW m \in [Cells -> Stored], NEW i \in SUBSET Value, NEW f \in Nat,
         NEW v \in Value, RestInv(m, i, f)
  PROVE  FullInv(m, "Pbody", TRUE, v, i \cup {v}, f)
BY DEF RestInv, FullInv, AllowedP, AllowedB, Loaded

\* Writing a body or a CRC changes one copy's validity only.
LEMMA WriteCell ==
  ASSUME NEW m \in [Cells -> Stored], NEW c \in Cells, NEW x
  PROVE  LET n == [m EXCEPT ![c] = x] IN
         /\ c \in {"Pbody", "Pcrc"} =>
               /\ Valid(n, "B") <=> Valid(m, "B")
               /\ n["Bbody"] = m["Bbody"]
         /\ c \in {"Bbody", "Bcrc"} =>
               /\ Valid(n, "P") <=> Valid(m, "P")
               /\ n["Pbody"] = m["Pbody"]
         /\ n[c] = x
BY DEF Valid

\* A cut or failed write of PRIMARY leaves it invalid, old or new.
LEMMA TornPrimary ==
  ASSUME NEW m \in [Cells -> Stored], NEW i \in SUBSET Value, NEW v \in i,
         NEW c \in {"Pbody", "Pcrc"}, AllowedP(m, i), c = "Pcrc" => m["Pbody"] = v,
         NEW x \in Partial(m[c], Content(c, v))
  PROVE  AllowedP([m EXCEPT ![c] = x], i)
<1> DEFINE n == [m EXCEPT ![c] = x]
<1> SUFFICES ASSUME Valid(n, "P") PROVE n["Pbody"] \in i
  BY DEF AllowedP
<1>1. CASE c = "Pcrc"
  BY <1>1
<1>2. CASE c = "Pbody"
  <2>1. x \in {m["Pbody"], v, Torn}  BY <1>2 DEF Partial, Content, Bodies
  <2>2. n["Pbody"] = x /\ n["Pcrc"] = m["Pcrc"]  BY <1>2
  <2>3. x \in Value /\ m["Pcrc"] = CRC(x)  BY <2>2 DEF Valid
  <2>4. CASE x = m["Pbody"]  BY <2>2, <2>3, <2>4 DEF AllowedP, Valid
  <2>5. CASE x = v  BY <2>2, <2>5
  <2> QED  BY <2>1, <2>3, <2>4, <2>5, TornAssumption
<1> QED  BY <1>1, <1>2

\* A transfer of a save or fill that succeeds.
LEMMA FullWrite ==
  ASSUME NEW m \in [Cells -> Stored], NEW c \in Cells, NEW o \in BOOLEAN, NEW v \in Value,
         NEW i \in SUBSET Value, NEW f \in Nat, FullInv(m, c, o, v, i, f)
  PROVE  LET n == [m EXCEPT ![c] = Content(c, v)] IN
         /\ c = "Pbody" => FullInv(n, "Pcrc", o, v, i, f)
         /\ c = "Pcrc"  => FullInv(n, "Bbody", o, v, i, f)
         /\ c = "Bbody" => FullInv(n, "Bcrc", o, v, i, f)
         /\ c = "Bcrc"  => RestInv(n, IF o THEN {v} ELSE i, IF o THEN 0 ELSE f)
<1> DEFINE n == [m EXCEPT ![c] = Content(c, v)]
<1>1. CASE c = "Pbody"
  <2>1. n["Pbody"] = v  BY <1>1 DEF Content, Bodies
  <2>2. AllowedB(m, i) => AllowedB(n, i)  BY <1>1, WriteCell DEF AllowedB
  <2>3. v \in i => AllowedP(n, i)  BY <2>1 DEF AllowedP
  <2> QED  BY <1>1, <2>1, <2>2, <2>3 DEF FullInv
<1>2. CASE c = "Pcrc"
  <2>1. Holds(n, "P", v)  BY <1>2 DEF FullInv, Holds, Valid, Content, Bodies
  <2> QED  BY <1>2, <2>1 DEF FullInv
<1>3. CASE c = "Bbody"
  <2>1. n["Bbody"] = v  BY <1>3 DEF Content, Bodies
  <2>2. Holds(m, "P", v) => Holds(n, "P", v)  BY <1>3, WriteCell DEF Holds
  <2>3. AllowedP(m, i) => AllowedP(n, i)  BY <1>3, WriteCell DEF AllowedP
  <2> QED  BY <1>3, <2>1, <2>2, <2>3 DEF FullInv
<1>4. CASE c = "Bcrc"
  <2>1. Valid(n, "B") /\ n["Bbody"] = v
    BY <1>4 DEF FullInv, Valid, Content, Bodies
  <2>2. CASE o
    <3>1. Valid(n, "P") /\ n["Pbody"] = v
      BY <1>4, <2>2, WriteCell DEF FullInv, Holds
    <3> QED  BY <1>4, <2>1, <2>2, <3>1 DEF RestInv, Loaded
  <2>3. CASE ~o
    <3>1. f >= 1 /\ (f <= 1 => v \in i /\ AllowedP(n, i))
      BY <1>4, <2>3, WriteCell DEF FullInv, AllowedP
    <3> QED  BY <1>4, <2>1, <2>3, <3>1 DEF RestInv, Loaded, AllowedP
  <2> QED  BY <2>2, <2>3
<1> QED  BY <1>1, <1>2, <1>3, <1>4

\* A transfer of a restore that succeeds: PRIMARY gets what was loaded.
LEMMA RestoreWrite ==
  ASSUME NEW m \in [Cells -> Stored], NEW c \in Cells, NEW v \in Value,
         NEW i \in SUBSET Value, NEW f \in Nat, RestoreInv(m, c, v, i, f)
  PROVE  LET n == [m EXCEPT ![c] = Content(c, v)] IN
         /\ c = "Pbody" => RestoreInv(n, "Pcrc", v, i, f)
         /\ c = "Pcrc"  => RestInv(n, i, f)
<1> DEFINE n == [m EXCEPT ![c] = Content(c, v)]
<1>1. CASE c = "Pbody"
  <2>1. n["Pbody"] = v  BY <1>1 DEF Content, Bodies
  <2> QED  BY <1>1, <2>1 DEF RestoreInv
<1>2. CASE c = "Pcrc"
  <2>1. Holds(n, "P", v)  BY <1>2 DEF RestoreInv, Holds, Valid, Content, Bodies
  <2> QED  BY <1>2, <2>1 DEF RestoreInv, RestInv, Holds, Loaded
<1> QED  BY <1>1, <1>2 DEF RestoreInv

\* A transfer of a save or fill that is cut short or fails, if nothing more is
\* written: one more fault, and the record meets its rest condition.
LEMMA InterruptedFull ==
  ASSUME NEW m \in [Cells -> Stored], NEW c \in Cells,
         NEW o \in BOOLEAN, NEW v \in Value, NEW i \in SUBSET Value, NEW f \in Nat,
         FullInv(m, c, o, v, i, f), NEW x \in Partial(m[c], Content(c, v))
  PROVE  RestInv([m EXCEPT ![c] = x], i, f + 1)
<1> DEFINE n == [m EXCEPT ![c] = x]
<1>1. CASE f >= 1  BY <1>1 DEF RestInv
<1>2. CASE f = 0
  <2>1. o /\ v \in i
    BY <1>2 DEF FullInv
  <2>2. CASE c \in {"Bbody", "Bcrc"}
    <3>1. Valid(n, "P") /\ n["Pbody"] = v
      BY <2>1, <2>2, WriteCell DEF FullInv, Holds
    <3> QED  BY <1>2, <2>1, <3>1 DEF RestInv, Loaded
  <2>3. CASE c \in {"Pbody", "Pcrc"}
    <3>1. AllowedP(n, i)  BY <1>2, <2>1, <2>3, TornPrimary DEF FullInv
    <3>2. AllowedB(n, i)  BY <1>2, <2>1, <2>3, WriteCell DEF FullInv, AllowedB
    <3> QED  BY <1>2, <3>1, <3>2 DEF RestInv, Loaded, AllowedP, AllowedB
  <2> QED  BY <2>2, <2>3
<1> QED  BY <1>1, <1>2

\* The same for a restore, which only runs after a fault.
LEMMA InterruptedRestore ==
  ASSUME NEW m, NEW n, NEW c, NEW v, NEW i, NEW f \in Nat, RestoreInv(m, c, v, i, f)
  PROVE  RestInv(n, i, f + 1)
BY DEF RestoreInv, RestInv

\* An I2C error while PRIMARY is written: the code goes on with BACKUP.
LEMMA FailedPrimary ==
  ASSUME NEW m \in [Cells -> Stored], NEW c \in {"Pbody", "Pcrc"}, NEW o \in BOOLEAN,
         NEW v \in Value, NEW i \in SUBSET Value, NEW f \in Nat,
         FullInv(m, c, o, v, i, f), NEW x \in Partial(m[c], Content(c, v))
  PROVE  FullInv([m EXCEPT ![c] = x], "Bbody", FALSE, v, i, f + 1)
<1>1. f + 1 <= 1 => v \in i /\ AllowedP([m EXCEPT ![c] = x], i)
  <2> SUFFICES ASSUME f = 0 PROVE v \in i /\ AllowedP([m EXCEPT ![c] = x], i)
    OBVIOUS
  <2>1. v \in i /\ AllowedP(m, i) /\ (c = "Pcrc" => m["Pbody"] = v)  BY DEF FullInv
  <2> QED  BY <2>1, TornPrimary
<1> QED  BY <1>1 DEF FullInv

\* Forgetting a plan that has not begun.
LEMMA NotBegun ==
  ASSUME NEW m, NEW p \in {"none", "restore", "full"}, NEW o, NEW v, NEW i, NEW f,
         RecordInv(m, p, "Pbody", o, v, i, f)
  PROVE  RestInv(m, i, f)
BY DEF RecordInv, FullInv, RestoreInv

-----------------------------------------------------------------------------
(* The steps of the whole store.                                             *)

\* A successful or failed transfer of r only moves r's cell or ends r's plan,
\* so it leaves the order of the writes intact.
LEMMA OrderWrite ==
  ASSUME TypeOK, OrderInv, NEW r \in Records, Turn(r), NEW c \in Cells, pc' = pc,
         \/ at' = [at EXCEPT ![r] = c] /\ plan' = plan
         \/ at' = [at EXCEPT ![r] = "Pbody"] /\ plan' = [plan EXCEPT ![r] = "none"]
  PROVE  OrderInv'
<1> USE DEF TypeOK
<1>1. plan[r] # "none" /\ pc \notin {"off", "idle"}  BY DEF Turn, OrderInv, Quiet
<1>2. \A s \in Records : plan'[s] # "none" => plan'[s] = plan[s]  OBVIOUS
<1>3. (plan["net"] # "none" => plan["data"] = "none" /\ plan["cfg"] = "none")'
  BY <1>2 DEF OrderInv
<1>4. ASSUME NEW s \in Records, NEW t \in Records, s # t,
             plan'[s] # "none", plan'[t] # "none", Before(s, t)'
      PROVE  at'[t] = "Pbody"
  <2>1. plan[s] # "none" /\ plan[t] # "none" /\ Before(s, t)  BY <1>2, <1>4 DEF Before
  <2>2. t # r  BY <2>1, <1>4 DEF Turn
  <2> QED  BY <2>1, <2>2, <1>4 DEF OrderInv
<1> QED  BY <1>1, <1>3, <1>4 DEF OrderInv

\* A record whose turn it is not has not begun its plan.
LEMMA OthersWait ==
  ASSUME TypeOK, OrderInv, NEW r \in Records, Turn(r), NEW s \in Records \ {r},
         plan[s] # "none"
  PROVE  at[s] = "Pbody"
<1>1. plan[r] # "none" /\ ~Before(s, r)  BY DEF Turn
<1>2. {r, s} = {"data", "cfg"}  BY <1>1 DEF OrderInv
<1>3. Before(r, s)  BY <1>1, <1>2 DEF Before, TypeOK
<1> QED  BY <1>1, <1>3 DEF OrderInv

\* StorageInv is inductive: the next boot finds a value it may find, whatever
\* write is going on, as long as the record met at most one fault.
THEOREM StorageInvariant == Spec => []StorageInv
<1> USE DefaultAssumption, InputAssumption
<1>1. Init => StorageInv
  <2> SUFFICES ASSUME Init PROVE StorageInv  OBVIOUS
  <2>1. OrderInv  BY DEF Init, OrderInv, Quiet
  <2>2. \A r \in Records : ~Valid(mem[r], "P") /\ ~Valid(mem[r], "B")
    BY TornAssumption DEF Init, Valid
  <2> QED  BY <2>1, <2>2, TornCrcAssumption DEF Init, StorageInv, RecordInv, RestInv, Loaded
<1>2. TypeOK /\ StorageInv /\ [Next]_vars => StorageInv'
  <2> SUFFICES ASSUME TypeOK, StorageInv, [Next]_vars PROVE StorageInv'
    OBVIOUS
  <2> USE DEF TypeOK
  <2>o. OrderInv  BY DEF StorageInv
  <2>q. ASSUME Quiet PROVE \A r \in Records : RestInv(mem[r], intent[r], faults[r])
    BY <2>q DEF StorageInv, Quiet, RecordInv
  <2>t. \A r \in Records :
           /\ mem[r] \in [Cells -> Stored] /\ at[r] \in Cells /\ ok[r] \in BOOLEAN
           /\ ram[r] \in Value /\ intent[r] \in SUBSET Value /\ faults[r] \in Nat
    OBVIOUS
  <2>r. ASSUME Quiet, NEW rs \in {{"net"}, {"data", "cfg"}},
               NEW u \in [rs -> SUBSET {"P", "B"}], NEW w \in [rs -> SUBSET {"P", "B"}],
               ReadRecords(rs, u, w), pc' \in {"net_init", "cal_init"}
        PROVE  StorageInv'
    <3>1. OrderInv'
      BY <2>r DEF ReadRecords, OrderInv, Quiet, Before
    <3>2. ASSUME NEW r \in Records
          PROVE  RecordInv(mem[r], plan[r], at[r], ok[r], ram[r], intent[r], faults[r])'
      <4>1. RestInv(mem[r], intent[r], faults[r])  BY <2>q, <2>r
      <4>2. mem'[r] = mem[r] /\ intent'[r] = intent[r] /\ at'[r] = "Pbody" /\ ok'[r] = TRUE
        BY <2>r DEF ReadRecords
      <4>3. CASE r \in rs
        <5>1. /\ ram'[r] = Loaded(Buffered(mem[r], w[r]), {"P", "B"} \ (u[r] \ w[r]))
              /\ plan'[r] = Repair(Buffered(mem[r], w[r]), {"P", "B"} \ (u[r] \ w[r]))
              /\ faults'[r] = faults[r] + ReadFaults(mem[r], u[r], w[r])
              /\ w[r] \in SUBSET u[r]
          BY <2>r, <4>3 DEF ReadRecords
        <5>2. u[r] \in SUBSET {"P", "B"}  BY <4>3
        <5>3. RecordInv(mem[r], Repair(Buffered(mem[r], w[r]), {"P", "B"} \ (u[r] \ w[r])),
                        "Pbody", TRUE,
                        Loaded(Buffered(mem[r], w[r]), {"P", "B"} \ (u[r] \ w[r])), intent[r],
                        faults[r] + ReadFaults(mem[r], u[r], w[r]))
          BY <2>t, <4>1, <5>1, <5>2, ReadStep
        <5> QED  BY <4>2, <5>1, <5>3
      <4>4. CASE r \notin rs
        <5>1. plan'[r] = "none" /\ faults'[r] = faults[r]
          BY <2>r, <4>4 DEF ReadRecords, Quiet
        <5> QED  BY <4>1, <4>2, <5>1 DEF RecordInv
      <4> QED  BY <4>3, <4>4
    <3> QED  BY <3>1, <3>2 DEF StorageInv
  <2>1. ASSUME NEW x \in SUBSET {"P", "B"}, net_config_init([r \in {"net"} |-> x])
        PROVE  StorageInv'
    <3>1. Quiet  BY <2>1, <2>o DEF net_config_init, OrderInv
    <3> QED  BY <2>1, <2>r, <3>1 DEF net_config_init
  <2>2. ASSUME NEW u \in [{"data", "cfg"} -> SUBSET {"P", "B"}],
               NEW w \in [{"data", "cfg"} -> SUBSET {"P", "B"}], relay_cal_init(u, w)
        PROVE  StorageInv'
    BY <2>2, <2>r DEF relay_cal_init
  <2>3. CASE Return
    BY <2>3 DEF Return, StorageInv, OrderInv, Quiet, Before
  <2>4. ASSUME NEW s \in Records, NEW w \in Input[s], SetRam(s, w) PROVE StorageInv'
    <3>1. Quiet  BY <2>4, <2>o DEF SetRam, OrderInv
    <3>2. \A r \in Records : RestInv(mem[r], intent[r], faults[r])'
      BY <2>4, <3>1, <2>q DEF SetRam
    <3> QED  BY <2>4, <3>1, <3>2 DEF SetRam, StorageInv, OrderInv, Quiet, Before, RecordInv
  <2>5. ASSUME NEW rs \in {{"net"}, {"data", "cfg"}}, Save(rs) PROVE StorageInv'
    <3>1. Quiet  BY <2>5, <2>o DEF Save, OrderInv
    <3>2. OrderInv'  BY <2>5 DEF Save, OrderInv, Before
    <3>3. ASSUME NEW r \in Records
          PROVE  RecordInv(mem[r], plan[r], at[r], ok[r], ram[r], intent[r], faults[r])'
      <4>1. RestInv(mem[r], intent[r], faults[r])  BY <2>q, <3>1
      <4>2. FullInv(mem[r], "Pbody", TRUE, ram[r], intent[r] \cup {ram[r]}, faults[r])
        BY <4>1, SaveStep
      <4> QED  BY <2>5, <4>1, <4>2 DEF Save, RecordInv
    <3> QED  BY <3>2, <3>3 DEF StorageInv
  <2>6. ASSUME NEW r \in Records, WriteOK(r) PROVE StorageInv'
    <3>1. Turn(r) /\ plan[r] # "none" /\ pc' = pc  BY <2>6 DEF WriteOK, Turn
    <3>2. RecordInv(mem[r], plan[r], at[r], ok[r], ram[r], intent[r], faults[r])
      BY DEF StorageInv
    <3>3. mem'[r] = [mem[r] EXCEPT ![at[r]] = Content(at[r], ram[r])]
      BY <2>6 DEF WriteOK
    <3>4. ASSUME NEW s \in Records \ {r}
          PROVE  RecordInv(mem[s], plan[s], at[s], ok[s], ram[s], intent[s], faults[s])'
      <4>1. /\ mem'[s] = mem[s] /\ plan'[s] = plan[s] /\ at'[s] = at[s] /\ ok'[s] = ok[s]
            /\ ram'[s] = ram[s] /\ intent'[s] = intent[s] /\ faults'[s] = faults[s]
        BY <2>6 DEF WriteOK, Finish
      <4> QED  BY <4>1 DEF StorageInv
    <3>5. CASE at[r] = "Bcrc" \/ (at[r] = "Pcrc" /\ plan[r] = "restore")
      <4>1. /\ plan' = [plan EXCEPT ![r] = "none"]
            /\ at' = [at EXCEPT ![r] = "Pbody"]
            /\ intent'[r] = IF plan[r] = "full" /\ ok[r] THEN {ram[r]} ELSE intent[r]
            /\ faults'[r] = IF plan[r] = "full" /\ ok[r] THEN 0 ELSE faults[r]
        BY <2>6, <3>5 DEF WriteOK, Finish
      <4>2. OrderInv'  BY <2>o, <3>1, <4>1, OrderWrite
      <4>3. CASE plan[r] = "full"
        <5>1. FullInv(mem[r], at[r], ok[r], ram[r], intent[r], faults[r]) /\ at[r] = "Bcrc"
          BY <3>2, <3>5, <4>3 DEF RecordInv
        <5>2. RestInv(mem'[r], intent'[r], faults'[r])
          <6>1. RestInv([mem[r] EXCEPT ![at[r]] = Content(at[r], ram[r])],
                        IF ok[r] THEN {ram[r]} ELSE intent[r], IF ok[r] THEN 0 ELSE faults[r])
            <7> HIDE DEF Records, Cells, TypeOK
            <7> QED  BY <2>t, <5>1, FullWrite, ZenonT(30)
          <6> QED  BY <3>3, <4>1, <4>3, <6>1
        <5> QED  BY <3>4, <4>1, <4>2, <5>2 DEF StorageInv, RecordInv
      <4>4. CASE plan[r] = "restore"
        <5>1. RestoreInv(mem[r], at[r], ram[r], intent[r], faults[r]) /\ at[r] = "Pcrc"
          BY <3>2, <3>5, <4>4 DEF RecordInv, RestoreInv
        <5>2. RestInv(mem'[r], intent'[r], faults'[r])
          BY <3>3, <4>1, <4>4, <5>1, <2>t, RestoreWrite
        <5> QED  BY <3>4, <4>1, <4>2, <5>2 DEF StorageInv, RecordInv
      <4> QED  BY <3>1, <4>3, <4>4
    <3>6. CASE ~(at[r] = "Bcrc" \/ (at[r] = "Pcrc" /\ plan[r] = "restore"))
      <4>1. PICK c \in Cells : /\ at' = [at EXCEPT ![r] = c]
                               /\ UNCHANGED <<plan, intent, faults>>
                               /\ at[r] = "Pbody" => c = "Pcrc"
                               /\ at[r] = "Pcrc" => c = "Bbody"
                               /\ at[r] = "Bbody" => c = "Bcrc"
        BY <2>6, <3>6 DEF WriteOK
      <4>2. OrderInv'  BY <2>o, <3>1, <4>1, OrderWrite
      <4>3. at'[r] = c /\ ok' = ok /\ ram' = ram  BY <2>6, <4>1 DEF WriteOK
      <4>4. CASE plan[r] = "full"
        <5>1. FullInv(mem[r], at[r], ok[r], ram[r], intent[r], faults[r])
          BY <3>2, <4>4 DEF RecordInv
        <5>2. FullInv(mem'[r], c, ok[r], ram[r], intent[r], faults[r])
          BY <3>3, <3>6, <4>1, <5>1, <2>t, FullWrite
        <5> QED  BY <3>4, <4>1, <4>2, <4>3, <4>4, <5>2 DEF StorageInv, RecordInv
      <4>5. CASE plan[r] = "restore"
        <5>1. RestoreInv(mem[r], at[r], ram[r], intent[r], faults[r]) /\ at[r] = "Pbody"
          BY <3>2, <3>6, <4>5 DEF RecordInv, RestoreInv
        <5>2. RestoreInv(mem'[r], c, ram[r], intent[r], faults[r])
          BY <3>3, <4>1, <5>1, <2>t, RestoreWrite
        <5> QED  BY <3>4, <4>1, <4>2, <4>3, <4>5, <5>2 DEF StorageInv, RecordInv
      <4> QED  BY <3>1, <4>4, <4>5
    <3> QED  BY <3>5, <3>6
  <2>7. ASSUME NEW r \in Records, WriteError(r) PROVE StorageInv'
    <3>1. /\ Turn(r) /\ plan[r] \in {"restore", "full"} /\ pc' = pc /\ ram' = ram
          /\ faults'[r] = faults[r] + 1 /\ ok'[r] = FALSE
      BY <2>7 DEF WriteError, Turn
    <3>2. RecordInv(mem[r], plan[r], at[r], ok[r], ram[r], intent[r], faults[r])
      BY DEF StorageInv
    <3>3. PICK x \in Partial(mem[r][at[r]], Content(at[r], ram[r])) :
             mem'[r] = [mem[r] EXCEPT ![at[r]] = x]
      BY <2>7 DEF WriteError
    <3>4. ASSUME NEW s \in Records \ {r}
          PROVE  RecordInv(mem[s], plan[s], at[s], ok[s], ram[s], intent[s], faults[s])'
      <4>1. /\ mem'[s] = mem[s] /\ plan'[s] = plan[s] /\ at'[s] = at[s] /\ ok'[s] = ok[s]
            /\ ram'[s] = ram[s] /\ intent'[s] = intent[s] /\ faults'[s] = faults[s]
        BY <2>7 DEF WriteError, Finish
      <4> QED  BY <4>1 DEF StorageInv
    <3>5. CASE at[r] \in {"Bbody", "Bcrc"} \/ plan[r] = "restore"
      <4>1. /\ plan' = [plan EXCEPT ![r] = "none"] /\ at' = [at EXCEPT ![r] = "Pbody"]
            /\ intent'[r] = intent[r]
        BY <2>7, <3>5 DEF WriteError, Finish
      <4>2. OrderInv'  BY <2>o, <3>1, <4>1, OrderWrite
      <4>3. RestInv(mem'[r], intent'[r], faults'[r])
        <5>1. RestInv([mem[r] EXCEPT ![at[r]] = x], intent[r], faults[r] + 1)
          <6> HIDE DEF Records, Cells, TypeOK
          <6>1. /\ mem[r] \in [Cells -> Stored] /\ at[r] \in Cells /\ ok[r] \in BOOLEAN
                /\ ram[r] \in Value /\ intent[r] \in SUBSET Value /\ faults[r] \in Nat
            BY <2>t
          <6>2. CASE plan[r] = "full"
            <7>1. FullInv(mem[r], at[r], ok[r], ram[r], intent[r], faults[r])
              BY <6>2, <3>2 DEF RecordInv
            <7> QED  BY <6>1, <7>1, InterruptedFull, ZenonT(30)
          <6>3. CASE plan[r] = "restore"
            <7>1. RestoreInv(mem[r], at[r], ram[r], intent[r], faults[r])
              BY <6>3, <3>2 DEF RecordInv
            <7> QED  BY <6>1, <7>1, InterruptedRestore
          <6> QED  BY <3>1, <6>2, <6>3
        <5> QED  BY <3>1, <3>3, <4>1, <5>1
      <4> QED  BY <3>4, <4>1, <4>2, <4>3 DEF StorageInv, RecordInv
    <3>6. CASE ~(at[r] \in {"Bbody", "Bcrc"} \/ plan[r] = "restore")
      <4>1. at' = [at EXCEPT ![r] = "Bbody"] /\ UNCHANGED <<plan, intent>>
        BY <2>7, <3>6 DEF WriteError
      <4>2. OrderInv'  BY <2>o, <3>1, <4>1, OrderWrite
      <4>3. plan[r] = "full" /\ at[r] \in {"Pbody", "Pcrc"}  BY <3>1, <3>6
      <4>4. FullInv(mem[r], at[r], ok[r], ram[r], intent[r], faults[r])
        BY <3>2, <4>3 DEF RecordInv
      <4>5. FullInv(mem'[r], "Bbody", FALSE, ram[r], intent[r], faults[r] + 1)
        <5>1. FullInv([mem[r] EXCEPT ![at[r]] = x], "Bbody", FALSE, ram[r], intent[r], faults[r] + 1)
          <6> DEFINE m == mem[r]  c == at[r]  v == ram[r]  i == intent[r]  f == faults[r]
          <6>1. /\ m \in [Cells -> Stored] /\ c \in {"Pbody", "Pcrc"} /\ ok[r] \in BOOLEAN
                /\ v \in Value /\ i \in SUBSET Value /\ f \in Nat
            BY <2>t, <4>3
          <6>2. FullInv(m, c, ok[r], v, i, f) /\ x \in Partial(m[c], Content(c, v))
            BY <3>3, <4>4
          <6> HIDE DEF m, c, v, i, f
          <6>3. FullInv([m EXCEPT ![c] = x], "Bbody", FALSE, v, i, f + 1)
            BY ONLY <6>1, <6>2, FailedPrimary
          <6> QED  BY ONLY <6>3 DEF m, c, v, i, f
        <5> QED  BY <3>3, <5>1
      <4> QED  BY <3>1, <3>4, <4>1, <4>2, <4>3, <4>5 DEF StorageInv, RecordInv
    <3> QED  BY <3>5, <3>6
  <2>8. CASE PowerCut
    <3>1. OrderInv'  BY <2>8 DEF PowerCut, OrderInv, Quiet
    <3>2. SUFFICES \A s \in Records : RestInv(mem[s], intent[s], faults[s])'
      BY <2>8, <3>1 DEF PowerCut, StorageInv, RecordInv
    <3>3. CASE Quiet /\ UNCHANGED <<mem, faults>>
      BY <2>8, <3>3, <2>q DEF PowerCut
    <3>4. CASE ~(Quiet /\ UNCHANGED <<mem, faults>>)
      <4>1. PICK r \in Records :
               /\ Turn(r)
               /\ \E left \in Partial(mem[r][at[r]], Content(at[r], ram[r])) :
                     mem' = [mem EXCEPT ![r][at[r]] = left]
               /\ faults' = [faults EXCEPT ![r] = @ + 1]
        BY <2>8, <3>4 DEF PowerCut
      <4>2. PICK x \in Partial(mem[r][at[r]], Content(at[r], ram[r])) :
               mem' = [mem EXCEPT ![r][at[r]] = x]
        BY <4>1
      <4>3. RestInv(mem[r], intent[r], faults[r])'
        <5>1. plan[r] \in {"restore", "full"}  BY <4>1 DEF Turn
        <5>2. RecordInv(mem[r], plan[r], at[r], ok[r], ram[r], intent[r], faults[r])
          BY DEF StorageInv
        <5>3. /\ mem'[r] = [mem[r] EXCEPT ![at[r]] = x]
              /\ faults'[r] = faults[r] + 1
              /\ intent'[r] = intent[r]
          BY <2>8, <4>1, <4>2 DEF PowerCut
        <5>4. RestInv([mem[r] EXCEPT ![at[r]] = x], intent[r], faults[r] + 1)
          <6> HIDE DEF Records, Cells, TypeOK
          <6>1. /\ mem[r] \in [Cells -> Stored] /\ at[r] \in Cells /\ ok[r] \in BOOLEAN
                /\ ram[r] \in Value /\ intent[r] \in SUBSET Value /\ faults[r] \in Nat
            BY <2>t
          <6>2. CASE plan[r] = "full"
            <7>1. FullInv(mem[r], at[r], ok[r], ram[r], intent[r], faults[r])
              BY <6>2, <5>2 DEF RecordInv
            <7> QED  BY <4>2, <6>1, <7>1, InterruptedFull, ZenonT(30)
          <6>3. CASE plan[r] = "restore"
            <7>1. RestoreInv(mem[r], at[r], ram[r], intent[r], faults[r])
              BY <6>3, <5>2 DEF RecordInv
            <7> QED  BY <6>1, <7>1, InterruptedRestore
          <6> QED  BY <5>1, <6>2, <6>3
        <5> QED  BY <5>3, <5>4
      <4>4. ASSUME NEW s \in Records \ {r} PROVE RestInv(mem[s], intent[s], faults[s])'
        <5>1. RecordInv(mem[s], plan[s], at[s], ok[s], ram[s], intent[s], faults[s])
          BY DEF StorageInv
        <5>2. plan[s] # "none" => at[s] = "Pbody"  BY <2>o, <4>1, OthersWait
        <5>3. RestInv(mem[s], intent[s], faults[s])  BY <5>1, <5>2, NotBegun DEF RecordInv
        <5>4. mem'[s] = mem[s] /\ faults'[s] = faults[s] /\ intent'[s] = intent[s]
          BY <2>8, <4>1, <4>2 DEF PowerCut
        <5> QED  BY <5>3, <5>4
      <4> QED  BY <4>3, <4>4
    <3> QED  BY <3>3, <3>4
  <2>9. CASE UNCHANGED vars
    BY <2>9 DEF vars, StorageInv, OrderInv, Quiet, Before
  <2> QED
    BY <2>1, <2>2, <2>3, <2>4, <2>5, <2>6, <2>7, <2>8, <2>9
    DEF Next, relay_cal_save, net_config_save
<1> QED  BY <1>1, <1>2, TypeCorrect, PTL DEF Spec

\* The redundancy of the FRAM survives one fault, wherever it strikes.
THEOREM OneFault == Spec => []OneFaultSafe
<1>1. StorageInv => OneFaultSafe
  BY DEF StorageInv, OneFaultSafe, RecordInv, RestInv, AtBoot
<1> QED  BY <1>1, StorageInvariant, PTL

\* A save that answers 1 has left two good copies of what was in RAM.
THEOREM Acknowledged == Spec => AcknowledgedIsMirrored
<1> DEFINE Mirrored(r) == /\ Valid(mem'[r], "P") /\ mem'[r]["Pbody"] = ram[r]
                          /\ Valid(mem'[r], "B") /\ mem'[r]["Bbody"] = ram[r]
           Ends(r) == plan[r] = "full" /\ plan'[r] = "none" /\ ok'[r] /\ pc' # "off"
<1>1. TypeOK /\ StorageInv /\ [Next]_vars => \A r \in Records : Ends(r) => Mirrored(r)
  <2> SUFFICES ASSUME TypeOK, StorageInv, [Next]_vars, NEW r \in Records, Ends(r)
               PROVE  Mirrored(r)
    OBVIOUS
  <2> USE DEF TypeOK
  <2>1. pc \notin {"off", "idle"} /\ ~Quiet  BY DEF StorageInv, OrderInv, Quiet
  <2>2. \E s \in Records : WriteOK(s) \/ WriteError(s)
    BY <2>1 DEF Next, vars, net_config_init, relay_cal_init, Return, SetRam, relay_cal_save,
                net_config_save, Save, PowerCut
  <2>3. \A s \in Records : WriteOK(s) \/ WriteError(s) => s = r
    BY DEF WriteOK, WriteError, Finish
  <2>4. WriteOK(r)  BY <2>2, <2>3 DEF WriteError
  <2>5. at[r] = "Bcrc" /\ ok[r]  BY <2>4 DEF WriteOK
  <2>6. mem'[r] = [mem[r] EXCEPT !["Bcrc"] = Content("Bcrc", ram[r])]
    BY <2>4, <2>5 DEF WriteOK
  <2>7. FullInv(mem[r], at[r], ok[r], ram[r], intent[r], faults[r])
    BY DEF StorageInv, RecordInv
  <2>8. Valid(mem[r], "P") /\ mem[r]["Pbody"] = ram[r] /\ mem[r]["Bbody"] = ram[r]
    BY <2>5, <2>7 DEF FullInv, Holds
  <2> QED  BY <2>6, <2>8 DEF Valid, Content, Bodies
<1> QED  BY <1>1, TypeCorrect, StorageInvariant, PTL DEF AcknowledgedIsMirrored, Spec

-----------------------------------------------------------------------------
(* The abstract store.                                                       *)

\* What a boot or CALibration:LOAD takes into RAM is a value it may find, also
\* when one of its reads fails or meets an old buffer, unless a second fault has
\* struck.
LEMMA LoadedFindable ==
  ASSUME NEW m \in [Cells -> Stored], NEW i \in SUBSET Value, NEW f \in Nat,
         NEW u \in SUBSET {"P", "B"}, NEW s \in SUBSET u, RestInv(m, i, f),
         f + ReadFaults(m, u, s) <= 1
  PROVE  Loaded(Buffered(m, s), {"P", "B"} \ (u \ s)) \in i
<1> DEFINE n == Buffered(m, s)
           readable == {"P", "B"} \ (u \ s)
           v == Loaded(n, readable)
<1>0. ReadFaults(m, u, s) \in Nat  BY DEF ReadFaults
<1>1. RecordInv(m, Repair(n, readable), "Pbody", TRUE, v, i, f + ReadFaults(m, u, s))
  BY ReadStep
<1>2. CASE Repair(n, readable) = "none"
  <2>1. "P" \in readable /\ Valid(n, "P") /\ v = n["Pbody"]
    BY <1>2 DEF Repair, Loaded
  <2>2. f <= 1 /\ (Valid(m, "P") => m["Pbody"] \in i)
    BY <1>0 DEF RestInv, Loaded
  <2>3. CASE "P" \notin u
    BY <2>1, <2>2, <2>3, BufferedCopy
  <2>4. CASE "P" \in u
    <3>1. "P" \in s  BY <2>1, <2>4
    <3>2. f = 0  BY <1>0, <2>4 DEF ReadFaults
    <3>3. m["Pcrc"] \in CRCs  BY <2>1 DEF Buffered, Valid, CRCs
    <3>4. Valid(m, "P")  BY <3>2, <3>3 DEF RestInv
    <3>5. n["Pbody"] = m["Pcrc"][2]  BY <3>1, <3>3 DEF Buffered
    <3>6. m["Pcrc"][2] = m["Pbody"]  BY <3>4 DEF Valid, CRC
    <3> QED  BY <2>1, <2>2, <3>4, <3>5, <3>6
  <2> QED  BY <2>3, <2>4
<1>3. CASE Repair(n, readable) = "restore"
  BY <1>1, <1>3 DEF RecordInv, RestoreInv
<1>4. CASE Repair(n, readable) = "full"
  BY <1>1, <1>4 DEF RecordInv, FullInv
<1> QED  BY <1>2, <1>3, <1>4 DEF Repair

\* The map that NvStore calls spoilt, after a step that changes one record's count.
LEMMA SpoiltExcept ==
  ASSUME NEW f \in [Records -> Nat], NEW g \in [Records -> Nat], NEW r \in Records,
         NEW b \in BOOLEAN, \A s \in Records \ {r} : g[s] = f[s], (g[r] > 1) = b
  PROVE  [s \in Records |-> g[s] > 1] = [[s \in Records |-> f[s] > 1] EXCEPT ![r] = b]
<1> DEFINE old == [s \in Records |-> f[s] > 1]
           new == [s \in Records |-> g[s] > 1]
<1>1. ASSUME NEW s \in Records PROVE new[s] = [old EXCEPT ![r] = b][s]
  <2>1. CASE s = r
    <3>1. new[s] = (g[r] > 1)  BY <2>1
    <3>2. (g[r] > 1) = b  OBVIOUS
    <3>3. [old EXCEPT ![r] = b][s] = b  BY <2>1, Zenon
    <3> QED  BY <3>1, <3>2, <3>3, Zenon
  <2>2. CASE s # r
    <3>1. new[s] = (g[s] > 1)  BY Zenon
    <3>2. [old EXCEPT ![r] = b][s] = old[s]  BY <2>2, Zenon
    <3>3. old[s] = (f[s] > 1)  BY Zenon
    <3>4. g[s] = f[s]  BY <2>2
    <3> QED  BY <3>1, <3>2, <3>3, <3>4, Zenon
  <2> QED  BY <2>1, <2>2
<1> HIDE DEF new, old
<1>2. /\ new = [s \in Records |-> new[s]]
      /\ [old EXCEPT ![r] = b] = [s \in Records |-> [old EXCEPT ![r] = b][s]]
  BY Zenon DEF new, old
<1>3. new = [old EXCEPT ![r] = b]  BY <1>1, <1>2, Zenon
<1> QED  BY <1>3, Zenon DEF new, old

\* One more fault of a record spoils it or changes nothing that NvStore speaks of.
LEMMA FaultSpoils ==
  ASSUME TypeOK, NEW r \in Records, faults' = [faults EXCEPT ![r] = @ + 1], intent' = intent
  PROVE  Store!Spoils
<1> USE DEF TypeOK
<1> DEFINE bad == [s \in Records |-> faults[s] > 1]
<1>1. \A s \in Records \ {r} : faults'[s] = faults[s]  OBVIOUS
<1>2. faults'[r] = faults[r] + 1  OBVIOUS
<1>3. CASE faults[r] = 1
  <2>1. bad' = [bad EXCEPT ![r] = TRUE]
    <3>1. faults \in [Records -> Nat] /\ faults' \in [Records -> Nat]  OBVIOUS
    <3>2. (faults'[r] > 1) = TRUE  BY <1>2, <1>3
    <3> QED  BY <1>1, <3>1, <3>2, SpoiltExcept
  <2> QED  BY <2>1 DEF Store!Spoils
<1>4. CASE faults[r] # 1
  <2>1. faults'[r] > 1 <=> faults[r] > 1  BY <1>2, <1>4
  <2>2. bad' = bad  BY <1>1, <2>1
  <2> QED  BY <2>2 DEF Store!Spoils
<1> QED  BY <1>3, <1>4

\* Every step of the backends is a step of NvStore or changes nothing it speaks of.
LEMMA StoreStep ==
  TypeOK /\ StorageInv /\ [Next]_vars => [Store!Next]_(Store!svars)
<1> SUFFICES ASSUME TypeOK, StorageInv, [Next]_vars
             PROVE  \/ Store!Next
                    \/ UNCHANGED <<pc # "off", ram, commanded, intent,
                                   [r \in Records |-> faults[r] > 1]>>
  BY Zenon DEF Store!svars
<1> USE DEF TypeOK
<1>q. ASSUME Quiet PROVE \A r \in Records : RestInv(mem[r], intent[r], faults[r])
  BY <1>q DEF StorageInv, Quiet, RecordInv
<1>r. ASSUME Quiet, NEW rs \in {{"net"}, {"data", "cfg"}},
             NEW u \in [rs -> SUBSET {"P", "B"}], NEW w \in [rs -> SUBSET {"P", "B"}],
             ReadRecords(rs, u, w), pc' # "off"
      PROVE  Store!Next
  <2>1. ASSUME NEW r \in rs
        PROVE  /\ faults'[r] \in Nat /\ faults[r] <= faults'[r]
               /\ faults'[r] <= 1 => ram'[r] \in intent[r]
    <3>1. /\ ram'[r] = Loaded(Buffered(mem[r], w[r]), {"P", "B"} \ (u[r] \ w[r]))
          /\ faults'[r] = faults[r] + ReadFaults(mem[r], u[r], w[r])
          /\ w[r] \in SUBSET u[r] /\ u[r] \in SUBSET {"P", "B"}
      BY <1>r DEF ReadRecords
    <3>2. ReadFaults(mem[r], u[r], w[r]) \in Nat  BY DEF ReadFaults
    <3>3. RestInv(mem[r], intent[r], faults[r])  BY <1>q, <1>r
    <3>4. /\ mem[r] \in [Cells -> Stored] /\ intent[r] \in SUBSET Value /\ faults[r] \in Nat
      OBVIOUS
    <3>5. faults'[r] <= 1 => ram'[r] \in intent[r]
      BY <3>1, <3>3, <3>4, LoadedFindable
    <3> QED  BY <3>1, <3>2, <3>5
  <2>2. \A r \in Records \ rs : ram'[r] = ram[r] /\ faults'[r] = faults[r]
    BY <1>r DEF ReadRecords
  <2>3. intent' = intent /\ rs \in SUBSET Records  BY <1>r DEF ReadRecords
  <2>4. \A r \in rs : /\ ram'[r] \in intent[r] \/ faults'[r] > 1
                      /\ faults[r] > 1 => faults'[r] > 1
    BY <2>1, <2>3
  <2>5. \A r \in Records \ rs : (faults'[r] > 1) = (faults[r] > 1)  BY <2>2
  <2>6. Store!Load(rs)
    <3> HIDE DEF TypeOK
    <3>1. \A r \in Records : r \in rs => ram'[r] \in intent[r] \/ faults'[r] > 1
      BY <2>4
    <3>2. \A r \in Records : r \in rs => (faults[r] > 1 => faults'[r] > 1)
      BY <2>4
    <3>3. \A r \in Records : r \notin rs =>
             ram'[r] = ram[r] /\ (faults'[r] > 1) = (faults[r] > 1)
      BY <2>2, <2>5, Zenon
    <3>4. intent' = intent /\ \A r \in rs : r \in Records  BY <2>3
    <3>5. commanded' = FALSE  BY <1>r DEF ReadRecords
    <3>6. (pc' # "off") = TRUE  BY <1>r
    <3> QED  BY <3>1, <3>2, <3>3, <3>4, <3>5, <3>6, Zenon DEF Store!Load
  <2> QED  BY <2>3, <2>6 DEF Store!Next
<1>1. ASSUME NEW x \in SUBSET {"P", "B"}, net_config_init([r \in {"net"} |-> x])
      PROVE  Store!Next
  <2>1. Quiet  BY <1>1 DEF net_config_init, StorageInv, OrderInv
  <2> QED  BY <1>1, <1>r, <2>1 DEF net_config_init
<1>2. ASSUME NEW u \in [{"data", "cfg"} -> SUBSET {"P", "B"}],
             NEW w \in [{"data", "cfg"} -> SUBSET {"P", "B"}], relay_cal_init(u, w)
      PROVE  Store!Next
  BY <1>2, <1>r DEF relay_cal_init
<1>3. CASE Return  BY <1>3 DEF Return
<1>4. ASSUME NEW r \in Records, NEW v \in Input[r], SetRam(r, v) PROVE Store!Next
  <2>1. v \in Value  BY InputAssumption
  <2>2. Store!Set(r)  BY <1>4, <2>1 DEF SetRam, Store!Set
  <2> QED  BY <2>2 DEF Store!Next
<1>5. ASSUME NEW rs \in {{"net"}, {"data", "cfg"}}, Save(rs) PROVE Store!Next
  <2>1. rs \in SUBSET Records /\ Store!Begin(rs)  BY <1>5 DEF Save, Store!Begin
  <2> QED  BY <2>1 DEF Store!Next
<1>6. ASSUME NEW r \in Records, WriteOK(r)
      PROVE  Store!Next \/ UNCHANGED <<pc, ram, commanded, intent, faults>>
  <2>p. pc # "off" /\ pc' = pc  BY <1>6 DEF WriteOK, Turn, StorageInv, OrderInv, Quiet
  <2>1. CASE at[r] = "Bcrc" /\ plan[r] = "full" /\ ok[r]
    <3>1. /\ intent' = [intent EXCEPT ![r] = {ram[r]}] /\ ram' = ram
          /\ faults' = [faults EXCEPT ![r] = 0]
          /\ commanded' = commanded
      BY <1>6, <2>1 DEF WriteOK, Finish
    <3>2. FullInv(mem[r], at[r], ok[r], ram[r], intent[r], faults[r])
      BY <2>1 DEF StorageInv, RecordInv
    <3>3. ram[r] \in intent[r] \/ faults[r] > 1  BY <3>2 DEF FullInv
    <3>4. Store!Commit(r)
      <4> DEFINE bad == [s \in Records |-> faults[s] > 1]
      <4>1. /\ faults \in [Records -> Nat] /\ faults' \in [Records -> Nat]
            /\ \A s \in Records \ {r} : faults'[s] = faults[s]
            /\ (faults'[r] > 1) = FALSE
        BY <3>1
      <4>2. bad' = [bad EXCEPT ![r] = FALSE]  BY <4>1, SpoiltExcept
      <4>3. bad[r] = (faults[r] > 1)  BY Zenon
      <4>4. (pc # "off") = TRUE /\ (pc' # "off") = TRUE  BY <2>p
      <4> QED  BY <3>1, <3>3, <4>2, <4>3, <4>4, Zenon DEF Store!Commit
    <3> QED  BY <3>4 DEF Store!Next
  <2>2. CASE ~(at[r] = "Bcrc" /\ plan[r] = "full" /\ ok[r])
    <3>1. CASE at[r] = "Bcrc" \/ (at[r] = "Pcrc" /\ plan[r] = "restore")
      <4>1. plan[r] = "full" => at[r] = "Bcrc"  BY <3>1
      <4> QED  BY <1>6, <2>2, <2>p, <3>1, <4>1 DEF WriteOK, Finish
    <3>2. CASE ~(at[r] = "Bcrc" \/ (at[r] = "Pcrc" /\ plan[r] = "restore"))
      BY <1>6, <2>p, <3>2 DEF WriteOK
    <3> QED  BY <3>1, <3>2
  <2> QED  BY <2>1, <2>2
<1>7. ASSUME NEW r \in Records, WriteError(r) PROVE Store!Next
  <2>1. faults' = [faults EXCEPT ![r] = @ + 1] /\ intent' = intent /\ ram' = ram
    BY <1>7 DEF WriteError, Finish
  <2>2. commanded' = commanded  BY <1>7 DEF WriteError
  <2>3. pc # "off" /\ pc' = pc  BY <1>7 DEF WriteError, Turn, StorageInv, OrderInv, Quiet
  <2>4. Store!Fail  BY <2>1, <2>2, <2>3, FaultSpoils DEF Store!Fail
  <2> QED  BY <2>4 DEF Store!Next
<1>8. CASE PowerCut
  <2>1. /\ ram' = [r \in Records |-> Default] /\ intent' = intent
        /\ commanded' = FALSE /\ pc # "off" /\ pc' = "off"
    BY <1>8 DEF PowerCut
  <2>2. \/ faults' = faults
        \/ \E r \in Records : faults' = [faults EXCEPT ![r] = @ + 1]
    BY <1>8 DEF PowerCut
  <2>3. Store!Spoils
    <3>1. CASE faults' = faults  BY <2>1, <3>1 DEF Store!Spoils
    <3>2. CASE \E r \in Records : faults' = [faults EXCEPT ![r] = @ + 1]
      BY <2>1, <3>2, FaultSpoils
    <3> QED  BY <2>2, <3>1, <3>2
  <2>4. Store!PowerCut  BY <2>1, <2>3 DEF Store!PowerCut
  <2> QED  BY <2>4 DEF Store!Next
<1>9. CASE UNCHANGED vars  BY <1>9 DEF vars
<1> QED
  BY <1>1, <1>2, <1>3, <1>4, <1>5, <1>6, <1>7, <1>8, <1>9
  DEF Next, relay_cal_save, net_config_save

\* The FRAM backends implement NvStore, a record being spoilt only by a second
\* fault since its last acknowledged save.
THEOREM Refinement == Spec => ImplementsStore
<1>1. Init => Store!Init
  <2> SUFFICES ASSUME Init PROVE Store!Init  OBVIOUS
  <2>1. [r \in Records |-> faults[r] > 1] = [r \in Records |-> FALSE]
    <3>1. \A r \in Records : (faults[r] > 1) = FALSE  BY DEF Init
    <3> QED  BY <3>1, Zenon
  <2>2. intent = [r \in Records |-> {[s \in Records |-> Default][r]}]  BY DEF Init
  <2>3. (pc # "off") = FALSE  BY DEF Init
  <2> QED  BY <2>1, <2>2, <2>3, Zenon DEF Init, Store!Init
<1> QED
  BY <1>1, StoreStep, TypeCorrect, StorageInvariant, PTL DEF Spec, ImplementsStore, Store!Spec
=============================================================================
