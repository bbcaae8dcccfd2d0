--------------------------- MODULE SubagentProofs ---------------------------
(***************************************************************************)
(* Proofs about Subagent and SubagentHistory, whatever scalars, columns,   *)
(* rows, values, PDUs and storage faults they are instantiated with.       *)
(* First the subagent itself: no illegal value is ever stored, what ships  *)
(* is always answered, and startup and power loss keep the configuration.  *)
(* Then what clients may rely on: a rollback without storage errors is     *)
(* exact, an acknowledged value stays stored, and an excursion sends one   *)
(* trap.                                                                   *)
(***************************************************************************)
EXTENDS SubagentHistory, WellFoundedInduction, TLAPS

(* What bootstrap writes is a legal value, and the allowlist of the IPC    *)
(* server accepts nothing RESERVE1 refuses.                                *)
LEMMA MibConsistent ==
  /\ \A o \in Objects : DefVal(o) \in Legal(o) /\ Legal(o) \subseteq Int
  /\ \A o \in Scalars : IpcRange(o) \subseteq Legal(o)
<1>1. ASSUME NEW o \in Objects
      PROVE  DefVal(o) \in Legal(o) /\ Legal(o) \subseteq Int
  <2>1. o[1] \in {"deviceName", "tempThresholdMilliC", "adminStatusExt",
                  "sampleIntervalSec", "portDescr", "portAdminStatus",
                  "portAlarmThresholdMilliC"}
    BY <1>1, MibAssumption DEF Objects, Scalars, Cells
  <2>2. CASE o[1] = "deviceName"
    BY <2>2 DEF DefVal, Legal, Handler, handle_deviceName
  <2>3. CASE o[1] = "tempThresholdMilliC"
    BY <2>3 DEF DefVal, Legal, Handler, handle_tempThresholdMilliC
  <2>4. CASE o[1] = "adminStatusExt"
    BY <2>4 DEF DefVal, Legal, Handler, handle_adminStatusExt
  <2>5. CASE o[1] = "sampleIntervalSec"
    BY <2>5 DEF DefVal, Legal, Handler, handle_sampleIntervalSec
  <2>6. CASE o[1] = "portDescr"
    BY <2>6 DEF DefVal, Legal, Handler, portDescr
  <2>7. CASE o[1] = "portAdminStatus"
    BY <2>7 DEF DefVal, Legal, Handler, portAdminStatus
  <2>8. CASE o[1] = "portAlarmThresholdMilliC"
    BY <2>8 DEF DefVal, Legal, Handler, portAlarmThresholdMilliC
  <2> QED BY <2>1, <2>2, <2>3, <2>4, <2>5, <2>6, <2>7, <2>8
<1>2. ASSUME NEW o \in Scalars, NEW v \in IpcRange(o)
      PROVE  v \in Legal(o)
  <2>1. o[1] \in {"deviceName", "tempThresholdMilliC", "adminStatusExt",
                  "sampleIntervalSec"}
    BY <1>2, MibAssumption DEF Scalars
  <2>2. CASE o[1] = "deviceName"
    BY <1>2, <2>2 DEF IpcRange, g_config_objects, Legal, Handler, handle_deviceName
  <2>3. CASE o[1] = "tempThresholdMilliC"
    BY <1>2, <2>3 DEF IpcRange, g_config_objects, Legal, Handler, handle_tempThresholdMilliC
  <2>4. CASE o[1] = "adminStatusExt"
    BY <1>2, <2>4 DEF IpcRange, g_config_objects, Legal, Handler, handle_adminStatusExt
  <2>5. CASE o[1] = "sampleIntervalSec"
    BY <1>2, <2>5 DEF IpcRange, g_config_objects, Legal, Handler, handle_sampleIntervalSec
  <2> QED BY <2>1, <2>2, <2>3, <2>4, <2>5
<1> QED BY <1>1, <1>2

(* A PDU is a function over an initial segment of the numbers up to the    *)
(* bound, with varbinds as values.                                         *)
LEMMA PduShape ==
  ASSUME NEW p \in Pdus \cup {NoPdu}
  PROVE  /\ DOMAIN p \subseteq 1..MaxVarbinds
         /\ \A i \in DOMAIN p : /\ p[i] \in Varbind
                                /\ p[i].obj \in Managed /\ p[i].obj \in Objects
                                /\ p[i].val \in Values /\ p[i].val \in Int
<1>1. CASE p = NoPdu
  BY <1>1 DEF NoPdu
<1>2. CASE p \in Pdus
  <2>1. PICK n \in 1..MaxVarbinds : p \in [1..n -> Varbind]
    BY <1>2 DEF Pdus
  <2>2. n \in Nat /\ n <= MaxVarbinds /\ DOMAIN p = 1..n
    BY <2>1, SubagentAssumption
  <2>3. DOMAIN p \subseteq 1..MaxVarbinds
    BY <2>2, SubagentAssumption
  <2>4. \A i \in DOMAIN p : p[i] \in Varbind
    BY <2>1
  <2> QED BY <2>3, <2>4, SubagentAssumption DEF Varbind
<1> QED BY <1>1, <1>2

-----------------------------------------------------------------------------
(* The inductive invariant.  StoredLegal and ShippedAnswered need to know  *)
(* what a SET in progress will write: the accepted values and the stash.   *)
Seeded ==
  /\ proc \in {"configOpen", "serving"} =>
       \A o \in Shipped : Persistent(o) => store[o] # NoValue
  /\ proc = "serving" => \A o \in Shipped : store[o] # NoValue

SetInv ==
  /\ phase # "none" => proc = "serving"
  /\ phase = "none" => stash = NoPdu
  /\ phase \notin {"none", "rejected"} =>
       \A i \in DOMAIN pdu : pdu[i].val \in Legal(pdu[i].obj)
  /\ \A i \in DOMAIN stash :
       IF stash[i] = NoValue THEN pdu[i].obj \notin Shipped
                             ELSE stash[i] \in Legal(pdu[i].obj)

SafeInv == TypeOK /\ StoredLegal /\ Seeded /\ SetInv

(* The device as it is switched on satisfies the invariant. *)
LEMMA InitSafe == Init => SafeInv
<1> SUFFICES ASSUME Init PROVE SafeInv
  OBVIOUS
<1>1. \A o \in Objects : store[o] = NoValue \/ (store[o] \in Int /\ store[o] \in Legal(o))
  BY MibConsistent DEF Init, Left
<1>2. TypeOK
  <2>1. store \in [Objects -> Stored]
    BY <1>1 DEF Init, Stored
  <2>2. trap \in [cpu : Stored, threshold : Stored]
    BY DEF Init, NoTrap, Stored
  <2>3. DOMAIN stash = {}
    BY DEF Init, NoPdu
  <2>4. pdu \in Pdus \cup {NoPdu} /\ cursor \in 1..(MaxVarbinds + 1)
    BY SubagentAssumption DEF Init
  <2> QED BY <2>1, <2>2, <2>3, <2>4 DEF Init, TypeOK, Stored, Phases
<1>3. StoredLegal
  BY <1>1 DEF StoredLegal
<1>4. Seeded /\ SetInv
  BY DEF Init, Seeded, SetInv, NoPdu
<1> QED BY <1>2, <1>3, <1>4 DEF SafeInv

-----------------------------------------------------------------------------
(* Facts about the operators the actions are made of. *)

(* Whatever demo_check_temp_alarm decides, the alarm stays well typed. *)
LEMMA CheckTyped ==
  ASSUME TypeOK, NEW thr, demo_check_temp_alarm(thr)
  PROVE  /\ alarm' \in {"clear", "alarm"} /\ sending' \in BOOLEAN
         /\ trap' \in [cpu : Stored, threshold : Stored]
BY DEF TypeOK, demo_check_temp_alarm, Raises, Clears, alarmVars

(* A demoTempAlarm carries what the two environments hold, or is not sent. *)
LEMMA SendTyped ==
  ASSUME TypeOK, demo_send_temp_alarm
  PROVE  trap' \in [cpu : Stored, threshold : Stored]
<1>1. Threshold \in Objects
  BY MibAssumption DEF Threshold, Objects, Scalars
<1> QED BY <1>1 DEF TypeOK, demo_send_temp_alarm, SendTrap, SkipTrap

(* The bookkeeping of a SET that has ended. *)
LEMMA EndSetClean ==
  ASSUME EndSet
  PROVE  /\ phase' = "none" /\ phase' \in Phases
         /\ pdu' \in Pdus \cup {NoPdu}
         /\ stash' = NoPdu /\ DOMAIN stash' = {}
         /\ cursor' \in 1..(MaxVarbinds + 1) /\ failed' \in BOOLEAN
<1>1. DOMAIN NoPdu = {}
  BY DEF NoPdu
<1>2. 1 \in 1..(MaxVarbinds + 1)
  BY SubagentAssumption
<1>3. pdu' = NoPdu /\ stash' = NoPdu /\ phase' = "none" /\ cursor' = 1 /\ failed' = FALSE
  BY DEF EndSet
<1> QED BY <1>1, <1>2, <1>3 DEF Phases

(* Seeding makes what it covers present and leaves the rest. *)
LEMMA SeedFacts ==
  ASSUME TypeOK, StoredLegal, NEW o \in Objects
  PROVE  /\ Seed(o) # NoValue /\ Seed(o) \in Stored /\ Seed(o) \in Legal(o)
         /\ store[o] # NoValue => Seed(o) = store[o]
BY MibConsistent, MibAssumption DEF Seed, TypeOK, StoredLegal, Stored

(* A write of a legal value keeps the store's part of the invariant. *)
LEMMA LegalWrite ==
  ASSUME TypeOK, StoredLegal, Seeded,
         NEW o \in Objects, NEW v \in Legal(o),
         store' = [store EXCEPT ![o] = v], proc' = proc
  PROVE  store' \in [Objects -> Stored] /\ StoredLegal' /\ Seeded'
<1>1. v \in Int /\ v # NoValue
  BY MibConsistent, MibAssumption
<1>2. \A x \in Objects : store'[x] = IF x = o THEN v ELSE store[x]
  BY DEF TypeOK
<1>3. store' \in [Objects -> Stored]
  BY <1>1 DEF TypeOK, Stored
<1>4. StoredLegal'
  BY <1>2 DEF StoredLegal
<1>5. Shipped \subseteq Objects
  BY MibAssumption DEF Shipped, Objects, Cells
<1>6. Seeded'
  BY <1>1, <1>2, <1>5 DEF Seeded
<1> QED BY <1>3, <1>4, <1>6

(* A deletion of a key that does not ship keeps it too. *)
LEMMA Deletion ==
  ASSUME TypeOK, StoredLegal, Seeded,
         NEW o \in Objects, o \notin Shipped,
         store' = [store EXCEPT ![o] = NoValue], proc' = proc
  PROVE  store' \in [Objects -> Stored] /\ StoredLegal' /\ Seeded'
<1>1. \A x \in Objects : store'[x] = IF x = o THEN NoValue ELSE store[x]
  BY DEF TypeOK
<1>2. store' \in [Objects -> Stored]
  BY DEF TypeOK, Stored
<1>3. StoredLegal'
  BY <1>1 DEF StoredLegal
<1>4. Shipped \subseteq Objects
  BY MibAssumption DEF Shipped, Objects, Cells
<1>5. Seeded'
  BY <1>1, <1>4 DEF Seeded
<1> QED BY <1>2, <1>3, <1>5

(* A step that leaves store and proc alone. *)
LEMMA StoreUntouched ==
  ASSUME TypeOK, StoredLegal, Seeded, UNCHANGED <<store, proc>>
  PROVE  store' \in [Objects -> Stored] /\ StoredLegal' /\ Seeded'
BY DEF TypeOK, StoredLegal, Seeded

-----------------------------------------------------------------------------
(* Every action of Subagent preserves the inductive invariant. *)
LEMMA NextSafe == SafeInv /\ [Next]_vars => SafeInv'
<1> SUFFICES ASSUME SafeInv, [Next]_vars PROVE SafeInv'
  OBVIOUS
<1> TypeOK /\ StoredLegal /\ Seeded /\ SetInv
  BY DEF SafeInv
<1> SUFFICES TypeOK' /\ StoredLegal' /\ Seeded' /\ SetInv'
  BY DEF SafeInv
<1>pdu. /\ DOMAIN pdu \subseteq 1..MaxVarbinds
        /\ \A i \in DOMAIN pdu : /\ pdu[i].obj \in Objects /\ pdu[i].val \in Int
                                 /\ pdu[i].obj \in Managed
  BY PduShape DEF TypeOK
<1>ship. Shipped \subseteq Objects
  BY MibAssumption DEF Shipped, Objects, Cells
<1>1. CASE OpenConfig
  <2>1. store' = config_bootstrap_defaults /\ proc = "down" /\ proc' = "configOpen"
    BY <1>1 DEF OpenConfig
  <2>2. \A o \in Objects :
          store'[o] = IF o \in Shipped /\ Persistent(o) THEN Seed(o) ELSE store[o]
    BY <2>1 DEF config_bootstrap_defaults
  <2>3. store' \in [Objects -> Stored]
    BY <2>1, SeedFacts DEF config_bootstrap_defaults, TypeOK
  <2>4. TypeOK'
    BY <1>1, <2>1, <2>3 DEF OpenConfig, TypeOK, setVars, alarmVars
  <2>5. StoredLegal'
    BY <2>2, SeedFacts DEF StoredLegal
  <2>6. Seeded'
    BY <2>1, <2>2, <1>ship, SeedFacts DEF Seeded
  <2>7. SetInv'
    BY <1>1, <2>1 DEF OpenConfig, SetInv, setVars
  <2> QED BY <2>4, <2>5, <2>6, <2>7
<1>2. CASE OpenCache
  <2>1. store' = cache_bootstrap_defaults /\ proc = "configOpen" /\ proc' = "serving"
    BY <1>2 DEF OpenCache
  <2>2. \A o \in Objects :
          store'[o] = IF o \in Shipped /\ ~Persistent(o) THEN Seed(o) ELSE store[o]
    BY <2>1 DEF cache_bootstrap_defaults
  <2>3. store' \in [Objects -> Stored]
    BY <2>1, SeedFacts DEF cache_bootstrap_defaults, TypeOK
  <2>4. cpu' \in Stored
    BY <1>2 DEF OpenCache, CpuDefVal, TypeOK, Stored
  <2>5. TypeOK'
    BY <1>2, <2>1, <2>3, <2>4 DEF OpenCache, TypeOK, setVars, alarmVars
  <2>6. StoredLegal'
    BY <2>2, SeedFacts DEF StoredLegal
  <2>7. Seeded'
    BY <2>1, <2>2, <1>ship, SeedFacts DEF Seeded
  <2>8. SetInv'
    BY <1>2, <2>1 DEF OpenCache, SetInv, setVars
  <2> QED BY <2>5, <2>6, <2>7, <2>8
<1>3. CASE Reserve1
  <2>1. /\ pdu' \in Pdus /\ phase = "none" /\ proc = "serving"
        /\ UNCHANGED <<store, cpu, proc, stash, cursor, failed, alarmVars>>
    BY <1>3 DEF Reserve1, Idle
  <2>2. phase' \in {"reserve1", "rejected"}
    BY <1>3 DEF Reserve1
  <2>3. phase' = "reserve1" =>
          \A i \in DOMAIN pdu' : pdu'[i].val \in Legal(pdu'[i].obj)
    BY <1>3 DEF Reserve1, Reserve1Accepts
  <2>4. stash' = NoPdu /\ DOMAIN stash' = {}
    BY <2>1 DEF SetInv, NoPdu
  <2>5. TypeOK'
    BY <2>1, <2>2, <2>4 DEF TypeOK, Phases, alarmVars
  <2>6. SetInv'
    BY <2>1, <2>2, <2>3, <2>4 DEF SetInv
  <2> QED BY <2>1, <2>5, <2>6, StoreUntouched
<1>4. CASE Reserve2
  <2>1. /\ phase = "reserve1" /\ proc = "serving"
        /\ UNCHANGED <<store, cpu, proc, pdu, cursor, failed, alarmVars>>
    BY <1>4 DEF Reserve2, Idle
  <2>2. PICK unread \in SUBSET (DOMAIN pdu) :
          /\ stash' = [i \in DOMAIN pdu \ unread |-> StashOf(pdu[i].obj)]
          /\ phase' = IF unread = {} THEN "reserve2" ELSE "rejected"
    BY <1>4 DEF Reserve2
  <2>3. ASSUME NEW o \in Objects
        PROVE  /\ StashOf(o) = store[o] /\ StashOf(o) \in Stored
               /\ IF StashOf(o) = NoValue THEN o \notin Shipped
                                         ELSE StashOf(o) \in Legal(o)
    <3>1. o \in Scalars => store[o] # NoValue
      BY <2>1 DEF Seeded, Shipped
    <3>2. StashOf(o) = store[o]
      BY <3>1 DEF StashOf, ScalarStash, CellStash
    <3> QED BY <2>1, <2>3, <3>2 DEF TypeOK, StoredLegal, Seeded
  <2>4. DOMAIN stash' \subseteq DOMAIN pdu
    BY <2>2
  <2>5. \A i \in DOMAIN stash' :
          /\ stash'[i] \in Stored
          /\ IF stash'[i] = NoValue THEN pdu[i].obj \notin Shipped
                                    ELSE stash'[i] \in Legal(pdu[i].obj)
    BY <2>2, <2>3, <1>pdu
  <2>6. phase' \in {"reserve2", "rejected"}
    BY <2>2
  <2>7. TypeOK'
    BY <2>1, <2>4, <2>5, <2>6 DEF TypeOK, Phases, alarmVars
  <2>8. SetInv'
    BY <2>1, <2>5, <2>6 DEF SetInv
  <2> QED BY <2>1, <2>7, <2>8, StoreUntouched
<1>5. CASE Free
  <2>1. EndSet /\ UNCHANGED <<store, cpu, proc, alarmVars>>
    BY <1>5 DEF Free
  <2>2. TypeOK'
    BY <2>1, EndSetClean, StoreUntouched DEF TypeOK, alarmVars
  <2>3. SetInv'
    BY <2>1, EndSetClean DEF SetInv
  <2> QED BY <2>1, <2>2, <2>3, StoreUntouched
<1>6. CASE BeginAction
  <2>1. /\ phase = "reserve2" /\ phase' = "action" /\ cursor' = 1 /\ failed' = FALSE
        /\ UNCHANGED <<store, cpu, proc, pdu, stash, alarmVars>>
    BY <1>6 DEF BeginAction
  <2>2. TypeOK'
    <3>1. cursor' \in 1..(MaxVarbinds + 1)
      BY <2>1, SubagentAssumption
    <3>2. failed' \in BOOLEAN /\ phase' \in Phases
      BY <2>1 DEF Phases
    <3> QED BY <2>1, <3>1, <3>2 DEF TypeOK, alarmVars
  <2>3. SetInv'
    BY <2>1 DEF SetInv
  <2> QED BY <2>1, <2>2, <2>3, StoreUntouched
<1>7. CASE ActionVarbind
  <2>1. /\ phase = "action" /\ cursor \in DOMAIN pdu /\ cursor' = cursor + 1
        /\ UNCHANGED <<cpu, proc, phase, pdu, stash>>
    BY <1>7 DEF ActionVarbind
  <2>2. cursor' \in 1..(MaxVarbinds + 1)
    BY <2>1, <1>pdu, SubagentAssumption
  <2>3. SetInv'
    BY <2>1 DEF SetInv
  <2>4. failed' \in BOOLEAN
    BY <1>7 DEF ActionVarbind, TypeOK
  <2>5. /\ alarm' \in {"clear", "alarm"} /\ sending' \in BOOLEAN
        /\ trap' \in [cpu : Stored, threshold : Stored]
    BY <1>7, CheckTyped DEF ActionVarbind, TypeOK, alarmVars
  <2>6. store' \in [Objects -> Stored] /\ StoredLegal' /\ Seeded'
    <3>1. CASE store' = [store EXCEPT ![pdu[cursor].obj] = pdu[cursor].val]
      <4>1. pdu[cursor].obj \in Objects /\ pdu[cursor].val \in Legal(pdu[cursor].obj)
        BY <2>1, <1>pdu DEF SetInv
      <4> QED BY <2>1, <3>1, <4>1, LegalWrite
    <3>2. CASE UNCHANGED store
      BY <2>1, <3>2, StoreUntouched
    <3> QED BY <1>7, <3>1, <3>2 DEF ActionVarbind
  <2>7. TypeOK'
    BY <2>1, <2>2, <2>4, <2>5, <2>6 DEF TypeOK
  <2> QED BY <2>3, <2>6, <2>7
<1>8. CASE EndAction
  <2>1. /\ phase = "action" /\ phase' = "acted"
        /\ UNCHANGED <<store, cpu, proc, pdu, stash, cursor, failed, alarmVars>>
    BY <1>8 DEF EndAction
  <2>2. TypeOK'
    BY <2>1 DEF TypeOK, Phases, alarmVars
  <2>3. SetInv'
    BY <2>1 DEF SetInv
  <2> QED BY <2>1, <2>2, <2>3, StoreUntouched
<1>9. CASE Commit
  <2>1. EndSet /\ UNCHANGED <<store, cpu, proc, alarmVars>>
    BY <1>9 DEF Commit
  <2>2. TypeOK'
    BY <2>1, EndSetClean, StoreUntouched DEF TypeOK, alarmVars
  <2>3. SetInv'
    BY <2>1, EndSetClean DEF SetInv
  <2> QED BY <2>1, <2>2, <2>3, StoreUntouched
<1>10. CASE BeginUndo
  <2>1. /\ phase = "acted" /\ phase' = "undo" /\ cursor' = 1 /\ failed' = FALSE
        /\ UNCHANGED <<store, cpu, proc, pdu, stash, alarmVars>>
    BY <1>10 DEF BeginUndo
  <2>2. TypeOK'
    <3>1. cursor' \in 1..(MaxVarbinds + 1)
      BY <2>1, SubagentAssumption
    <3>2. failed' \in BOOLEAN /\ phase' \in Phases
      BY <2>1 DEF Phases
    <3> QED BY <2>1, <3>1, <3>2 DEF TypeOK, alarmVars
  <2>3. SetInv'
    BY <2>1 DEF SetInv
  <2> QED BY <2>1, <2>2, <2>3, StoreUntouched
<1>11. CASE UndoVarbind
  <2>1. /\ phase = "undo" /\ cursor \in DOMAIN pdu /\ cursor' = cursor + 1
        /\ UNCHANGED <<cpu, proc, phase, pdu, stash, alarmVars>>
    BY <1>11 DEF UndoVarbind
  <2>2. cursor' \in 1..(MaxVarbinds + 1)
    BY <2>1, <1>pdu, SubagentAssumption
  <2>3. SetInv'
    BY <2>1 DEF SetInv
  <2>4. failed' \in BOOLEAN
    BY <1>11 DEF UndoVarbind, TypeOK
  <2>5. store' \in [Objects -> Stored] /\ StoredLegal' /\ Seeded'
    <3>1. CASE /\ cursor \in DOMAIN stash
               /\ store' = [store EXCEPT ![pdu[cursor].obj] = stash[cursor]]
      <4>1. pdu[cursor].obj \in Objects
        BY <2>1, <1>pdu
      <4>2. CASE stash[cursor] = NoValue
        <5>1. pdu[cursor].obj \notin Shipped
          BY <3>1, <4>2 DEF SetInv
        <5> QED BY <2>1, <3>1, <4>1, <4>2, <5>1, Deletion
      <4>3. CASE stash[cursor] # NoValue
        <5>1. stash[cursor] \in Legal(pdu[cursor].obj)
          BY <3>1, <4>3 DEF SetInv
        <5> QED BY <2>1, <3>1, <4>1, <5>1, LegalWrite
      <4> QED BY <4>2, <4>3
    <3>2. CASE UNCHANGED store
      BY <2>1, <3>2, StoreUntouched
    <3> QED BY <1>11, <3>1, <3>2 DEF UndoVarbind, Restored
  <2>6. TypeOK'
    BY <2>1, <2>2, <2>4, <2>5 DEF TypeOK, alarmVars
  <2> QED BY <2>3, <2>5, <2>6
<1>12. CASE EndUndo
  <2>1. EndSet /\ UNCHANGED <<store, cpu, proc, alarmVars>>
    BY <1>12 DEF EndUndo
  <2>2. TypeOK'
    BY <2>1, EndSetClean, StoreUntouched DEF TypeOK, alarmVars
  <2>3. SetInv'
    BY <2>1, EndSetClean DEF SetInv
  <2> QED BY <2>1, <2>2, <2>3, StoreUntouched
<1>13. CASE MasterLost
  <2>1. EndSet /\ UNCHANGED <<store, cpu, proc, alarmVars>>
    BY <1>13 DEF MasterLost
  <2>2. TypeOK'
    BY <2>1, EndSetClean, StoreUntouched DEF TypeOK, alarmVars
  <2>3. SetInv'
    BY <2>1, EndSetClean DEF SetInv
  <2> QED BY <2>1, <2>2, <2>3, StoreUntouched
<1>14. CASE AlarmTimer
  <2>1. demo_check_temp_alarm(store[Threshold]) /\ UNCHANGED <<store, cpu, proc, setVars>>
    BY <1>14 DEF AlarmTimer
  <2>2. TypeOK'
    BY <2>1, CheckTyped DEF TypeOK, setVars
  <2>3. SetInv'
    BY <2>1 DEF SetInv, setVars
  <2> QED BY <2>1, <2>2, <2>3, StoreUntouched
<1>15. CASE SendEdgeTrap
  <2>1. /\ demo_send_temp_alarm /\ sending' = FALSE
        /\ UNCHANGED <<store, cpu, proc, setVars, alarm>>
    BY <1>15 DEF SendEdgeTrap
  <2>2. TypeOK'
    BY <2>1, SendTyped DEF TypeOK, setVars
  <2>3. SetInv'
    BY <2>1 DEF SetInv, setVars
  <2> QED BY <2>1, <2>2, <2>3, StoreUntouched
<1>16. CASE IpcWrite
  <2>1. PICK o \in Managed \cap Scalars, v \in Values : handle_write_config(o, v)
    BY <1>16 DEF IpcWrite
  <2>2. /\ v \in IpcRange(o) /\ store' = [store EXCEPT ![o] = v]
        /\ UNCHANGED <<cpu, proc, setVars, alarmVars>>
    BY <2>1 DEF handle_write_config
  <2>3. o \in Objects /\ v \in Legal(o)
    BY <2>2, MibConsistent DEF Objects
  <2>4. store' \in [Objects -> Stored] /\ StoredLegal' /\ Seeded'
    BY <2>2, <2>3, LegalWrite
  <2>5. TypeOK'
    BY <2>2, <2>4 DEF TypeOK, setVars, alarmVars
  <2>6. SetInv'
    BY <2>2 DEF SetInv, setVars
  <2> QED BY <2>4, <2>5, <2>6
<1>17. CASE handle_send_trap
  <2>1. /\ demo_send_temp_alarm
        /\ UNCHANGED <<store, cpu, proc, setVars, alarm, sending>>
    BY <1>17 DEF handle_send_trap
  <2>2. TypeOK'
    BY <2>1, SendTyped DEF TypeOK, setVars
  <2>3. SetInv'
    BY <2>1 DEF SetInv, setVars
  <2> QED BY <2>1, <2>2, <2>3, StoreUntouched
<1>18. CASE Sample
  <2>1. cpu' \in CpuSamples /\ UNCHANGED <<store, proc, setVars, alarmVars>>
    BY <1>18 DEF Sample, TelemetrySample
  <2>2. TypeOK'
    BY <2>1, SubagentAssumption DEF TypeOK, setVars, alarmVars, Stored
  <2>3. SetInv'
    BY <2>1 DEF SetInv, setVars
  <2> QED BY <2>1, <2>2, <2>3, StoreUntouched
<1>19. CASE Crash
  <2>1. /\ proc' = "down" /\ EndSet /\ alarm' = "clear" /\ sending' = FALSE
        /\ UNCHANGED <<store, cpu, trap>>
    BY <1>19 DEF Crash
  <2>2. TypeOK'
    BY <2>1, EndSetClean DEF TypeOK
  <2>3. StoredLegal' /\ Seeded'
    BY <2>1 DEF StoredLegal, Seeded
  <2>4. SetInv'
    BY <2>1, EndSetClean DEF SetInv
  <2> QED BY <2>2, <2>3, <2>4
<1>20. CASE PowerCycle
  <2>1. /\ proc' = "down" /\ EndSet /\ alarm' = "clear" /\ sending' = FALSE
        /\ store' = [o \in Objects |-> IF Persistent(o) THEN store[o] ELSE NoValue]
        /\ cpu' = NoValue /\ UNCHANGED trap
    BY <1>20 DEF PowerCycle
  <2>2. store' \in [Objects -> Stored]
    BY <2>1 DEF TypeOK, Stored
  <2>3. TypeOK'
    BY <2>1, <2>2, EndSetClean DEF TypeOK, Stored
  <2>4. StoredLegal' /\ Seeded'
    BY <2>1 DEF StoredLegal, Seeded
  <2>5. SetInv'
    BY <2>1, EndSetClean DEF SetInv
  <2> QED BY <2>3, <2>4, <2>5
<1>21. CASE UNCHANGED vars
  BY <1>21 DEF vars, TypeOK, StoredLegal, Seeded, SetInv
<1> QED
  BY <1>1, <1>2, <1>3, <1>4, <1>5, <1>6, <1>7, <1>8, <1>9, <1>10, <1>11, <1>12,
     <1>13, <1>14, <1>15, <1>16, <1>17, <1>18, <1>19, <1>20, <1>21
     DEF Next, SetStep

(* Every reachable state satisfies the inductive invariant. *)
THEOREM Safety == Spec => []SafeInv
BY InitSafe, NextSafe, PTL DEF Spec

(* Every reachable state is well typed. *)
THEOREM TypeCorrect == Spec => []TypeOK
<1>1. SafeInv => TypeOK
  BY DEF SafeInv
<1> QED BY <1>1, Safety, PTL

(* No value the MIB does not allow is ever in config.lmdb or cache.lmdb:   *)
(* not after a SET (RESERVE1), an IPC write (its own range table), a       *)
(* bootstrap (the DEFVALs) nor an UNDO, which writes what RESERVE2 read    *)
(* without looking at it.                                                  *)
THEOREM OnlyLegalValues == Spec => []StoredLegal
<1>1. SafeInv => StoredLegal
  BY DEF SafeInv
<1> QED BY <1>1, Safety, PTL

(* A serving subagent answers every GET of a scalar or a provisioned cell: *)
(* both bootstraps run before it serves, no write removes a key, and UNDO  *)
(* deletes only cells that were absent, which shipped ones never are.      *)
THEOREM AlwaysAnswered == Spec => []ShippedAnswered
<1>1. SafeInv => ShippedAnswered
  <2> SUFFICES ASSUME SafeInv, proc = "serving",
                      NEW o \in Scalars \cup (ColumnNames \X Provisioned)
               PROVE  Get(o) # NoValue
    BY DEF ShippedAnswered
  <2>1. store[o] # NoValue
    BY DEF SafeInv, Seeded, Shipped
  <2>2. o \in Cells => RowExists(o[2])
    <3> SUFFICES ASSUME o \in Cells PROVE RowExists(o[2])
      OBVIOUS
    <3>1. o[1] \in ColumnNames /\ o = <<o[1], o[2]>>
      BY DEF Cells
    <3> QED BY <2>1, <3>1 DEF RowExists
  <2> QED BY <2>1, <2>2 DEF Get
<1> QED BY <1>1, Safety, PTL

(* Startup, crashes and power cycles never change a value config.lmdb      *)
(* holds: only a subagent that is serving, and goes on serving, does.      *)
THEOREM ConfigurationKept == Spec => ConfigKept
<1> DEFINE Kept == \A o \in Objects :
             (Persistent(o) /\ store[o] # NoValue /\ store'[o] # store[o])
               => proc = "serving" /\ proc' = "serving"
<1>1. SafeInv /\ [Next]_vars => [Kept]_vars
  <2> SUFFICES ASSUME SafeInv, Next, NEW o \in Objects,
                      Persistent(o), store[o] # NoValue, store'[o] # store[o]
               PROVE  proc = "serving" /\ proc' = "serving"
    BY DEF Kept
  <2> TypeOK /\ SetInv
    BY DEF SafeInv
  <2>1. CASE OpenConfig
    BY <2>1 DEF OpenConfig, config_bootstrap_defaults, Seed
  <2>2. CASE OpenCache
    BY <2>2 DEF OpenCache, cache_bootstrap_defaults
  <2>3. CASE Reserve1 \/ Reserve2 \/ Free \/ BeginAction \/ EndAction \/ Commit
             \/ BeginUndo \/ EndUndo \/ MasterLost
    BY <2>3 DEF Reserve1, Reserve2, Free, BeginAction, EndAction, Commit,
                BeginUndo, EndUndo, MasterLost
  <2>4. CASE ActionVarbind \/ UndoVarbind
    BY <2>4 DEF ActionVarbind, UndoVarbind, SetInv
  <2>5. CASE AlarmTimer \/ SendEdgeTrap \/ handle_send_trap \/ Sample
    BY <2>5 DEF AlarmTimer, SendEdgeTrap, handle_send_trap, Sample, TelemetrySample
  <2>6. CASE IpcWrite
    BY <2>6 DEF IpcWrite, handle_write_config, Idle
  <2>7. CASE Crash \/ PowerCycle
    BY <2>7 DEF Crash, PowerCycle
  <2> QED BY <2>1, <2>2, <2>3, <2>4, <2>5, <2>6, <2>7 DEF Next, SetStep
<1> QED BY <1>1, Safety, PTL DEF Spec, ConfigKept

-----------------------------------------------------------------------------
(* The history only observes: each of its steps is a step of Subagent. *)
LEMMA Observes == [HNext]_hvars => [Next]_vars
BY DEF HNext, Stash, Apply, Acknowledge, Abandon, IpcAcknowledge, Check, EdgeTrap,
       Die, Unobserved, Next, SetStep, IpcWrite, hvars, vars

(* So what Subagent guarantees holds with the history too. *)
LEMMA HistorySafe == HSpec => []SafeInv
<1>1. HInit => SafeInv
  BY InitSafe DEF HInit
<1>2. SafeInv /\ [HNext]_hvars => SafeInv'
  BY NextSafe, Observes
<1> QED BY <1>1, <1>2, PTL DEF HSpec

(* A cursor outside the PDU is past all of it. *)
LEMMA AllPassed ==
  ASSUME TypeOK, cursor \notin DOMAIN pdu
  PROVE  \A j \in DOMAIN pdu : j < cursor
<1>1. pdu \in Pdus \cup {NoPdu} /\ cursor \in 1..(MaxVarbinds + 1)
  BY DEF TypeOK
<1>2. CASE pdu = NoPdu
  BY <1>2 DEF NoPdu
<1>3. CASE pdu \in Pdus
  <2>1. PICK n \in 1..MaxVarbinds : DOMAIN pdu = 1..n
    BY <1>3 DEF Pdus
  <2> QED BY <1>1, <2>1, SubagentAssumption
<1> QED BY <1>1, <1>2, <1>3

-----------------------------------------------------------------------------
(* From RESERVE2 to the end of the SET, the stash is what the store held   *)
(* before; objects outside the PDU stay as they were; and what UNDO has    *)
(* passed without an error is as it was.                                   *)
Armed == phase \in {"reserve2", "action", "acted", "undo"}

RollbackInv ==
  Armed =>
    /\ DOMAIN stash = DOMAIN pdu
    /\ \A i \in DOMAIN pdu : stash[i] = before[pdu[i].obj]
    /\ \A o \in Objects \ raced :
         (\A i \in DOMAIN pdu : pdu[i].obj # o) => store[o] = before[o]
    /\ (phase = "undo" /\ ~failed) =>
         \A j \in DOMAIN pdu : (j < cursor /\ pdu[j].obj \notin raced) =>
                                  store[pdu[j].obj] = before[pdu[j].obj]

(* Every step preserves what is left to undo, and what is undone already. *)
LEMMA NextRollback ==
  ASSUME SafeInv, SafeInv', RollbackInv, [HNext]_hvars
  PROVE  RollbackInv'
<1> TypeOK /\ SetInv /\ Seeded /\ TypeOK'
  BY DEF SafeInv
<1>pdu. /\ DOMAIN pdu \subseteq 1..MaxVarbinds
        /\ \A i \in DOMAIN pdu : pdu[i].obj \in Objects
  BY PduShape DEF TypeOK
<1>1. CASE Stash
  <2>1. /\ proc = "serving" /\ UNCHANGED <<store, pdu, cursor, failed>>
        /\ before' = store /\ raced' = {}
    BY <1>1 DEF Stash, Reserve2, Idle
  <2>2. PICK unread \in SUBSET (DOMAIN pdu) :
          /\ stash' = [i \in DOMAIN pdu \ unread |-> StashOf(pdu[i].obj)]
          /\ phase' = IF unread = {} THEN "reserve2" ELSE "rejected"
    BY <1>1 DEF Stash, Reserve2
  <2>3. \A o \in Objects : StashOf(o) = store[o]
    BY <2>1 DEF StashOf, ScalarStash, CellStash, Seeded, Shipped
  <2>4. CASE unread = {}
    BY <2>1, <2>2, <2>3, <2>4, <1>pdu DEF RollbackInv, Armed
  <2>5. CASE unread # {}
    BY <2>2, <2>5 DEF RollbackInv, Armed
  <2> QED BY <2>4, <2>5
<1>2. CASE Apply
  <2>1. /\ phase = "action" /\ cursor \in DOMAIN pdu
        /\ UNCHANGED <<phase, pdu, stash, before, raced>>
        /\ store' = [store EXCEPT ![pdu[cursor].obj] = pdu[cursor].val] \/ store' = store
    BY <1>2 DEF Apply, ActionVarbind
  <2>2. \A o \in Objects : o # pdu[cursor].obj => store'[o] = store[o]
    BY <2>1 DEF TypeOK
  <2> QED BY <2>1, <2>2 DEF RollbackInv, Armed
<1>3. CASE Acknowledge \/ Abandon \/ Die
  <2>1. phase' = "none"
    BY <1>3 DEF Acknowledge, Abandon, Die, Commit, Free, EndUndo, MasterLost,
                Crash, PowerCycle, EndSet
  <2> QED BY <2>1 DEF RollbackInv, Armed
<1>4. CASE IpcAcknowledge
  <2>1. PICK o \in Managed \cap Scalars, v \in Values :
          /\ Idle /\ store' = [store EXCEPT ![o] = v] /\ UNCHANGED setVars
          /\ raced' = IF phase \in {"reserve2", "acted"} THEN raced \cup {o} ELSE raced
          /\ UNCHANGED before
    BY <1>4 DEF IpcAcknowledge, handle_write_config
  <2>2. \A x \in Objects : x # o => store'[x] = store[x]
    BY <2>1 DEF TypeOK
  <2> QED BY <2>1, <2>2 DEF RollbackInv, Armed, Idle, setVars
<1>5. CASE Check \/ EdgeTrap
  <2>1. UNCHANGED <<store, setVars, before, raced>>
    BY <1>5 DEF Check, EdgeTrap, AlarmTimer, SendEdgeTrap
  <2> QED BY <2>1 DEF RollbackInv, Armed, setVars
<1>6. CASE Unobserved
  <2>1. UNCHANGED <<before, raced>>
    BY <1>6 DEF Unobserved, history
  <2>2. CASE OpenConfig \/ OpenCache
    <3>1. phase = "none" /\ phase' = phase
      BY <2>2 DEF OpenConfig, OpenCache, SetInv, setVars
    <3> QED BY <3>1 DEF RollbackInv, Armed
  <2>3. CASE Reserve1
    <3>1. phase' \in {"reserve1", "rejected"}
      BY <2>3 DEF Reserve1
    <3> QED BY <3>1 DEF RollbackInv, Armed
  <2>4. CASE BeginAction
    <3>1. phase = "reserve2" /\ phase' = "action" /\ UNCHANGED <<store, pdu, stash>>
      BY <2>4 DEF BeginAction
    <3> QED BY <2>1, <3>1 DEF RollbackInv, Armed
  <2>5. CASE EndAction
    <3>1. phase = "action" /\ phase' = "acted" /\ UNCHANGED <<store, pdu, stash>>
      BY <2>5 DEF EndAction
    <3> QED BY <2>1, <3>1 DEF RollbackInv, Armed
  <2>6. CASE BeginUndo
    <3>1. /\ phase = "acted" /\ phase' = "undo" /\ cursor' = 1
          /\ UNCHANGED <<store, pdu, stash>>
      BY <2>6 DEF BeginUndo
    <3>2. \A j \in DOMAIN pdu' : ~(j < cursor')
      BY <3>1, <1>pdu, SubagentAssumption
    <3> QED BY <2>1, <3>1, <3>2 DEF RollbackInv, Armed
  <2>7. CASE UndoVarbind
    <3>1. /\ phase = "undo" /\ cursor \in DOMAIN pdu /\ cursor' = cursor + 1
          /\ UNCHANGED <<phase, pdu, stash>>
      BY <2>7 DEF UndoVarbind
    <3>2. cursor \in DOMAIN stash /\ stash[cursor] = before[pdu[cursor].obj]
      BY <3>1 DEF RollbackInv, Armed
    <3>3. CASE /\ store' = [store EXCEPT ![pdu[cursor].obj] = stash[cursor]]
               /\ failed' = failed
      <4>1. \A o \in Objects :
              store'[o] = IF o = pdu[cursor].obj THEN before[o] ELSE store[o]
        BY <3>2, <3>3 DEF TypeOK
      <4>2. \A j \in DOMAIN pdu : j < cursor' => j < cursor \/ j = cursor
        BY <3>1, <1>pdu, SubagentAssumption
      <4>3. \A o \in Objects \ raced :
              (\A i \in DOMAIN pdu : pdu[i].obj # o) => store'[o] = before[o]
        BY <3>1, <4>1 DEF RollbackInv, Armed
      <4>4. ASSUME ~failed, NEW j \in DOMAIN pdu, j < cursor', pdu[j].obj \notin raced
            PROVE  store'[pdu[j].obj] = before[pdu[j].obj]
        <5>1. CASE pdu[j].obj = pdu[cursor].obj
          BY <4>1, <5>1, <1>pdu
        <5>2. CASE pdu[j].obj # pdu[cursor].obj
          <6>1. j < cursor
            BY <4>2, <4>4, <5>2
          <6>2. store[pdu[j].obj] = before[pdu[j].obj]
            BY <3>1, <4>4, <6>1 DEF RollbackInv, Armed
          <6> QED BY <4>1, <5>2, <6>2, <1>pdu
        <5> QED BY <5>1, <5>2
      <4> QED BY <2>1, <3>1, <3>3, <4>3, <4>4 DEF RollbackInv, Armed
    <3>4. CASE failed' = TRUE /\ store' = store
      BY <2>1, <3>1, <3>4 DEF RollbackInv, Armed
    <3> QED BY <2>7, <3>2, <3>3, <3>4 DEF UndoVarbind, Restored
  <2>8. CASE handle_send_trap \/ Sample
    <3>1. UNCHANGED <<store, setVars>>
      BY <2>8 DEF handle_send_trap, Sample, TelemetrySample
    <3> QED BY <2>1, <3>1 DEF RollbackInv, Armed, setVars
  <2> QED BY <1>6, <2>2, <2>3, <2>4, <2>5, <2>6, <2>7, <2>8 DEF Unobserved
<1>7. CASE UNCHANGED hvars
  BY <1>7 DEF hvars, vars, history, RollbackInv, Armed
<1> QED BY <1>1, <1>2, <1>3, <1>4, <1>5, <1>6, <1>7 DEF HNext

(* An UNDO that meets no storage error puts back every object that no IPC  *)
(* client wrote meanwhile: whichever ACTIONs failed, however often the PDU *)
(* names an object, and whether or not the cell existed.                   *)
THEOREM RollbackIsExact == HSpec => []RollbackExact
<1>1. HInit => RollbackInv
  BY DEF HInit, Init, RollbackInv, Armed
<1>2. SafeInv /\ SafeInv' /\ RollbackInv /\ [HNext]_hvars => RollbackInv'
  BY NextRollback
<1>3. SafeInv /\ RollbackInv => RollbackExact
  <2> SUFFICES ASSUME SafeInv, RollbackInv, phase = "undo", ~failed,
                      cursor \notin DOMAIN pdu, NEW o \in Objects \ raced
               PROVE  store[o] = before[o]
    BY DEF RollbackExact
  <2>1. \A j \in DOMAIN pdu : j < cursor
    BY AllPassed DEF SafeInv
  <2>2. CASE \E j \in DOMAIN pdu : pdu[j].obj = o
    BY <2>1, <2>2 DEF RollbackInv, Armed
  <2>3. CASE \A j \in DOMAIN pdu : pdu[j].obj # o
    BY <2>3 DEF RollbackInv, Armed
  <2> QED BY <2>2, <2>3
<1> QED BY <1>1, <1>2, <1>3, HistorySafe, PTL DEF HSpec

-----------------------------------------------------------------------------
(* What an acknowledged value rests on.  Outside UNDO every acknowledged   *)
(* value is stored, those written over IPC during the SET included; once   *)
(* ACTION has passed a varbind, its object vouches for nothing unless IPC  *)
(* wrote it later; and as long as no write failed, the object holds what   *)
(* the last varbind passed asked of it.                                    *)
Passed(i) == i \in DOMAIN pdu /\ i < cursor

LastPassed(i) == Passed(i) /\ \A j \in DOMAIN pdu : (Passed(j) /\ pdu[j].obj = pdu[i].obj) => j <= i

AckedInv ==
  /\ acked \in [Objects -> Stored]
  /\ \A o \in Objects : (acked[o] # NoValue /\ (phase = "undo" => o \notin raced))
                           => store[o] = acked[o]
  /\ phase = "action" => \A i \in DOMAIN pdu : Passed(i) => acked[pdu[i].obj] = NoValue
  /\ phase = "acted" => \A i \in DOMAIN pdu : Passed(i)
  /\ phase \in {"acted", "undo"} =>
       \A i \in DOMAIN pdu : pdu[i].obj \notin raced => acked[pdu[i].obj] = NoValue
  /\ (phase \in {"action", "acted"} /\ ~failed) =>
       \A i \in DOMAIN pdu : (LastPassed(i) /\ acked[pdu[i].obj] = NoValue)
                               => store[pdu[i].obj] = pdu[i].val

(* A nonempty set of positions of a PDU has a last one. *)
LEMMA LastPosition ==
  ASSUME NEW S, S # {}, NEW n \in Nat, S \subseteq 1..n
  PROVE  \E i \in S : \A j \in S : j <= i
<1> DEFINE T == {n - i : i \in S}
<1>1. T \subseteq Nat /\ T # {}
  <2>1. PICK i : i \in S
    OBVIOUS
  <2>2. n - i \in T
    BY <2>1
  <2>3. T \subseteq Nat
    OBVIOUS
  <2> QED BY <2>2, <2>3
<1> DEFINE Less == {ss \in Nat \X Nat : ss[1] < ss[2]}
<1>2. IsWellFoundedOn(Less, Nat)
  BY NatLessThanWellFounded DEF OpToRel
<1>3. \E x \in T : \A y \in T : ~(<<y, x>> \in Less)
  <2> HIDE DEF T, Less
  <2> QED BY <1>1, <1>2, WFMin
<1>4. PICK x \in T : \A y \in T : ~(y < x)
  BY <1>1, <1>3
<1>5. PICK i \in S : x = n - i
  OBVIOUS
<1>6. \A j \in S : j <= i
  BY <1>4, <1>5
<1> QED BY <1>6

(* What a committed PDU asked of an object is what its last varbind says. *)
LEMMA AskedOfLast ==
  ASSUME pdu \in Pdus \cup {NoPdu}, NEW o \in SetObjects
  PROVE  \E i \in DOMAIN pdu : /\ pdu[i].obj = o /\ Asked(o) = pdu[i].val
                                 /\ \A j \in DOMAIN pdu : pdu[j].obj = o => j <= i
<1> DEFINE S == {i \in DOMAIN pdu : pdu[i].obj = o}
<1>1. S # {} /\ S \subseteq 1..MaxVarbinds
  BY PduShape DEF SetObjects
<1>2. \E i \in S : \A j \in S : j <= i
  BY <1>1, LastPosition, SubagentAssumption
<1>3. \E i \in DOMAIN pdu : /\ pdu[i].obj = o
                              /\ \A j \in DOMAIN pdu : pdu[j].obj = o => j <= i
  BY <1>2
<1> QED BY <1>3 DEF Asked

(* Every step preserves it. *)
LEMMA NextAcked ==
  ASSUME SafeInv, SafeInv', AckedInv, [HNext]_hvars
  PROVE  AckedInv'
<1> TypeOK /\ SetInv /\ TypeOK'
  BY DEF SafeInv
<1>pdu. /\ DOMAIN pdu \subseteq 1..MaxVarbinds
        /\ \A i \in DOMAIN pdu : pdu[i].obj \in Objects /\ pdu[i].val \in Int
  BY PduShape DEF TypeOK
<1>num. MaxVarbinds \in Nat /\ cursor \in Int /\ NoValue \notin Int
  BY SubagentAssumption, MibAssumption DEF TypeOK
<1>1. CASE Stash
  <2>1. /\ UNCHANGED <<store, acked>> /\ phase = "reserve1"
        /\ phase' \in {"reserve2", "rejected"}
    BY <1>1 DEF Stash, Reserve2
  <2> QED BY <2>1 DEF AckedInv
<1>2. CASE Apply
  <2> DEFINE x == pdu[cursor].obj
  <2>1. /\ phase = "action" /\ cursor \in DOMAIN pdu /\ cursor' = cursor + 1
        /\ UNCHANGED <<phase, pdu, raced>>
        /\ acked' = [acked EXCEPT ![x] = NoValue]
        /\ \/ store' = [store EXCEPT ![x] = pdu[cursor].val] /\ failed' = failed
           \/ store' = store /\ failed' = TRUE
    BY <1>2 DEF Apply, ActionVarbind
  <2>2. x \in Objects
    BY <2>1, <1>pdu
  <2>3. \A o \in Objects : acked'[o] = IF o = x THEN NoValue ELSE acked[o]
    BY <2>1 DEF AckedInv
  <2>4. \A o \in Objects : o # x => store'[o] = store[o]
    BY <2>1 DEF TypeOK
  <2>5. \A i \in DOMAIN pdu : Passed(i)' <=> (Passed(i) \/ i = cursor)
    BY <2>1, <1>pdu, <1>num DEF Passed
  <2>6. acked' \in [Objects -> Stored]
    BY <2>1 DEF AckedInv, Stored
  <2>7. ASSUME ~failed', NEW i \in DOMAIN pdu, LastPassed(i)', acked'[pdu[i].obj] = NoValue
        PROVE  store'[pdu[i].obj] = pdu[i].val
    <3>1. store' = [store EXCEPT ![x] = pdu[cursor].val] /\ ~failed
      BY <2>1, <2>7
    <3>2. CASE i = cursor
      BY <2>2, <3>1, <3>2 DEF TypeOK
    <3>3. CASE i # cursor
      <4>1. Passed(i) /\ i < cursor
        BY <2>1, <2>5, <2>7, <3>3 DEF LastPassed, Passed
      <4>2. pdu[i].obj # x
        BY <2>1, <2>7, <4>1, <1>pdu, <1>num DEF LastPassed, Passed
      <4>3. LastPassed(i)
        BY <2>1, <2>5, <2>7, <4>1 DEF LastPassed
      <4>4. acked[pdu[i].obj] = NoValue
        BY <2>1, <4>1 DEF AckedInv
      <4>5. store[pdu[i].obj] = pdu[i].val
        BY <2>1, <3>1, <4>3, <4>4 DEF AckedInv
      <4> QED BY <2>4, <4>2, <4>5, <1>pdu
    <3> QED BY <3>2, <3>3
  <2>8. \A o \in Objects : acked'[o] # NoValue => store'[o] = acked'[o]
    BY <2>1, <2>3, <2>4 DEF AckedInv
  <2>9. \A i \in DOMAIN pdu : Passed(i)' => acked'[pdu[i].obj] = NoValue
    BY <2>1, <2>3, <2>5, <1>pdu DEF AckedInv
  <2>10. phase' = "action" /\ pdu' = pdu
    BY <2>1
  <2> QED BY <2>6, <2>7, <2>8, <2>9, <2>10 DEF AckedInv
<1>3. CASE Acknowledge
  <2>1. /\ phase = "acted" /\ ~failed /\ phase' = "none" /\ store' = store
        /\ acked' = [o \in Objects |->
             IF o \in SetObjects /\ acked[o] = NoValue THEN Asked(o) ELSE acked[o]]
    BY <1>3 DEF Acknowledge, Commit, EndSet
  <2>2. ASSUME NEW o \in Objects
        PROVE  /\ acked'[o] \in Stored
               /\ acked'[o] # NoValue => store'[o] = acked'[o]
    <3>1. CASE o \in SetObjects /\ acked[o] = NoValue
      <4>1. PICK i \in DOMAIN pdu :
              /\ pdu[i].obj = o /\ Asked(o) = pdu[i].val
              /\ \A j \in DOMAIN pdu : pdu[j].obj = o => j <= i
        BY <3>1, AskedOfLast DEF TypeOK
      <4>2. LastPassed(i)
        BY <2>1, <4>1 DEF AckedInv, LastPassed
      <4>3. store[o] = pdu[i].val
        BY <2>1, <3>1, <4>1, <4>2 DEF AckedInv
      <4> QED BY <2>1, <3>1, <4>1, <4>3, <1>pdu DEF Stored
    <3>2. CASE ~(o \in SetObjects /\ acked[o] = NoValue)
      BY <2>1, <3>2 DEF AckedInv
    <3> QED BY <3>1, <3>2
  <2>3. acked' \in [Objects -> Stored]
    BY <2>1, <2>2
  <2> QED BY <2>1, <2>2, <2>3 DEF AckedInv
<1>4. CASE Abandon \/ Die
  <2>1. phase' = "none"
    BY <1>4 DEF Abandon, Die, Free, EndUndo, MasterLost, Crash, PowerCycle, EndSet
  <2>2. ASSUME NEW o \in Objects
        PROVE  /\ Withdrawn[o] \in Stored
               /\ Withdrawn[o] # NoValue => store[o] = Withdrawn[o]
    BY DEF AckedInv, Withdrawn, Stored
  <2>3. CASE store' = store /\ acked' = Withdrawn
    BY <2>1, <2>2, <2>3 DEF AckedInv, Withdrawn
  <2>4. CASE PowerCycle /\ acked' = [o \in Objects |->
                             IF Persistent(o) THEN Withdrawn[o] ELSE NoValue]
    <3>1. \A o \in Objects : Persistent(o) => store'[o] = store[o]
      BY <2>4 DEF PowerCycle
    <3>2. \A o \in Objects : acked'[o] # NoValue => store'[o] = acked'[o]
      BY <2>2, <2>4, <3>1
    <3>3. acked' \in [Objects -> Stored]
      BY <2>2, <2>4 DEF Stored
    <3> QED BY <2>1, <3>2, <3>3 DEF AckedInv
  <2>5. CASE Abandon
    BY <2>3, <2>5 DEF Abandon, Free, EndUndo, MasterLost
  <2>6. CASE Die
    BY <2>3, <2>4, <2>6 DEF Die, Crash
  <2> QED BY <1>4, <2>5, <2>6
<1>5. CASE IpcAcknowledge
  <2>1. PICK o \in Managed \cap Scalars, v \in Values :
          /\ Idle /\ store' = [store EXCEPT ![o] = v] /\ UNCHANGED setVars
          /\ acked' = [acked EXCEPT ![o] = v]
          /\ raced' = IF phase \in {"reserve2", "acted"} THEN raced \cup {o} ELSE raced
    BY <1>5 DEF IpcAcknowledge, handle_write_config
  <2>2. o \in Objects /\ v \in Int
    BY <2>1, SubagentAssumption
  <2>3. \A x \in Objects : /\ store'[x] = IF x = o THEN v ELSE store[x]
                           /\ acked'[x] = IF x = o THEN v ELSE acked[x]
    BY <2>1, <2>2 DEF TypeOK, AckedInv
  <2>4. acked' \in [Objects -> Stored]
    BY <2>1, <2>2 DEF AckedInv, Stored
  <2>5. \A i \in DOMAIN pdu : /\ (LastPassed(i) <=> LastPassed(i)')
                              /\ (Passed(i) <=> Passed(i)')
    BY <2>1 DEF LastPassed, Passed, setVars
  <2>6. phase \notin {"action", "undo"} /\ UNCHANGED <<phase, pdu, cursor, failed>>
    BY <2>1 DEF Idle, setVars
  <2>7. \A x \in Objects : acked'[x] # NoValue => store'[x] = acked'[x]
    BY <2>3, <2>6 DEF AckedInv
  <2>8. phase = "acted" =>
          \A i \in DOMAIN pdu : pdu[i].obj \notin raced' => acked'[pdu[i].obj] = NoValue
    BY <2>1, <2>3, <1>pdu DEF AckedInv
  <2>9. (phase = "acted" /\ ~failed) =>
          \A i \in DOMAIN pdu : (LastPassed(i) /\ acked'[pdu[i].obj] = NoValue)
                                  => store'[pdu[i].obj] = pdu[i].val
    BY <2>2, <2>3, <1>pdu, <1>num DEF AckedInv
  <2> QED BY <2>4, <2>5, <2>6, <2>7, <2>8, <2>9 DEF AckedInv
<1>6. CASE Check \/ EdgeTrap
  <2>1. UNCHANGED <<store, phase, pdu, cursor, failed, acked, raced>>
    BY <1>6 DEF Check, EdgeTrap, AlarmTimer, SendEdgeTrap, setVars
  <2> QED BY <2>1 DEF AckedInv, LastPassed, Passed
<1>7. CASE Unobserved
  <2>1. UNCHANGED <<acked, raced>>
    BY <1>7 DEF Unobserved, history
  <2>2. CASE OpenConfig \/ OpenCache
    <3>1. phase = "none" /\ phase' = phase
      BY <2>2 DEF OpenConfig, OpenCache, SetInv, setVars
    <3>2. \A o \in Objects : store[o] # NoValue => store'[o] = store[o]
      BY <2>2 DEF OpenConfig, OpenCache, config_bootstrap_defaults,
                  cache_bootstrap_defaults, Seed
    <3> QED BY <2>1, <3>1, <3>2 DEF AckedInv
  <2>3. CASE Reserve1
    <3>1. phase' \in {"reserve1", "rejected"} /\ phase = "none" /\ store' = store
      BY <2>3 DEF Reserve1
    <3> QED BY <2>1, <3>1 DEF AckedInv
  <2>4. CASE BeginAction
    <3>1. /\ phase = "reserve2" /\ phase' = "action" /\ cursor' = 1
          /\ UNCHANGED <<store, pdu>>
      BY <2>4 DEF BeginAction
    <3>2. \A i \in DOMAIN pdu : ~Passed(i)' /\ ~LastPassed(i)'
      BY <3>1, <1>pdu, <1>num DEF Passed, LastPassed
    <3> QED BY <2>1, <3>1, <3>2 DEF AckedInv
  <2>5. CASE EndAction
    <3>1. /\ phase = "action" /\ phase' = "acted" /\ cursor \notin DOMAIN pdu
          /\ UNCHANGED <<store, pdu, cursor, failed>>
      BY <2>5 DEF EndAction
    <3>2. \A i \in DOMAIN pdu : Passed(i)
      BY <3>1, AllPassed DEF Passed
    <3>3. \A i \in DOMAIN pdu : (Passed(i) <=> Passed(i)') /\ (LastPassed(i) <=> LastPassed(i)')
      BY <3>1 DEF Passed, LastPassed
    <3> QED BY <2>1, <3>1, <3>2, <3>3 DEF AckedInv
  <2>6. CASE BeginUndo
    <3>1. phase = "acted" /\ phase' = "undo" /\ UNCHANGED <<store, pdu>>
      BY <2>6 DEF BeginUndo
    <3> QED BY <2>1, <3>1 DEF AckedInv
  <2>7. CASE UndoVarbind
    <3>1. /\ phase = "undo" /\ cursor \in DOMAIN pdu /\ UNCHANGED <<phase, pdu>>
          /\ \A o \in Objects : o # pdu[cursor].obj => store'[o] = store[o]
      BY <2>7 DEF UndoVarbind, TypeOK
    <3> QED BY <2>1, <3>1 DEF AckedInv
  <2>8. CASE handle_send_trap \/ Sample
    <3>1. UNCHANGED <<store, phase, pdu, cursor, failed>>
      BY <2>8 DEF handle_send_trap, Sample, TelemetrySample, setVars
    <3> QED BY <2>1, <3>1 DEF AckedInv, LastPassed, Passed
  <2> QED BY <1>7, <2>2, <2>3, <2>4, <2>5, <2>6, <2>7, <2>8 DEF Unobserved
<1>8. CASE UNCHANGED hvars
  BY <1>8 DEF hvars, vars, history, AckedInv, LastPassed, Passed
<1> QED BY <1>1, <1>2, <1>3, <1>4, <1>5, <1>6, <1>7, <1>8 DEF HNext

(* A value that a committed SET or an IPC STATUS_OK acknowledged stays     *)
(* stored until the object is written again: over crashes, power cycles,   *)
(* bootstraps, failing writes and rollbacks of other SETs.  The exception  *)
(* is an object written over IPC while a SET that is then undone holds its *)
(* old value.                                                              *)
THEOREM AcknowledgedStays == HSpec => []AckedStored
<1>1. HInit => AckedInv
  BY DEF HInit, Init, AckedInv, Stored
<1>2. SafeInv /\ SafeInv' /\ AckedInv /\ [HNext]_hvars => AckedInv'
  BY NextAcked
<1>3. AckedInv => AckedStored
  BY DEF AckedInv, AckedStored
<1> QED BY <1>1, <1>2, <1>3, HistorySafe, PTL DEF HSpec

-----------------------------------------------------------------------------
(* What the trap count rests on: the state moves before the send, so a     *)
(* check that is still sending has not counted, and a clear alarm has      *)
(* neither a count nor a send under way.                                   *)
TrapInv ==
  /\ edgeTraps \in {0, 1}
  /\ alarm = "clear" => edgeTraps = 0 /\ ~sending
  /\ sending => edgeTraps = 0

(* demo_check_temp_alarm between two sends. *)
LEMMA CheckCounts ==
  ASSUME TypeOK, TrapInv, ~sending, NEW thr, demo_check_temp_alarm(thr),
         edgeTraps' = IF alarm' = "clear" THEN 0 ELSE edgeTraps
  PROVE  TrapInv'
BY DEF TypeOK, TrapInv, demo_check_temp_alarm, Raises, Clears, alarmVars

(* Every step preserves it. *)
LEMMA NextTrap ==
  ASSUME TypeOK, TrapInv, [HNext]_hvars
  PROVE  TrapInv'
<1>1. CASE Apply
  <2>1. /\ ~sending /\ edgeTraps' = IF alarm' = "clear" THEN 0 ELSE edgeTraps
        /\ \/ demo_check_temp_alarm(pdu[cursor].val)
           \/ UNCHANGED <<alarm, sending>>
    BY <1>1 DEF Apply, ActionVarbind, alarmVars
  <2>2. CASE demo_check_temp_alarm(pdu[cursor].val)
    BY <2>1, <2>2, CheckCounts
  <2>3. CASE UNCHANGED <<alarm, sending>>
    BY <2>1, <2>3 DEF TrapInv
  <2> QED BY <2>1, <2>2, <2>3
<1>2. CASE Check
  <2>1. /\ ~sending /\ edgeTraps' = IF alarm' = "clear" THEN 0 ELSE edgeTraps
        /\ demo_check_temp_alarm(store[Threshold])
    BY <1>2 DEF Check, AlarmTimer, Idle
  <2> QED BY <2>1, CheckCounts
<1>3. CASE EdgeTrap
  BY <1>3 DEF EdgeTrap, SendEdgeTrap, TrapInv, TypeOK
<1>4. CASE Die
  BY <1>4 DEF Die, Crash, PowerCycle, TrapInv
<1>5. CASE Stash \/ Acknowledge \/ Abandon \/ IpcAcknowledge \/ Unobserved \/ UNCHANGED hvars
  <2>1. UNCHANGED <<alarm, sending, edgeTraps>>
    BY <1>5 DEF Stash, Acknowledge, Abandon, IpcAcknowledge, Unobserved, hvars, vars, history,
                alarmVars, Reserve2, Commit, Free, EndUndo, MasterLost, handle_write_config,
                OpenConfig, OpenCache, Reserve1, BeginAction, EndAction, BeginUndo,
                UndoVarbind, handle_send_trap, Sample, TelemetrySample
  <2> QED BY <2>1 DEF TrapInv
<1> QED BY <1>1, <1>2, <1>3, <1>4, <1>5 DEF HNext

(* Between two visits to the clear state the check sends at most one trap: *)
(* whatever the timer, threshold SETs, their rollbacks, IPC writes and     *)
(* failing reads do in between.                                            *)
THEOREM TrapNotRepeated == HSpec => []NoRepeatedTrap
<1>1. HInit => TrapInv
  BY DEF HInit, Init, TrapInv
<1>2. SafeInv /\ TrapInv /\ [HNext]_hvars => TrapInv'
  BY NextTrap DEF SafeInv
<1>3. TrapInv => NoRepeatedTrap
  BY DEF TrapInv, NoRepeatedTrap
<1> QED BY <1>1, <1>2, <1>3, HistorySafe, PTL DEF HSpec

(* The send reads the temperature and the threshold again.  They are there *)
(* whenever the subagent serves, and it serves when it sends.              *)
SendInv ==
  /\ proc = "serving" => cpu # NoValue
  /\ proc # "serving" => alarm = "clear"
  /\ (alarm = "alarm" /\ ~sending) => edgeTraps = 1

(* Every step preserves it, if reads do not fail. *)
LEMMA NextSend ==
  ASSUME "read" \notin Faults, SafeInv, TrapInv, SendInv, [HNext]_hvars
  PROVE  SendInv'
<1> TypeOK /\ SetInv /\ Seeded
  BY DEF SafeInv
<1>1. CASE Apply \/ Check
  <2>1. /\ ~sending /\ UNCHANGED <<cpu, proc>> /\ proc = "serving"
        /\ edgeTraps' = IF alarm' = "clear" THEN 0 ELSE edgeTraps
        /\ (\E thr : demo_check_temp_alarm(thr)) \/ UNCHANGED <<alarm, sending>>
    BY <1>1 DEF Apply, ActionVarbind, Check, AlarmTimer, Idle, alarmVars, SetInv
  <2> QED BY <2>1 DEF SendInv, TypeOK, demo_check_temp_alarm, Raises, Clears, alarmVars
<1>2. CASE EdgeTrap
  <2>1. sending /\ sending' = FALSE /\ UNCHANGED <<store, cpu, proc, alarm>>
    BY <1>2 DEF EdgeTrap, SendEdgeTrap
  <2>2. proc = "serving" /\ edgeTraps = 0
    BY <2>1 DEF SendInv, TrapInv
  <2>3. Threshold \in Shipped
    BY MibAssumption DEF Threshold, Shipped, Scalars
  <2>4. Readable(store[Threshold])
    BY <2>2, <2>3 DEF Readable, Seeded, SendInv
  <2>5. edgeTraps' = edgeTraps + 1
    BY <1>2, <2>4 DEF EdgeTrap, SkipTrap
  <2> QED BY <2>1, <2>2, <2>5 DEF SendInv
<1>3. CASE Die
  BY <1>3 DEF Die, Crash, PowerCycle, SendInv
<1>4. CASE OpenConfig \/ OpenCache
  <2>1. UNCHANGED <<alarm, sending>> /\ alarm = "clear"
        /\ (proc' = "serving" => cpu' = IF cpu = NoValue THEN CpuDefVal ELSE cpu)
    BY <1>4 DEF OpenConfig, OpenCache, alarmVars, SendInv
  <2>2. CpuDefVal # NoValue
    BY MibAssumption DEF CpuDefVal
  <2> QED BY <2>1, <2>2 DEF SendInv
<1>5. CASE Sample /\ UNCHANGED history
  <2>1. UNCHANGED <<alarm, sending, edgeTraps, proc>> /\ cpu' \in Int
    BY <1>5, SubagentAssumption DEF Sample, TelemetrySample, history, alarmVars
  <2> QED BY <2>1, MibAssumption DEF SendInv
<1>6. CASE \/ Stash \/ Acknowledge \/ Abandon \/ IpcAcknowledge \/ UNCHANGED hvars
           \/ /\ \/ Reserve1 \/ BeginAction \/ EndAction \/ BeginUndo \/ UndoVarbind
                 \/ handle_send_trap
              /\ UNCHANGED history
  <2>1. UNCHANGED <<alarm, sending, edgeTraps, proc, cpu>>
    BY <1>6 DEF Stash, Acknowledge, Abandon, IpcAcknowledge, hvars, vars, history,
                alarmVars, Reserve2, Commit, Free, EndUndo, MasterLost, handle_write_config,
                Reserve1, BeginAction, EndAction, BeginUndo, UndoVarbind, handle_send_trap
  <2> QED BY <2>1 DEF SendInv
<1> QED BY <1>1, <1>2, <1>3, <1>4, <1>5, <1>6 DEF HNext, Unobserved

(* Once the check that raised the alarm has returned, its trap has been    *)
(* sent, provided the reads of storage do not fail: nothing else stands    *)
(* between the edge and its trap, as bootstrap has put both values there   *)
(* and nothing deletes them.                                               *)
THEOREM TrapSent == ASSUME "read" \notin Faults PROVE HSpec => []ExactlyOneTrap
<1>1. HInit => TrapInv /\ SendInv
  BY DEF HInit, Init, TrapInv, SendInv
<1>2. SafeInv /\ TrapInv /\ SendInv /\ [HNext]_hvars => TrapInv' /\ SendInv'
  BY NextTrap, NextSend DEF SafeInv
<1>3. SendInv => ExactlyOneTrap
  BY DEF SendInv, ExactlyOneTrap
<1> QED BY <1>1, <1>2, <1>3, HistorySafe, PTL DEF HSpec
=============================================================================
