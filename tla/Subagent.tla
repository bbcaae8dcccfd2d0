------------------------------ MODULE Subagent ------------------------------
(***************************************************************************)
(* The C subagent as one single-threaded process over two LMDB             *)
(* environments: the four-phase SNMP SET, configuration writes over IPC,   *)
(* the temperature alarm, startup bootstrap, crashes and power cycles.     *)
(*                                                                         *)
(* One AgentX message, one IPC frame or one timer callback runs to         *)
(* completion before the loop looks at the next, so only what other        *)
(* processes do (the telemetry writer, a crash) can fall inside a handler. *)
(* Between the phases of a SET, which are separate AgentX messages,        *)
(* everything else can run.  snmpd keeps one SET in progress at a time.    *)
(***************************************************************************)
EXTENDS DemoMib

CONSTANTS Values,        \* the values managers and applications ask for
          Managed,       \* the objects they ask it of
          MaxVarbinds,   \* bound on the varbinds of one SET
          CpuSamples,    \* the temperatures telemetry writes
          Faults         \* which storage calls may fail: "read", "write"

ASSUME SubagentAssumption ==
  /\ Values \subseteq Int
  /\ Managed \subseteq Objects
  /\ MaxVarbinds \in Nat \ {0}
  /\ CpuSamples \subseteq Int
  /\ Faults \subseteq {"read", "write"}

VARIABLES store,    \* both environments: each writable object's value, or NoValue
          cpu,      \* cpuTempMilliC in cache.lmdb, or NoValue
          proc,     \* "down", "configOpen" (config.lmdb seeded), "serving"
          phase,    \* how far the SET in progress has come
          pdu,      \* its varbinds
          stash,    \* varbind index -> what RESERVE2 read
          cursor,   \* next varbind of the ACTION or UNDO message being handled
          failed,   \* a varbind of that message got an error
          alarm,    \* temp_alarm_state
          sending,  \* the loop is inside demo_send_temp_alarm for a new alarm
          trap      \* varbinds of the last demoTempAlarm handed to the master

setVars   == <<phase, pdu, stash, cursor, failed>>
alarmVars == <<alarm, sending, trap>>
vars      == <<store, cpu, proc, phase, pdu, stash, cursor, failed,
               alarm, sending, trap>>

Varbind == [obj : Managed, val : Values]
Pdus    == UNION {[1..n -> Varbind] : n \in 1..MaxVarbinds}
NoPdu   == [i \in {} |-> i]
NoTrap  == [cpu |-> NoValue, threshold |-> NoValue]
Phases  == {"none", "rejected", "reserve1", "reserve2", "action", "acted", "undo"}
Stored  == Int \cup {NoValue}

-----------------------------------------------------------------------------
(* What an earlier life of the device may have left in config.lmdb: any    *)
(* value a SET accepted, or nothing; rows of a firmware with more ports    *)
(* included.  cache.lmdb is on tmpfs and starts empty.                     *)
Left(o) == IF Persistent(o) THEN (Values \cap Legal(o)) \cup {NoValue} ELSE {NoValue}

Init ==
  /\ store \in [Objects -> Values \cup {NoValue}]
  /\ \A o \in Objects : store[o] \in Left(o)
  /\ cpu = NoValue
  /\ proc = "down"
  /\ phase = "none" /\ pdu = NoPdu /\ stash = NoPdu
  /\ cursor = 1 /\ failed = FALSE
  /\ alarm = "clear" /\ sending = FALSE /\ trap = NoTrap

-----------------------------------------------------------------------------
(* Startup.  Each environment is seeded in one transaction that writes the *)
(* missing keys only; a failed transaction leaves nothing behind.          *)
Seed_Overwriting(o) == DefVal(o)

Seed(o) == IF store[o] = NoValue THEN DefVal(o) ELSE store[o]

config_bootstrap_defaults ==
  [o \in Objects |-> IF o \in Shipped /\ Persistent(o) THEN Seed(o) ELSE store[o]]

cache_bootstrap_defaults ==
  [o \in Objects |-> IF o \in Shipped /\ ~Persistent(o) THEN Seed(o) ELSE store[o]]

OpenConfig ==
  /\ proc = "down"
  /\ store' = config_bootstrap_defaults
  /\ proc' = "configOpen"
  /\ UNCHANGED <<cpu, setVars, alarmVars>>

OpenCache ==
  /\ proc = "configOpen"
  /\ store' = cache_bootstrap_defaults
  /\ cpu' = IF cpu = NoValue THEN CpuDefVal ELSE cpu
  /\ proc' = "serving"
  /\ UNCHANGED <<setVars, alarmVars>>

-----------------------------------------------------------------------------
(* The alarm: demo_check_temp_alarm and demo_send_temp_alarm.  The check   *)
(* moves the state before it sends, and the send reads both values again.  *)
TEMP_ALARM_HYSTERESIS_MILLIC == 500

Readable(thr) == cpu # NoValue /\ thr # NoValue

Raises_Stateless(thr) == cpu > thr
Raises_WithBand(thr)  == alarm = "clear" /\ cpu > thr + TEMP_ALARM_HYSTERESIS_MILLIC

Raises(thr) == alarm = "clear" /\ cpu > thr

Clears_Strictly(thr) == alarm = "alarm" /\ cpu < thr - TEMP_ALARM_HYSTERESIS_MILLIC

Clears(thr) == alarm = "alarm" /\ cpu <= thr - TEMP_ALARM_HYSTERESIS_MILLIC

demo_check_temp_alarm(thr) ==
  \/ /\ Readable(thr) /\ Raises(thr)
     /\ alarm' = "alarm" /\ sending' = TRUE
     /\ UNCHANGED trap
  \/ /\ Readable(thr) /\ Clears(thr)
     /\ alarm' = "clear"
     /\ UNCHANGED <<sending, trap>>
  \/ /\ Readable(thr) /\ ~Raises(thr) /\ ~Clears(thr)
     /\ UNCHANGED alarmVars
  \/ /\ ~Readable(thr) \/ "read" \in Faults
     /\ UNCHANGED alarmVars

SendTrap ==
  /\ Readable(store[Threshold])
  /\ trap' = [cpu |-> cpu, threshold |-> store[Threshold]]

SkipTrap_Always == UNCHANGED trap

SkipTrap ==
  /\ ~Readable(store[Threshold]) \/ "read" \in Faults
  /\ UNCHANGED trap

demo_send_temp_alarm == SendTrap \/ SkipTrap

(* The call demo_check_temp_alarm makes once it has moved to "alarm". *)
SendEdgeTrap ==
  /\ sending
  /\ demo_send_temp_alarm
  /\ sending' = FALSE
  /\ UNCHANGED <<store, cpu, proc, setVars, alarm>>

(* The loop is between two messages. *)
Idle == proc = "serving" /\ phase \notin {"action", "undo"} /\ ~sending

(* temp_alarm_alarm_cb, every five seconds. *)
AlarmTimer ==
  /\ Idle
  /\ demo_check_temp_alarm(store[Threshold])
  /\ UNCHANGED <<store, cpu, proc, setVars>>

-----------------------------------------------------------------------------
(* SNMP SET.                                                               *)

(* A row is there when any of its cells is, in either environment. *)
RowExists(r) == \E c \in ColumnNames : store[<<c, r>>] # NoValue

Reserve1Accepts(vb) ==
  /\ vb.val \in Legal(vb.obj)
  /\ vb.obj \in Cells => RowExists(vb.obj[2])

(* TESTSET arrives.  A row enumeration that fails looks like no row. *)
Reserve1 ==
  /\ Idle /\ phase = "none"
  /\ pdu' \in Pdus
  /\ \/ /\ \A i \in DOMAIN pdu' : Reserve1Accepts(pdu'[i])
        /\ phase' = "reserve1"
     \/ /\ \/ \E i \in DOMAIN pdu' : ~Reserve1Accepts(pdu'[i])
           \/ "read" \in Faults /\ \E i \in DOMAIN pdu' : pdu'[i].obj \in Cells
        /\ phase' = "rejected"
  /\ UNCHANGED <<store, cpu, proc, stash, cursor, failed, alarmVars>>

(* A scalar that is not there is remembered as zero or the empty string. *)
ScalarStash(o) == IF store[o] = NoValue THEN 0 ELSE store[o]

(* A cell keeps "existed": NoValue stands for existed = 0. *)
CellStash_NeverExisted(o) == NoValue
CellStash_AsScalar(o)     == ScalarStash(o)

CellStash(o) == store[o]

StashOf(o) == IF o \in Scalars THEN ScalarStash(o) ELSE CellStash(o)

Reserve2 ==
  /\ Idle /\ phase = "reserve1"
  /\ \E unread \in SUBSET (DOMAIN pdu) :
       /\ unread # {} => "read" \in Faults
       /\ stash' = [i \in DOMAIN pdu \ unread |-> StashOf(pdu[i].obj)]
       /\ phase' = IF unread = {} THEN "reserve2" ELSE "rejected"
  /\ UNCHANGED <<store, cpu, proc, pdu, cursor, failed, alarmVars>>

(* The SET is over for this subagent; its requests and stashes are freed. *)
EndSet_KeepsStash ==
  /\ phase' = "none" /\ pdu' = NoPdu /\ UNCHANGED stash
  /\ cursor' = 1 /\ failed' = FALSE

EndSet ==
  /\ phase' = "none" /\ pdu' = NoPdu /\ stash' = NoPdu
  /\ cursor' = 1 /\ failed' = FALSE

(* CLEANUPSET before COMMITSET: this subagent or another refused. *)
Free ==
  /\ Idle /\ phase \in {"rejected", "reserve2"}
  /\ EndSet
  /\ UNCHANGED <<store, cpu, proc, alarmVars>>

(* COMMITSET arrives: ACTION is run on every varbind, errors or not. *)
BeginAction ==
  /\ Idle /\ phase = "reserve2"
  /\ phase' = "action" /\ cursor' = 1 /\ failed' = FALSE
  /\ UNCHANGED <<store, cpu, proc, pdu, stash, alarmVars>>

(* One varbind: its own write transaction, and for the threshold a check   *)
(* of the alarm against the new value.                                     *)
ActionVarbind ==
  /\ phase = "action" /\ ~sending /\ cursor \in DOMAIN pdu
  /\ LET vb == pdu[cursor] IN
       \/ /\ store' = [store EXCEPT ![vb.obj] = vb.val]
          /\ IF vb.obj = Threshold THEN demo_check_temp_alarm(vb.val)
                                   ELSE UNCHANGED alarmVars
          /\ UNCHANGED failed
       \/ /\ "write" \in Faults
          /\ failed' = TRUE
          /\ UNCHANGED <<store, alarmVars>>
  /\ cursor' = cursor + 1
  /\ UNCHANGED <<cpu, proc, phase, pdu, stash>>

EndAction ==
  /\ phase = "action" /\ ~sending /\ cursor \notin DOMAIN pdu
  /\ phase' = "acted"
  /\ UNCHANGED <<store, cpu, proc, pdu, stash, cursor, failed, alarmVars>>

(* CLEANUPSET after a COMMITSET without errors. *)
Commit_Unchecked ==
  /\ Idle /\ phase = "acted"
  /\ EndSet
  /\ UNCHANGED <<store, cpu, proc, alarmVars>>

Commit ==
  /\ Idle /\ phase = "acted" /\ ~failed
  /\ EndSet
  /\ UNCHANGED <<store, cpu, proc, alarmVars>>

(* UNDOSET: a varbind failed here, or the master gave up for another reason. *)
BeginUndo ==
  /\ Idle /\ phase = "acted"
  /\ phase' = "undo" /\ cursor' = 1 /\ failed' = FALSE
  /\ UNCHANGED <<store, cpu, proc, pdu, stash, alarmVars>>

(* What UNDO leaves in a cell or scalar: the stashed value, or no key when *)
(* the cell had none.                                                      *)
Restored(i) == stash[i]

UndoVarbind ==
  /\ phase = "undo" /\ cursor \in DOMAIN pdu
  /\ IF cursor \in DOMAIN stash
       THEN \/ /\ store' = [store EXCEPT ![pdu[cursor].obj] = Restored(cursor)]
               /\ UNCHANGED failed
            \/ /\ "write" \in Faults
               /\ failed' = TRUE
               /\ UNCHANGED store
       ELSE UNCHANGED <<store, failed>>
  /\ cursor' = cursor + 1
  /\ UNCHANGED <<cpu, proc, phase, pdu, stash, alarmVars>>

EndUndo ==
  /\ phase = "undo" /\ cursor \notin DOMAIN pdu
  /\ EndSet
  /\ UNCHANGED <<store, cpu, proc, alarmVars>>

(* The AgentX session is lost between two messages: the rest never comes. *)
MasterLost ==
  /\ Idle /\ phase # "none"
  /\ EndSet
  /\ UNCHANGED <<store, cpu, proc, alarmVars>>

-----------------------------------------------------------------------------
(* IPC requests that change something; a refused or failed write does not. *)
handle_write_config(o, v) ==
  /\ Idle
  /\ v \in IpcRange(o)
  /\ store' = [store EXCEPT ![o] = v]
  /\ UNCHANGED <<cpu, proc, setVars, alarmVars>>

handle_send_trap ==
  /\ Idle
  /\ demo_send_temp_alarm
  /\ UNCHANGED <<store, cpu, proc, setVars, alarm, sending>>

-----------------------------------------------------------------------------
(* The other processes, and the ways to die. *)
TelemetrySample(t) ==
  /\ cpu' = t
  /\ UNCHANGED <<store, proc, setVars, alarmVars>>

(* The process ends, wherever it is; what LMDB committed stays. *)
Crash ==
  /\ proc # "down"
  /\ proc' = "down"
  /\ EndSet
  /\ alarm' = "clear" /\ sending' = FALSE
  /\ UNCHANGED <<store, cpu, trap>>

(* The device loses power: tmpfs is gone, config.lmdb is not. *)
PowerCycle ==
  /\ proc' = "down"
  /\ store' = [o \in Objects |-> IF Persistent(o) THEN store[o] ELSE NoValue]
  /\ cpu' = NoValue
  /\ EndSet
  /\ alarm' = "clear" /\ sending' = FALSE
  /\ UNCHANGED trap

-----------------------------------------------------------------------------
IpcWrite == \E o \in Managed \cap Scalars, v \in Values : handle_write_config(o, v)
Sample   == \E t \in CpuSamples : TelemetrySample(t)

SetStep ==
  \/ Reserve1 \/ Reserve2 \/ Free
  \/ BeginAction \/ ActionVarbind \/ EndAction \/ Commit
  \/ BeginUndo \/ UndoVarbind \/ EndUndo \/ MasterLost

Next ==
  \/ OpenConfig \/ OpenCache
  \/ SetStep
  \/ AlarmTimer \/ SendEdgeTrap
  \/ IpcWrite \/ handle_send_trap
  \/ Sample \/ Crash \/ PowerCycle

Spec == Init /\ [][Next]_vars

(* A handler that has started runs to its end, and run_alarms at the end   *)
(* of every turn of the loop gives the timer its chance again and again.   *)
(* Nothing is assumed of snmpd, of IPC clients or of telemetry.            *)
HandlerStep == SendEdgeTrap \/ ActionVarbind \/ EndAction \/ UndoVarbind \/ EndUndo

FairSpec == Spec /\ WF_vars(HandlerStep) /\ SF_vars(AlarmTimer)

-----------------------------------------------------------------------------
(* What a GET of the object is answered with (MODE_GET of the handlers). *)
Get(o) ==
  IF o \in Cells /\ ~RowExists(o[2]) THEN NoValue ELSE store[o]

(* The two environments hold integers or nothing, the SET in progress has  *)
(* at most MaxVarbinds varbinds and a stash for some of them, and the      *)
(* cursor never leaves the PDU by more than one.                           *)
TypeOK ==
  /\ store \in [Objects -> Stored]
  /\ cpu \in Stored
  /\ proc \in {"down", "configOpen", "serving"}
  /\ phase \in Phases
  /\ pdu \in Pdus \cup {NoPdu}
  /\ DOMAIN stash \subseteq DOMAIN pdu
  /\ \A i \in DOMAIN stash : stash[i] \in Stored
  /\ cursor \in 1..(MaxVarbinds + 1)
  /\ failed \in BOOLEAN
  /\ alarm \in {"clear", "alarm"}
  /\ sending \in BOOLEAN
  /\ trap \in [cpu : Stored, threshold : Stored]

(* No sequence of SETs, rollbacks, IPC writes, restarts and storage errors *)
(* leaves a value in either environment that the MIB does not allow.  The  *)
(* scalar handlers remember a missing value as 0, which is not in range    *)
(* for adminStatusExt and sampleIntervalSec, and UNDO writes it unchecked. *)
StoredLegal == \A o \in Objects : store[o] # NoValue => store[o] \in Legal(o)

(* While the subagent serves, a GET of a scalar or of a cell of a          *)
(* provisioned row never answers noSuchInstance, whatever was set, rolled  *)
(* back or interrupted before: an UNDO that deletes never deletes these.   *)
ShippedAnswered ==
  proc = "serving" =>
    \A o \in Scalars \cup (ColumnNames \X Provisioned) : Get(o) # NoValue

(* An existing key is never overwritten by startup, and config.lmdb is     *)
(* written by a running subagent only: across crashes, power cycles and    *)
(* both bootstraps a persistent value stays exactly as it was.             *)
ConfigKept ==
  [][\A o \in Objects :
       (Persistent(o) /\ store[o] # NoValue /\ store'[o] # store[o])
         => proc = "serving" /\ proc' = "serving"]_vars

Hot  == proc = "serving" /\ Readable(store[Threshold]) /\ cpu > store[Threshold]
Cool == proc = "serving" /\ Readable(store[Threshold]) /\ cpu + 500 <= store[Threshold]

(* A temperature that stays above the threshold is noticed: by the SET     *)
(* that lowered the threshold or, when the IPC server or an UNDO changed   *)
(* it (neither checks the alarm), by the timer.                            *)
AlarmRaised == []<>(~Hot \/ alarm = "alarm")

(* An alarm does not outlive its cause: when the temperature stays at      *)
(* least 500 milli-degrees below the threshold the alarm clears, also when *)
(* it was raised against a threshold whose SET was then rolled back.       *)
AlarmCleared == []<>(~Cool \/ alarm = "clear")
=============================================================================
