--------------------------- MODULE SubagentHistory ---------------------------
(***************************************************************************)
(* Subagent with history variables: what it has promised its clients so    *)
(* far, and what the store held when the SET in progress took its stash.   *)
(* The history only observes; Subagent's variables behave as in Subagent.  *)
(***************************************************************************)
EXTENDS Subagent

VARIABLES before,    \* the store when RESERVE2 took the stash
          raced,     \* objects written over IPC since then
          acked,     \* the last value acknowledged for an object and not since
                     \* reopened by a SET, or NoValue
          edgeTraps  \* demoTempAlarms the check sent since the alarm was clear

history == <<before, raced, acked, edgeTraps>>
hvars   == <<vars, history>>

HInit ==
  /\ Init
  /\ before = store
  /\ raced = {}
  /\ acked = [o \in Objects |-> NoValue]
  /\ edgeTraps = 0

(* The value a committed PDU asked of o: that of the last varbind for o. *)
Asked(o) ==
  LET last == CHOOSE i \in DOMAIN pdu :
                /\ pdu[i].obj = o
                /\ \A j \in DOMAIN pdu : pdu[j].obj = o => j <= i
  IN  pdu[last].val

SetObjects == {pdu[i].obj : i \in DOMAIN pdu}

(* An ended SET that had begun to undo vouches for nothing it raced with. *)
Withdrawn ==
  [o \in Objects |-> IF phase = "undo" /\ o \in raced THEN NoValue ELSE acked[o]]

Stash ==
  /\ Reserve2
  /\ before' = store /\ raced' = {}
  /\ UNCHANGED <<acked, edgeTraps>>

Apply ==
  /\ ActionVarbind
  /\ acked' = [acked EXCEPT ![pdu[cursor].obj] = NoValue]
  /\ edgeTraps' = IF alarm' = "clear" THEN 0 ELSE edgeTraps
  /\ UNCHANGED <<before, raced>>

Acknowledge ==
  /\ Commit
  /\ acked' = [o \in Objects |->
                 IF o \in SetObjects /\ acked[o] = NoValue THEN Asked(o) ELSE acked[o]]
  /\ raced' = {}
  /\ UNCHANGED <<before, edgeTraps>>

Abandon ==
  /\ Free \/ EndUndo \/ MasterLost
  /\ acked' = Withdrawn /\ raced' = {}
  /\ UNCHANGED <<before, edgeTraps>>

IpcAcknowledge ==
  \E o \in Managed \cap Scalars, v \in Values :
    /\ handle_write_config(o, v)
    /\ acked' = [acked EXCEPT ![o] = v]
    /\ raced' = IF phase \in {"reserve2", "acted"} THEN raced \cup {o} ELSE raced
    /\ UNCHANGED <<before, edgeTraps>>

Check ==
  /\ AlarmTimer
  /\ edgeTraps' = IF alarm' = "clear" THEN 0 ELSE edgeTraps
  /\ UNCHANGED <<before, raced, acked>>

EdgeTrap ==
  /\ SendEdgeTrap
  /\ \/ SendTrap /\ edgeTraps' = edgeTraps + 1
     \/ SkipTrap /\ UNCHANGED edgeTraps
  /\ UNCHANGED <<before, raced, acked>>

Die ==
  /\ \/ Crash /\ acked' = Withdrawn
     \/ /\ PowerCycle
        /\ acked' = [o \in Objects |-> IF Persistent(o) THEN Withdrawn[o] ELSE NoValue]
  /\ raced' = {} /\ edgeTraps' = 0
  /\ UNCHANGED before

Unobserved ==
  /\ \/ OpenConfig \/ OpenCache
     \/ Reserve1 \/ BeginAction \/ EndAction \/ BeginUndo \/ UndoVarbind
     \/ handle_send_trap \/ Sample
  /\ UNCHANGED history

HNext ==
  \/ Stash \/ Apply \/ Acknowledge \/ Abandon
  \/ IpcAcknowledge
  \/ Check \/ EdgeTrap
  \/ Die \/ Unobserved

HSpec == HInit /\ [][HNext]_hvars

(* With the fairness of Subagent's FairSpec. *)
HFairSpec == HSpec /\ WF_vars(HandlerStep) /\ SF_vars(AlarmTimer)

-----------------------------------------------------------------------------
(* A rollback whose writes all succeed puts every object back to what it   *)
(* held when RESERVE2 ran, whichever ACTION writes succeeded, also when a  *)
(* PDU names the same object twice and when a cell did not exist.  Objects *)
(* written over IPC in between are the subject of NoAcknowledgedWriteLost. *)
RollbackExact ==
  (phase = "undo" /\ cursor \notin DOMAIN pdu /\ ~failed) =>
    \A o \in Objects \ raced : store[o] = before[o]

(* What a client was told is stored stays stored: a value acknowledged by  *)
(* a committed SET or by an IPC STATUS_OK is in its environment until a    *)
(* later write, through crashes, restarts, bootstraps and, for config.lmdb,*)
(* power cycles.  Excluded: objects written over IPC while a SET that is   *)
(* later undone held a stash.                                              *)
AckedStored ==
  \A o \in Objects \ raced : acked[o] # NoValue => store[o] = acked[o]

(* tests/scenario_e_ipc.sh: "every write lands, none lost/corrupted". No   *)
(* acknowledged write is taken back, whatever else is going on.            *)
NoAcknowledgedWriteLost ==
  \A o \in Objects : acked[o] # NoValue => store[o] = acked[o]

(* demo_trap.h, "no repeated traps while the condition persists": between  *)
(* two visits to the clear state the check sends at most one trap, over    *)
(* timer checks, threshold SETs, their rollback and IPC threshold writes.  *)
NoRepeatedTrap == edgeTraps <= 1

(* demo_trap.c, "the first sample above threshold moves to ALARM and fires *)
(* exactly one trap": once the check that raised the alarm has returned,   *)
(* its trap has been sent.                                                 *)
ExactlyOneTrap == (alarm = "alarm" /\ ~sending) => edgeTraps = 1
=============================================================================
