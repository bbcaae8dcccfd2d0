--------------------------- MODULE MainLoopProofs ---------------------------
(***************************************************************************)
(* The safety of the process's life, for any number of failures and any    *)
(* amount of IPC traffic.  LoopInv says of every point of main() what is   *)
(* open there; the two invariants of the model follow from it.             *)
(***************************************************************************)
EXTENDS MainLoop, TLAPS

Loop    == {"test", "fill", "select", "snmp_read", "dispatch", "run_alarms"}
Seeded  == Loop \cup {"init_snmp", "ipc_server_start", "ipc_server_stop", "storage_shutdown"}
Closed  == {"exited", "main", "open config"}
Before  == {"seed config", "open cache", "seed cache"}

(* What main() has open at each point, by the value of pc.  In             *)
(* snmp_shutdown it depends on how the process got there: out of the loop, *)
(* or from a failed start of the IPC server with all storage closed.       *)
Holds ==
  /\ pc \in Seeded => config_env = "seeded" /\ cache_env = "seeded"
  /\ pc \in Closed => config_env = "closed" /\ cache_env = "closed"
  /\ pc = "snmp_shutdown" =>
       IF listening THEN config_env = "seeded" /\ cache_env = "seeded"
                    ELSE config_env = "closed" /\ cache_env = "closed"
  /\ session => pc \in Loop \cup {"ipc_server_start", "snmp_shutdown"}
  /\ listening => pc \in Loop \cup {"snmp_shutdown", "ipc_server_stop"}
  /\ pc \in {"open cache", "seed cache"} => config_env = "seeded"
  /\ pc \in Loop => listening
  /\ sockfile = "own" => listening

(* Where failures leave their marks. *)
Marks ==
  /\ faults \in Nat
  /\ sockfile \in {"none", "own", "stale"}
  /\ sockfile = "stale" => faults > 0
  /\ answered = "genErr" => why = "ipc_server_start"
  /\ why = "ipc_server_start" => pc \in {"snmp_shutdown", "exited"} /\ ~listening
  /\ pc = "snmp_shutdown" /\ ~listening => why = "ipc_server_start"
  /\ status = 1 => why # "nothing" /\ pc \in {"snmp_shutdown", "exited"} /\ ~listening

LoopInv == pc \in Seeded \cup Closed \cup Before \cup {"snmp_shutdown"} /\ Holds /\ Marks

(* Nothing is open before the first start. *)
LEMMA InitLoop == Init => LoopInv
  BY DEF Init, Seeded, Closed, Before, Loop, Holds, Marks, LoopInv

(* Each step of main(), each failure and each event around it leaves open  *)
(* exactly what LoopInv says of the point it leads to.                     *)
LEMMA StepLoop == LoopInv /\ [Next]_vars => LoopInv'
  <1>0. SUFFICES ASSUME LoopInv, [Next]_vars PROVE LoopInv'
    OBVIOUS
  <1> USE DEF vars, env, net, fate, Go, Seeded, Closed, Before, Loop, Holds, Marks, LoopInv
  <1>1. CASE Start
    BY <1>0, <1>1 DEF Start
  <1>2. CASE install_signal_handlers
    BY <1>0, <1>2 DEF install_signal_handlers
  <1>3. CASE subagent_storage_init
    <2>1. UNCHANGED <<session, listening, sockfile, answered, status, faults, why>>
      BY <1>3 DEF subagent_storage_init
    <2>2. CASE pc = "open config" /\ pc' = "seed config"
      BY <1>0, <2>1, <2>2
    <2>3. CASE pc = "seed config" /\ pc' = "open cache" /\ config_env' = "seeded"
      BY <1>0, <2>1, <2>3
    <2>4. CASE pc = "open cache" /\ pc' = "seed cache" /\ config_env' = config_env
      BY <1>0, <2>1, <2>4
    <2>5. CASE /\ pc = "seed cache" /\ pc' = "init_snmp"
               /\ config_env' = config_env /\ cache_env' = "seeded"
      BY <1>0, <2>1, <2>5
    <2> QED
      BY <1>3, <2>2, <2>3, <2>4, <2>5 DEF subagent_storage_init
  <1>4. CASE init_snmp
    BY <1>0, <1>4 DEF init_snmp
  <1>5. CASE ipc_server_start
    <2>1. /\ pc = "ipc_server_start" /\ pc' = "test" /\ listening' = TRUE /\ sockfile' = "own"
          /\ UNCHANGED <<config_env, cache_env, session, answered, status, faults, why>>
      BY <1>5 DEF ipc_server_start, Unlinked
    <2> QED
      BY <1>0, <2>1
  <1>6. CASE TestStop
    BY <1>0, <1>6 DEF TestStop
  <1>7. CASE FillFdset
    BY <1>0, <1>7 DEF FillFdset
  <1>8. CASE SelectReady
    BY <1>0, <1>8 DEF SelectReady
  <1>9. CASE SelectTimesOut
    BY <1>0, <1>9 DEF SelectTimesOut
  <1>10. CASE snmp_read
    BY <1>0, <1>10 DEF snmp_read, Serve
  <1>11. CASE Dispatch
    BY <1>0, <1>11 DEF Dispatch
  <1>12. CASE DispatchDone
    BY <1>0, <1>12 DEF DispatchDone
  <1>13. CASE run_alarms
    BY <1>0, <1>13 DEF run_alarms
  <1>14. CASE snmp_shutdown
    <2>1. UNCHANGED <<config_env, cache_env, listening, sockfile, answered, status, faults, why>>
      BY <1>14 DEF snmp_shutdown
    <2>2. CASE listening /\ pc = "snmp_shutdown" /\ pc' = "ipc_server_stop" /\ session' = FALSE
      BY <1>0, <2>1, <2>2
    <2>3. CASE ~listening /\ pc = "snmp_shutdown" /\ pc' = "exited" /\ session' = FALSE
      BY <1>0, <2>1, <2>3
    <2> QED
      BY <1>14, <2>2, <2>3 DEF snmp_shutdown
  <1>15. CASE ipc_server_stop
    BY <1>0, <1>15 DEF ipc_server_stop
  <1>16. CASE subagent_storage_shutdown
    BY <1>0, <1>16 DEF subagent_storage_shutdown
  <1>17. CASE InitFails
    <2>1. faults \in Nat /\ faults' = faults + 1
      BY <1>0, <1>17 DEF InitFails, Fault
    <2>2. faults' \in Nat /\ faults' > 0
      BY <2>1
    <2> QED
      BY <1>0, <1>17, <2>2 DEF InitFails, Fault
  <1>18. CASE ipc_server_start_fails
    BY <1>0, <1>18 DEF ipc_server_start_fails, Fault
  <1>19. CASE SelectFails
    <2>1. faults \in Nat /\ faults' = faults + 1
      BY <1>0, <1>19 DEF SelectFails, Fault
    <2>2. faults' \in Nat /\ faults' > 0
      BY <2>1
    <2> QED
      BY <1>0, <1>19, <2>2 DEF SelectFails, Fault
  <1>20. CASE ServeWhileWaiting
    BY <1>0, <1>20 DEF ServeWhileWaiting, Serve
  <1>21. CASE StopSignal
    <2>1. \/ pc = "main" /\ pc' = "exited" /\ status' = 2
          \/ pc = "select" /\ pc' = "test" /\ status' = status
          \/ pc \notin {"main", "select"} /\ pc' = pc /\ status' = status
      BY <1>21, Zenon DEF StopSignal
    <2>2. UNCHANGED <<config_env, cache_env, session, listening, sockfile, answered, faults, why>>
      BY <1>21 DEF StopSignal
    <2>3. CASE pc = "main" /\ pc' = "exited" /\ status' = 2
      BY <1>0, <2>2, <2>3
    <2>4. CASE pc = "select" /\ pc' = "test" /\ status' = status
      BY <1>0, <2>2, <2>4
    <2>5. CASE pc \notin {"main", "select"} /\ pc' = pc /\ status' = status
      BY <1>0, <2>2, <2>5
    <2> QED
      BY <2>1, <2>3, <2>4, <2>5
  <1>22. CASE Kill
    <2>1. faults \in Nat /\ faults' = faults + 1
      BY <1>0, <1>22 DEF Kill, Running
    <2>2. faults' \in Nat /\ faults' > 0
      BY <2>1
    <2> QED
      BY <1>0, <1>22, <2>2 DEF Kill, Running
  <1>23. CASE MasterSends
    BY <1>0, <1>23 DEF MasterSends
  <1>24. CASE ClientSends
    BY <1>0, <1>24 DEF ClientSends
  <1>25. CASE AlarmExpires
    BY <1>0, <1>25 DEF AlarmExpires
  <1>26. CASE UNCHANGED vars
    BY <1>0, <1>26
  <1> QED
    BY <1>0, <1>1, <1>2, <1>3, <1>4, <1>5, <1>6, <1>7, <1>8, <1>9, <1>10,
       <1>11, <1>12, <1>13, <1>14, <1>15, <1>16, <1>17, <1>18, <1>19, <1>20,
       <1>21, <1>22, <1>23, <1>24, <1>25, <1>26 DEF Next, Main

(* LoopInv holds throughout. *)
THEOREM LoopSafe == Spec => []LoopInv
  BY InitLoop, StepLoop, PTL DEF Spec

(* Every exit of main(), on each error path of start-up, after the loop    *)
(* and by a kill, leaves no environment, session or listening socket, and  *)
(* a socket file only after a failure; a start fails only by a fault of    *)
(* its own, so such a file, which bind() would refuse, does not keep the   *)
(* subagent down.                                                          *)
THEOREM ExitsClean == Spec => []ExitClean
  <1>1. LoopInv => ExitClean
    BY DEF ExitClean, Loop, Closed, Holds, Marks, LoopInv
  <1> QED
    BY <1>1, LoopSafe, PTL

(* Requests are answered from seeded environments, but for a start that    *)
(* failed at the IPC server.                                               *)
THEOREM ServedFromStorage == Spec => []AnsweredFromStorage
  <1>1. LoopInv => AnsweredFromStorage
    BY DEF AnsweredFromStorage, Closed, Holds, Marks, LoopInv
  <1> QED
    BY <1>1, LoopSafe, PTL
=============================================================================
