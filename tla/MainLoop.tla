------------------------------ MODULE MainLoop ------------------------------
(***************************************************************************)
(* The life of the subagent process (src/main.c): start-up with its error  *)
(* exits, the select() loop with signals, requests, IPC traffic and the    *)
(* alarm timer, shutdown, and the next start.  What the requests do is in  *)
(* Subagent and what IPC clients see in IpcServer; here they only take     *)
(* the loop's time and need the environments open.                         *)
(***************************************************************************)
EXTENDS Naturals

CONSTANTS MaxInput,    \* bound: IPC requests the kernel holds
          MaxFaults    \* bound: system calls that fail in a behaviour

ASSUME LoopAssumption == MaxInput \in Nat \ {0} /\ MaxFaults \in Nat

VARIABLES pc,        \* where main() is
          config_env, cache_env,   \* "closed", "open" or "seeded"
          session,   \* objects are registered with the master
          listening, \* the IPC server is up
          sockfile,  \* the socket's path: "none", "own", or "stale" after a crash
          g_stop_requested,
          due,       \* the five-second alarm has expired and not been run
          request,   \* the master has sent a request
          input,     \* IPC requests waiting
          answered,  \* how the last request of the master was answered
          status,    \* exit status, 2 for a process that was killed
          faults,    \* failures so far
          why        \* the failure this process met, if any

env   == <<config_env, cache_env>>
net   == <<session, listening, sockfile, request, input>>
fate  == <<status, faults, why>>
vars  == <<pc, env, net, g_stop_requested, due, answered, fate>>

Running == pc \notin {"exited", "main"}

Init ==
  /\ pc = "exited" /\ config_env = "closed" /\ cache_env = "closed"
  /\ session = FALSE /\ listening = FALSE /\ sockfile = "none"
  /\ g_stop_requested = FALSE /\ due = FALSE /\ request = FALSE /\ input = 0
  /\ answered = "nothing" /\ status = 0 /\ faults = 0 /\ why = "nothing"

Go(from, to) == pc = from /\ pc' = to

(* systemd or an operator starts it. *)
Start ==
  /\ Go("exited", "main")
  /\ g_stop_requested' = FALSE /\ status' = 0 /\ why' = "nothing" /\ answered' = "nothing"
  /\ UNCHANGED <<env, net, due, faults>>

-----------------------------------------------------------------------------
(* Start-up.  A step fails when a system call does. *)
Fault(what) == faults < MaxFaults /\ faults' = faults + 1 /\ why' = what

install_signal_handlers ==
  /\ Go("main", "open config")
  /\ UNCHANGED <<env, net, g_stop_requested, due, answered, fate>>

(* The error returns of subagent_storage_init: everything opened so far is *)
(* closed, main() shuts net-snmp down (there is no session) and returns 1. *)
InitFails ==
  /\ pc \in {"open config", "seed config", "open cache", "seed cache"}
  /\ Fault("storage") /\ status' = 1 /\ pc' = "exited"
  /\ cache_env' = "closed" /\ config_env' = "closed"
  /\ UNCHANGED <<net, g_stop_requested, due, answered>>

subagent_storage_init ==
  /\ \/ Go("open config", "seed config") /\ config_env' = "open" /\ UNCHANGED cache_env
     \/ Go("seed config", "open cache") /\ config_env' = "seeded" /\ UNCHANGED cache_env
     \/ Go("open cache", "seed cache") /\ cache_env' = "open" /\ UNCHANGED config_env
     \/ Go("seed cache", "init_snmp") /\ cache_env' = "seeded" /\ UNCHANGED config_env
  /\ UNCHANGED <<net, g_stop_requested, due, answered, fate>>

(* The four init_demo functions and init_snmp, which opens the session. *)
init_snmp ==
  /\ Go("init_snmp", "ipc_server_start")
  /\ session' = TRUE
  /\ UNCHANGED <<env, listening, sockfile, request, input, g_stop_requested, due, answered, fate>>

(* "Remove any stale socket file left behind by a previous run."           *)
(* (ipc_server.c:513)                                                      *)
Unlinked_Not(path) == path

Unlinked(path) == "none"

(* bind() refuses a path that is there; then, as after any other error,    *)
(* main() closes the environments first and the session after them.        *)
ipc_server_start ==
  LET bound == Unlinked(sockfile) = "none"
  IN  /\ pc = "ipc_server_start"
      /\ pc' = IF bound THEN "test" ELSE "snmp_shutdown"
      /\ listening' = bound
      /\ sockfile' = IF bound THEN "own" ELSE sockfile
      /\ status' = IF bound THEN status ELSE 1
      /\ config_env' = IF bound THEN config_env ELSE "closed"
      /\ cache_env' = IF bound THEN cache_env ELSE "closed"
      /\ UNCHANGED <<session, request, input, g_stop_requested, due, answered, faults, why>>

(* socket() or unlink() fails and the path stays as it was, or a later     *)
(* call does and the path is free.                                         *)
ipc_server_start_fails ==
  /\ Go("ipc_server_start", "snmp_shutdown")
  /\ Fault("ipc_server_start") /\ status' = 1
  /\ sockfile' \in {sockfile, "none"}
  /\ config_env' = "closed" /\ cache_env' = "closed"
  /\ UNCHANGED <<session, listening, request, input, g_stop_requested, due, answered>>

-----------------------------------------------------------------------------
(* The loop. *)
TestStop ==
  /\ pc = "test"
  /\ pc' = IF g_stop_requested THEN "snmp_shutdown" ELSE "fill"
  /\ UNCHANGED <<env, net, g_stop_requested, due, answered, fate>>

(* snmp_select_info and ipc_server_fill_fdset.  A signal that comes now    *)
(* does not interrupt the select() that follows.                           *)
FillFdset ==
  /\ Go("fill", "select")
  /\ UNCHANGED <<env, net, g_stop_requested, due, answered, fate>>

Ready == request \/ input > 0

SelectReady ==
  /\ Go("select", "snmp_read") /\ Ready
  /\ UNCHANGED <<env, net, g_stop_requested, due, answered, fate>>

SelectTimesOut_OnlyIfDue ==
  /\ Go("select", "run_alarms") /\ ~Ready /\ due
  /\ UNCHANGED <<env, net, g_stop_requested, due, answered, fate>>

(* With block = 0 select() waits for a second at most; then snmp_timeout. *)
SelectTimesOut ==
  /\ Go("select", "run_alarms") /\ ~Ready
  /\ UNCHANGED <<env, net, g_stop_requested, due, answered, fate>>

(* Any error but EINTR ends the loop; exit_code is 0 all the same. *)
SelectFails ==
  /\ Go("select", "snmp_shutdown")
  /\ Fault("select")
  /\ UNCHANGED <<env, net, g_stop_requested, due, answered, status>>

(* A handler finds its environment, or NULL, which the storage layer       *)
(* refuses with STORAGE_ERR_INVAL.                                         *)
Serve ==
  /\ request' = FALSE
  /\ answered' = IF config_env = "seeded" /\ cache_env = "seeded" THEN "from storage" ELSE "genErr"

snmp_read ==
  /\ Go("snmp_read", "dispatch")
  /\ IF request THEN Serve ELSE UNCHANGED <<request, answered>>
  /\ UNCHANGED <<env, session, listening, sockfile, input, g_stop_requested, due, fate>>

(* net-snmp waits for the master's answer while it opens and closes the    *)
(* session, and serves what arrives meanwhile.                             *)
ServeWhileWaiting ==
  /\ pc \in {"ipc_server_start", "snmp_shutdown"} /\ session /\ request
  /\ Serve
  /\ UNCHANGED <<pc, env, session, listening, sockfile, input, g_stop_requested, due, fate>>

(* ipc_server_dispatch: service_client reads and answers until read()      *)
(* finds nothing.                                                          *)
Dispatch ==
  /\ pc = "dispatch" /\ input > 0
  /\ input' = input - 1
  /\ UNCHANGED <<pc, env, session, listening, sockfile, request, g_stop_requested, due,
                 answered, fate>>

DispatchDone_NoAlarms ==
  /\ Go("dispatch", "test") /\ input = 0
  /\ UNCHANGED <<env, net, g_stop_requested, due, answered, fate>>

DispatchDone ==
  /\ Go("dispatch", "run_alarms") /\ input = 0
  /\ UNCHANGED <<env, net, g_stop_requested, due, answered, fate>>

run_alarms ==
  /\ Go("run_alarms", "test")
  /\ due' = FALSE
  /\ UNCHANGED <<env, net, g_stop_requested, answered, fate>>

-----------------------------------------------------------------------------
(* After the loop.  A start whose IPC server failed only closes the        *)
(* session: it has closed its environments already.                        *)
snmp_shutdown_StorageFirst ==
  /\ pc = "snmp_shutdown"
  /\ IF config_env = "closed"
       THEN session' = FALSE /\ request' = FALSE /\ UNCHANGED env
            /\ pc' = IF listening THEN "ipc_server_stop" ELSE "exited"
       ELSE config_env' = "closed" /\ cache_env' = "closed" /\ UNCHANGED <<pc, session, request>>
  /\ UNCHANGED <<listening, sockfile, input, g_stop_requested, due, answered, fate>>

snmp_shutdown ==
  /\ pc = "snmp_shutdown"
  /\ pc' = IF listening THEN "ipc_server_stop" ELSE "exited"
  /\ session' = FALSE /\ request' = FALSE
  /\ UNCHANGED <<env, listening, sockfile, input, g_stop_requested, due, answered, fate>>

ipc_server_stop ==
  /\ Go("ipc_server_stop", "storage_shutdown")
  /\ listening' = FALSE /\ sockfile' = "none" /\ input' = 0
  /\ UNCHANGED <<env, session, request, g_stop_requested, due, answered, fate>>

subagent_storage_shutdown ==
  /\ Go("storage_shutdown", "exited")
  /\ config_env' = "closed" /\ cache_env' = "closed" /\ due' = FALSE
  /\ UNCHANGED <<net, g_stop_requested, answered, fate>>

-----------------------------------------------------------------------------
(* SIGTERM or SIGINT.  It interrupts select(), which then goes back to the *)
(* test; anywhere else it only leaves the flag.  Before the handler is     *)
(* installed it ends the process.                                          *)
StopSignal ==
  /\ pc # "exited" /\ ~g_stop_requested
  /\ g_stop_requested' = (pc # "main")
  /\ pc' = CASE pc = "main" -> "exited" [] pc = "select" -> "test" [] OTHER -> pc
  /\ status' = IF pc = "main" THEN 2 ELSE status
  /\ UNCHANGED <<env, net, due, answered, faults, why>>

(* SIGKILL or a crash: the kernel closes everything, the path remains. *)
Kill ==
  /\ Running /\ faults < MaxFaults /\ faults' = faults + 1
  /\ pc' = "exited" /\ status' = 2 /\ why' = "killed"
  /\ config_env' = "closed" /\ cache_env' = "closed"
  /\ session' = FALSE /\ listening' = FALSE /\ request' = FALSE /\ input' = 0
  /\ sockfile' = IF sockfile = "own" THEN "stale" ELSE sockfile
  /\ due' = FALSE /\ answered' = "nothing"
  /\ UNCHANGED g_stop_requested

MasterSends ==
  /\ session /\ ~request /\ request' = TRUE
  /\ UNCHANGED <<pc, env, session, listening, sockfile, input, g_stop_requested, due, answered, fate>>

ClientSends ==
  /\ listening /\ input < MaxInput /\ input' = input + 1
  /\ UNCHANGED <<pc, env, session, listening, sockfile, request, g_stop_requested, due, answered, fate>>

AlarmExpires ==
  /\ listening /\ ~due /\ due' = TRUE
  /\ UNCHANGED <<pc, env, net, g_stop_requested, answered, fate>>

-----------------------------------------------------------------------------
(* What the process does of itself. *)
Main ==
  \/ install_signal_handlers \/ subagent_storage_init \/ init_snmp \/ ipc_server_start
  \/ TestStop \/ FillFdset \/ SelectReady \/ SelectTimesOut \/ snmp_read \/ Dispatch \/ DispatchDone
  \/ run_alarms \/ snmp_shutdown \/ ipc_server_stop \/ subagent_storage_shutdown

Next ==
  \/ Start \/ Main
  \/ InitFails \/ ipc_server_start_fails \/ SelectFails \/ ServeWhileWaiting
  \/ StopSignal \/ Kill \/ MasterSends \/ ClientSends \/ AlarmExpires

Spec == Init /\ [][Next]_vars

(* The process is scheduled. *)
LiveSpec == Spec /\ WF_vars(Main)

-----------------------------------------------------------------------------
(* Every way out of main() gives back what was taken: environments,        *)
(* session and socket, on each error exit of start-up as after the loop.   *)
(* And an exit with status 1 is due to a fault in this very process: a     *)
(* socket file left by a crash, which bind() would refuse, never keeps it  *)
(* from starting.                                                          *)
ExitClean ==
  pc = "exited" =>
    /\ config_env = "closed" /\ cache_env = "closed"
    /\ ~session /\ ~listening /\ sockfile # "own"
    /\ sockfile = "stale" => faults > 0
    /\ status = 1 => why # "nothing"

(* From the first registration to the end of the session, also while it    *)
(* is being closed, a request is answered from seeded environments.  The   *)
(* exception is a start that fails at the IPC server, which closes its     *)
(* environments before the session (main.c:343).                           *)
AnsweredFromStorage == answered = "genErr" => why = "ipc_server_start"

(* "no SA_RESTART: select() must return EINTR" (main.c:166): a stop signal *)
(* ends the process, also one that arrives between the test of the flag    *)
(* and select(), which it does not interrupt; unless the process never     *)
(* leaves ipc_server_dispatch again, for a client that always has its next *)
(* request ready (or one that does not read its answers, see IpcServer).   *)
StopHonoured == g_stop_requested ~> (pc \in {"exited", "main"} \/ [](pc = "dispatch"))

(* "alarm callback: notice a temperature crossing without being asked"     *)
(* (main.c:187): an expired alarm is run, in the midst of signals and      *)
(* requests of the master; only a turn of ipc_server_dispatch without end  *)
(* keeps it waiting.                                                       *)
OnlyIpcDelaysAlarm == due ~> (~due \/ [](pc = "dispatch"))
=============================================================================
