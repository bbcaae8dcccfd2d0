----------------------------- MODULE IpcServer -----------------------------
(***************************************************************************)
(* The AF_UNIX request server of the subagent (src/ipc_server.c) and the   *)
(* loop of main.c that drives it: connection slots, receive buffers,       *)
(* length-prefixed frames that arrive in pieces or several at a time,      *)
(* and answers written with send_all.                                      *)
(*                                                                         *)
(* A byte stream is a sequence of units: a header (the four length bytes), *)
(* then as many payload units as the length says.  What the handlers of    *)
(* ipc_server.c do to the store is in Subagent; here a request is handled  *)
(* or not.                                                                 *)
(***************************************************************************)
EXTENDS Integers, Sequences, FiniteSets

CONSTANTS Conns,            \* client connections, each made at most once
          IPC_MAX_CLIENTS,  \* slots
          MaxLen,           \* IPC_MAX_FRAME_LEN, in units
          FrameShapes,      \* the frames clients send: <<length prefix, body>>
          MaxFrames,        \* bound: frames a client sends
          SocketRoom,       \* bound: answers the kernel holds for a client
          NoConn

ASSUME IpcAssumption ==
  /\ IPC_MAX_CLIENTS \in Nat \ {0} /\ MaxLen \in Nat \ {0}
  /\ MaxFrames \in Nat /\ SocketRoom \in Nat \ {0}
  /\ NoConn \notin Conns

Slots == 1..IPC_MAX_CLIENTS

(* IPC_CLIENT_BUF_SIZE: two frames of the largest size. *)
BufSize_PayloadOnly == MaxLen

BufSize == 2 * (1 + MaxLen)

(* Envelope bodies by what handle_frame does with them: a request, or a    *)
(* *_response (answered STATUS_INVALID); one without an answer shape, or   *)
(* bytes that do not decode.                                               *)
Answered == {"request", "response"}
Closing  == {"pingResponse", "garbage"}

ASSUME FrameAssumption == FrameShapes \subseteq Nat \X (Answered \cup Closing)

Header(c, i, f) == [unit |-> "header", conn |-> c, id |-> i, len |-> f[1], body |-> f[2]]
Payload         == [unit |-> "payload"]

VARIABLES conn,     \* per connection: "new", "backlog", "open", "closed" by the server
          hungup,   \* the client has closed its end
          frames,   \* frames the client has begun
          unsent,   \* payload units of the current frame it has not written yet
          inq,      \* units written and not yet read by the server
          outq,     \* answers written and not yet read by the client
          got,      \* answers the client has read
          backlog,  \* the listen queue
          slot,     \* slot -> connection, or NoConn
          buf,      \* slot -> units received and not yet consumed
          pc,       \* where the loop is
          cur,      \* the slot being served
          ready,    \* the slots whose descriptor select() reported
          handled   \* per connection: the ids of the requests acted upon

clientVars == <<frames, unsent, got, hungup>>
vars == <<conn, hungup, frames, unsent, inq, outq, got, backlog,
          slot, buf, pc, cur, ready, handled>>

Init ==
  /\ conn = [c \in Conns |-> "new"] /\ hungup = [c \in Conns |-> FALSE]
  /\ frames = [c \in Conns |-> 0] /\ unsent = [c \in Conns |-> 0]
  /\ inq = [c \in Conns |-> <<>>] /\ outq = [c \in Conns |-> <<>>]
  /\ got = [c \in Conns |-> <<>>] /\ backlog = <<>>
  /\ slot = [s \in Slots |-> NoConn] /\ buf = [s \in Slots |-> <<>>]
  /\ pc = "select" /\ cur = 1 /\ ready = {} /\ handled = [c \in Conns |-> <<>>]

-----------------------------------------------------------------------------
(* Clients.  They write in pieces of any size, hang up when they like, and *)
(* read their answers when they like.                                      *)
Connect(c) ==
  /\ conn[c] = "new" /\ pc # "stopped"
  /\ conn' = [conn EXCEPT ![c] = "backlog"]
  /\ backlog' = Append(backlog, c)
  /\ UNCHANGED <<clientVars, inq, outq, slot, buf, pc, cur, ready, handled>>

Writable(c) == conn[c] \in {"backlog", "open"} /\ ~hungup[c]

WriteHeader(c) ==
  /\ Writable(c) /\ unsent[c] = 0 /\ frames[c] < MaxFrames
  /\ \E f \in FrameShapes :
       /\ inq' = [inq EXCEPT ![c] = Append(@, Header(c, frames[c] + 1, f))]
       /\ unsent' = [unsent EXCEPT ![c] = f[1]]
  /\ frames' = [frames EXCEPT ![c] = @ + 1]
  /\ UNCHANGED <<conn, hungup, outq, got, backlog, slot, buf, pc, cur, ready, handled>>

WritePayload(c) ==
  /\ Writable(c) /\ unsent[c] > 0
  /\ inq' = [inq EXCEPT ![c] = Append(@, Payload)]
  /\ unsent' = [unsent EXCEPT ![c] = @ - 1]
  /\ UNCHANGED <<conn, hungup, frames, outq, got, backlog, slot, buf, pc, cur, ready, handled>>

ReadAnswer(c) ==
  /\ outq[c] # <<>> /\ ~hungup[c]
  /\ got' = [got EXCEPT ![c] = Append(@, Head(outq[c]))]
  /\ outq' = [outq EXCEPT ![c] = Tail(@)]
  /\ UNCHANGED <<conn, hungup, frames, unsent, inq, backlog, slot, buf, pc, cur, ready, handled>>

HangUp(c) ==
  /\ Writable(c)
  /\ hungup' = [hungup EXCEPT ![c] = TRUE]
  /\ UNCHANGED <<conn, frames, unsent, inq, outq, got, backlog, slot, buf, pc, cur, ready, handled>>

Client(c) ==
  Connect(c) \/ WriteHeader(c) \/ WritePayload(c) \/ ReadAnswer(c) \/ HangUp(c)

-----------------------------------------------------------------------------
(* One turn of the loop.  fill_fdset registers every slot in use, select   *)
(* reports those with something to read; snmp_read and the timers run      *)
(* before and after without touching this state.                           *)
Select_NoListener ==
  /\ pc = "select"
  /\ ready' = {s \in Slots : /\ slot[s] # NoConn
                             /\ inq[slot[s]] # <<>> \/ hungup[slot[s]]}
  /\ pc' = "serve"
  /\ cur' = 1
  /\ UNCHANGED <<conn, clientVars, inq, outq, backlog, slot, buf, handled>>

Select ==
  /\ pc = "select"
  /\ ready' = {s \in Slots : /\ slot[s] # NoConn
                             /\ inq[slot[s]] # <<>> \/ hungup[slot[s]]}
  /\ pc' = IF backlog # <<>> THEN "accept" ELSE "serve"
  /\ cur' = 1
  /\ UNCHANGED <<conn, clientVars, inq, outq, backlog, slot, buf, handled>>

FreeSlots == {s \in Slots : slot[s] = NoConn}

(* accept_new_clients: every connection waiting gets the lowest free slot, *)
(* or is closed at once when there is none.                                *)
AcceptOne ==
  /\ pc = "accept" /\ backlog # <<>>
  /\ backlog' = Tail(backlog)
  /\ IF FreeSlots = {}
       THEN /\ conn' = [conn EXCEPT ![Head(backlog)] = "closed"]
            /\ inq' = [inq EXCEPT ![Head(backlog)] = <<>>]
            /\ UNCHANGED <<slot, buf>>
       ELSE LET s == CHOOSE s \in FreeSlots : \A t \in FreeSlots : s <= t
            IN  /\ conn' = [conn EXCEPT ![Head(backlog)] = "open"]
                /\ slot' = [slot EXCEPT ![s] = Head(backlog)]
                /\ buf' = [buf EXCEPT ![s] = <<>>]
                /\ UNCHANGED inq
  /\ UNCHANGED <<clientVars, outq, pc, cur, ready, handled>>

AcceptDone ==
  /\ pc = "accept" /\ backlog = <<>>
  /\ pc' = "serve"
  /\ UNCHANGED <<conn, clientVars, inq, outq, backlog, slot, buf, cur, ready, handled>>

(* What the client wrote and the server did not read is gone with it. *)
close_client_LeaksSlot(s) ==
  /\ inq' = [inq EXCEPT ![slot[s]] = <<>>]
  /\ conn' = [conn EXCEPT ![slot[s]] = "closed"]
  /\ buf' = [buf EXCEPT ![s] = <<>>]
  /\ UNCHANGED slot

close_client(s) ==
  /\ inq' = [inq EXCEPT ![slot[s]] = <<>>]
  /\ conn' = [conn EXCEPT ![slot[s]] = "closed"]
  /\ slot' = [slot EXCEPT ![s] = NoConn]
  /\ buf' = [buf EXCEPT ![s] = <<>>]

NextSlot == cur' = cur + 1 /\ pc' = "serve"

SkipSlot ==
  /\ pc = "serve" /\ cur \in Slots
  /\ slot[cur] = NoConn \/ cur \notin ready
  /\ NextSlot
  /\ UNCHANGED <<conn, clientVars, inq, outq, backlog, slot, buf, ready, handled>>

TurnDone ==
  /\ pc = "serve" /\ cur \notin Slots
  /\ pc' = "select" /\ ready' = {}
  /\ UNCHANGED <<conn, clientVars, inq, outq, backlog, slot, buf, cur, handled>>

Serving == pc = "serve" /\ cur \in ready /\ slot[cur] # NoConn

(* What read() may put into the buffer. *)
Room_Whole == BufSize

Room == BufSize - Len(buf[cur])

(* read() finds something: as much of it as fits. *)
ReadSome ==
  /\ Serving /\ Room > 0
  /\ LET q == inq[slot[cur]]
         n == IF Len(q) < Room THEN Len(q) ELSE Room
     IN  /\ q # <<>>
         /\ buf' = [buf EXCEPT ![cur] = @ \o SubSeq(q, 1, n)]
         /\ inq' = [inq EXCEPT ![slot[cur]] = SubSeq(q, n + 1, Len(q))]
  /\ pc' = "drain"
  /\ UNCHANGED <<conn, clientVars, outq, backlog, slot, cur, ready, handled>>

(* The buffer is full (which the code says cannot happen: BufferNeverFull) *)
(* or read() finds nothing.  Only EAGAIN leaves the connection open.       *)
ReadNothing ==
  /\ Serving /\ ~(Room > 0 /\ inq[slot[cur]] # <<>>)
  /\ IF Room > 0 /\ ~hungup[slot[cur]]
       THEN UNCHANGED <<conn, inq, slot, buf>>
       ELSE close_client(cur)
  /\ NextSlot
  /\ UNCHANGED <<clientVars, outq, backlog, ready, handled>>

-----------------------------------------------------------------------------
(* drain_frames: the frame at the front of the buffer. *)
First == Head(buf[cur])

HasHeader   == pc = "drain" /\ buf[cur] # <<>>
LengthOk    == First.len > 0 /\ First.len <= MaxLen
HasFrame    == HasHeader /\ LengthOk /\ Len(buf[cur]) >= 1 + First.len

(* Header or payload incomplete: back to read(). *)
WaitForMore ==
  /\ pc = "drain"
  /\ buf[cur] # <<>> => LengthOk /\ Len(buf[cur]) < 1 + First.len
  /\ pc' = "serve"
  /\ UNCHANGED <<conn, clientVars, inq, outq, backlog, slot, buf, cur, ready, handled>>

BadLength ==
  /\ HasHeader /\ ~LengthOk
  /\ close_client(cur) /\ NextSlot
  /\ UNCHANGED <<clientVars, outq, backlog, ready, handled>>

(* The memmove that takes a finished frame out of the buffer. *)
Consume == buf' = [buf EXCEPT ![cur] = SubSeq(@, 2 + First.len, Len(@))]

handle_frame_Silent ==
  /\ HasFrame
  /\ \/ /\ First.body \in Closing
        /\ close_client(cur) /\ NextSlot
        /\ UNCHANGED handled
     \/ /\ First.body \in Answered
        /\ handled' = [handled EXCEPT ![First.conn] = Append(@, First.id)]
        /\ IF First.body = "request" THEN pc' = "send" /\ UNCHANGED buf
                                    ELSE pc' = "drain" /\ Consume
        /\ UNCHANGED <<conn, inq, slot, cur>>
  /\ UNCHANGED <<clientVars, outq, backlog, ready>>

(* handle_frame up to send_envelope. *)
handle_frame ==
  /\ HasFrame
  /\ \/ /\ First.body \in Closing
        /\ close_client(cur) /\ NextSlot
        /\ UNCHANGED handled
     \/ /\ First.body \in Answered
        /\ handled' = [handled EXCEPT ![First.conn] = Append(@, First.id)]
        /\ pc' = "send"
        /\ UNCHANGED <<conn, inq, slot, buf, cur>>
  /\ UNCHANGED <<clientVars, outq, backlog, ready>>

Answer  == Append(outq[slot[cur]], <<First.conn, First.id>>)
Full    == Len(outq[slot[cur]]) >= SocketRoom

send_all_Defers ==
  /\ pc = "send" /\ ~hungup[slot[cur]]
  /\ IF Full THEN UNCHANGED <<outq, buf>>
             ELSE outq' = [outq EXCEPT ![slot[cur]] = Answer] /\ Consume
  /\ pc' = "drain"
  /\ UNCHANGED <<conn, clientVars, inq, backlog, slot, cur, ready, handled>>

send_all_OneFrame ==
  /\ pc = "send" /\ ~hungup[slot[cur]] /\ ~Full
  /\ outq' = [outq EXCEPT ![slot[cur]] = Answer]
  /\ Consume
  /\ pc' = "serve"
  /\ UNCHANGED <<conn, clientVars, inq, backlog, slot, cur, ready, handled>>

(* send_all writes the answer when the socket takes it; then the frame is  *)
(* moved out of the buffer.  Nothing is enabled while the socket is full:  *)
(* send_all polls and tries again, and the loop waits with it.             *)
send_all ==
  /\ pc = "send" /\ ~hungup[slot[cur]] /\ ~Full
  /\ outq' = [outq EXCEPT ![slot[cur]] = Answer]
  /\ Consume
  /\ pc' = "drain"
  /\ UNCHANGED <<conn, clientVars, inq, backlog, slot, cur, ready, handled>>

(* The client is gone: write fails and the connection is closed. *)
SendFails ==
  /\ pc = "send" /\ hungup[slot[cur]]
  /\ close_client(cur) /\ NextSlot
  /\ UNCHANGED <<clientVars, outq, backlog, ready, handled>>

-----------------------------------------------------------------------------
(* ipc_server_stop, after the loop has ended; ipc_server_start in the next *)
(* process.  A connection still in the listen queue is closed with it.     *)
ipc_server_stop ==
  /\ pc = "select"
  /\ pc' = "stopped"
  /\ conn' = [c \in Conns |-> IF conn[c] \in {"backlog", "open"} THEN "closed" ELSE conn[c]]
  /\ slot' = [s \in Slots |-> NoConn] /\ buf' = [s \in Slots |-> <<>>]
  /\ backlog' = <<>> /\ inq' = [c \in Conns |-> <<>>]
  /\ UNCHANGED <<clientVars, outq, cur, ready, handled>>

ipc_server_start ==
  /\ pc = "stopped"
  /\ pc' = "select"
  /\ UNCHANGED <<conn, clientVars, inq, outq, backlog, slot, buf, cur, ready, handled>>

-----------------------------------------------------------------------------
(* What the loop does by itself, once it has been started. *)
Server ==
  \/ Select \/ AcceptOne \/ AcceptDone \/ SkipSlot \/ TurnDone
  \/ ReadSome \/ ReadNothing
  \/ WaitForMore \/ BadLength \/ handle_frame \/ send_all \/ SendFails

Next ==
  \/ \E c \in Conns : Client(c)
  \/ Server
  \/ ipc_server_stop \/ ipc_server_start

Spec == Init /\ [][Next]_vars

(* The process is scheduled. *)
LiveSpec == Spec /\ WF_vars(Server)

(* In addition every client keeps reading its answers. *)
ReadingSpec == LiveSpec /\ \A c \in Conns : WF_vars(ReadAnswer(c))

-----------------------------------------------------------------------------
(* Slots, buffers and queues stay within their sizes: read() never writes  *)
(* past the end of a connection's buffer.                                  *)
TypeOK ==
  /\ conn \in [Conns -> {"new", "backlog", "open", "closed"}]
  /\ hungup \in [Conns -> BOOLEAN]
  /\ frames \in [Conns -> 0..MaxFrames] /\ unsent \in [Conns -> Nat]
  /\ slot \in [Slots -> Conns \cup {NoConn}]
  /\ \A s \in Slots : Len(buf[s]) <= BufSize
  /\ \A c \in Conns : Len(outq[c]) <= SocketRoom
  /\ pc \in {"select", "accept", "serve", "drain", "send", "stopped"}
  /\ cur \in 1..(IPC_MAX_CLIENTS + 1)
  /\ ready \subseteq Slots

(* The answers a connection has received or can still read are those to    *)
(* its own frames, the first to the first and so on, none twice and none   *)
(* left out: also with pipelined frames, frames in pieces, and a slot      *)
(* reused after a client that hung up in the middle of a frame.            *)
AnswersInOrder ==
  \A c \in Conns :
    LET a == got[c] \o outq[c] IN \A i \in DOMAIN a : a[i] = <<c, i>>

(* A request is acted upon at most once, and only if it was sent whole. *)
HandledOnce ==
  \A c \in Conns : \A i, j \in DOMAIN handled[c] :
    /\ handled[c][i] = handled[c][j] => i = j
    /\ handled[c][i] < frames[c] \/ (handled[c][i] = frames[c] /\ unsent[c] = 0)

(* "Should not happen: the buffer is sized for two max frames and we       *)
(* always drain complete frames before returning here."                    *)
BufferNeverFull == pc = "serve" => \A s \in Slots : Len(buf[s]) < BufSize

(* A connection the server regards as open has exactly one slot, and a     *)
(* closed one has none, so no slot leaks when clients come and go.         *)
SlotsMatch ==
  \A c \in Conns :
    Cardinality({s \in Slots : slot[s] = c}) = IF conn[c] = "open" THEN 1 ELSE 0

(* "it never blocks" (ipc_server.c, file comment): whatever clients do,    *)
(* the loop gets back to select().                                         *)
LoopTurns == []<>(pc \in {"select", "stopped"})

(* A client that waits in the listen queue is taken in or turned away, as  *)
(* long as clients read their answers and no client sends without end      *)
(* (MaxFrames), for service_client reads until there is nothing.           *)
BacklogServed == \A c \in Conns : conn[c] = "backlog" ~> conn[c] # "backlog"

(* Under the same conditions a frame sent whole is answered, or the        *)
(* connection is closed: no request stays in a buffer behind one that came *)
(* in with it.                                                             *)
Waiting(c) ==
  /\ conn[c] = "open" /\ unsent[c] = 0
  /\ Len(got[c]) < frames[c]
NoRequestForgotten == \A c \in Conns : Waiting(c) ~> ~Waiting(c)
=============================================================================
