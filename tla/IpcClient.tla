----------------------------- MODULE IpcClient -----------------------------
(***************************************************************************)
(* The Rust client of the IPC socket (rust-app/src/ipc/mod.rs): request    *)
(* ids, frames written and read in two pieces, and the errors a call may   *)
(* end with.  The subagent is at the other end, by the contract IpcServer  *)
(* is checked for: whole requests answered in order under their own id,    *)
(* or the connection closed.  A frame is two units, prefix and payload; a  *)
(* payload carries the serial number of its call, which the code does not  *)
(* have, to tell whose request or answer it is.                            *)
(***************************************************************************)
EXTENDS Integers, Sequences, FiniteSets

CONSTANTS IdWidth,    \* request ids are 0..IdWidth-1 (2^32 in the code)
          MaxCalls    \* bound: calls made, over all connections

ASSUME ClientAssumption == IdWidth \in Nat \ {0, 1, 2} /\ MaxCalls \in Nat

Kinds == {"ping", "write_config", "read_config", "send_trap"}

(* A request by its encoded size: one the server decodes, one with a field *)
(* over its nanopb max_size, one over MAX_FRAME_LEN.                       *)
Sizes == {"fits", "field too long", "frame too long"}

Open == "open"

VARIABLES next_request_id,
          call,      \* the call in progress or the last one, with its result
          up, down,  \* units on the way to the server and to the client
          conn,      \* Open, or why the server closed it
          serial,    \* calls made so far
          applied    \* serials the server acted upon, in order

vars == <<next_request_id, call, up, down, conn, serial, applied>>

(* pc is where the call is; result its outcome, with the serial of the     *)
(* answer when it is Ok.                                                   *)
NoCall == [pc |-> "idle", serial |-> 0, id |-> 0, kind |-> "ping", size |-> "fits",
           result |-> "none", of |-> 0]

Init ==
  /\ next_request_id = 1 /\ call = NoCall
  /\ up = <<>> /\ down = <<>> /\ conn = Open
  /\ serial = 0 /\ applied = <<>>

(* A new IpcClient: its own stream, ids from 1 again. *)
connect ==
  /\ call.pc = "idle" /\ conn # Open
  /\ next_request_id' = 1 /\ call' = NoCall
  /\ up' = <<>> /\ down' = <<>> /\ conn' = Open
  /\ UNCHANGED <<serial, applied>>

-----------------------------------------------------------------------------
(* The id of a call and the counter after it; fetch_add wraps. *)
fresh_request_id_NoSkip(n) == [id |-> n, next |-> (n + 1) % IdWidth]

fresh_request_id(n) ==
  IF n = 0 THEN [id |-> 1, next |-> 2 % IdWidth]
           ELSE [id |-> n, next |-> (n + 1) % IdWidth]

(* ping, write_config, read_config, send_trap up to roundtrip. *)
Begin(kind, size) ==
  /\ call.pc = "idle" /\ serial < MaxCalls
  /\ size # "fits" => kind # "ping"
  /\ LET f == fresh_request_id(next_request_id)
     IN  /\ next_request_id' = f.next
         /\ call' = [pc |-> "write", serial |-> serial + 1, id |-> f.id, kind |-> kind,
                     size |-> size, result |-> "none", of |-> 0]
  /\ serial' = serial + 1
  /\ UNCHANGED <<up, down, conn, applied>>

End(result) == call' = [call EXCEPT !.pc = "idle", !.result = result]

Prefix(c)   == [unit |-> "prefix", size |-> c.size]
Request(c)  == [unit |-> "payload", id |-> c.id, body |-> c.kind, size |-> c.size,
                serial |-> c.serial]

write_frame_Late ==
  /\ call.pc = "write"
  /\ IF conn # Open
       THEN End("Io") /\ UNCHANGED up
       ELSE /\ up' = Append(up, Prefix(call))
            /\ IF call.size = "frame too long"
                 THEN End("FrameTooLarge")
                 ELSE call' = [call EXCEPT !.pc = "write payload"]
  /\ UNCHANGED <<next_request_id, down, conn, serial, applied>>

(* The size check and the first write_all.  Writing to a socket the server *)
(* has closed fails with EPIPE.                                            *)
write_frame ==
  /\ call.pc = "write"
  /\ CASE call.size = "frame too long" -> End("FrameTooLarge") /\ UNCHANGED up
       [] call.size # "frame too long" /\ conn # Open -> End("Io") /\ UNCHANGED up
       [] OTHER -> /\ up' = Append(up, Prefix(call))
                   /\ call' = [call EXCEPT !.pc = "write payload"]
  /\ UNCHANGED <<next_request_id, down, conn, serial, applied>>

(* The second write_all. *)
write_payload ==
  /\ call.pc = "write payload"
  /\ IF conn = Open
       THEN up' = Append(up, Request(call)) /\ call' = [call EXCEPT !.pc = "read"]
       ELSE End("Io") /\ UNCHANGED up
  /\ UNCHANGED <<next_request_id, down, conn, serial, applied>>

-----------------------------------------------------------------------------
(* What roundtrip and the call make of an answer. *)
Verdict(answer) ==
  CASE answer.id # call.id     -> "RequestIdMismatch"
    [] answer.id = call.id /\ answer.body # call.kind -> "UnexpectedBody"
    [] OTHER -> "Ok"

(* Both read_exact calls succeed.  (They wait for the rest of a frame that *)
(* arrives in pieces, and retry when a signal interrupts them.)            *)
read_frame ==
  /\ call.pc = "read" /\ Len(down) >= 2
  /\ call' = [call EXCEPT !.pc = "idle", !.result = Verdict(down[2]), !.of = down[2].serial]
  /\ down' = SubSeq(down, 3, Len(down))
  /\ UNCHANGED <<next_request_id, up, conn, serial, applied>>

read_fails_Retries ==
  /\ call.pc = "read" /\ Len(down) < 2 /\ conn # Open
  /\ UNCHANGED vars

(* map_eof: the stream ends before or inside the frame.  A close that      *)
(* discards unread requests shows as ECONNRESET instead.                   *)
read_fails ==
  /\ call.pc = "read" /\ Len(down) < 2 /\ conn # Open
  /\ \E e \in {"ConnectionClosed", "Io"} : End(e)
  /\ down' = <<>>
  /\ UNCHANGED <<next_request_id, up, conn, serial, applied>>

-----------------------------------------------------------------------------
(* The server's end. *)
Close(why) == conn' = why /\ up' = <<>>

HasRequest == conn = Open /\ Len(up) >= 2 /\ up[1].size # "frame too long"

Answer(r) == <<[unit |-> "prefix", size |-> "fits"],
               [unit |-> "payload", id |-> r.id, body |-> r.body, serial |-> r.serial]>>

(* One request decoded, acted upon and answered; the process may be killed *)
(* before the answer is written, or between its bytes.                     *)
Serve ==
  /\ HasRequest /\ up[2].size = "fits"
  /\ applied' = Append(applied, up[2].serial)
  /\ \/ down' = down \o Answer(up[2]) /\ up' = SubSeq(up, 3, Len(up)) /\ UNCHANGED conn
     \/ \E n \in 0..1 : down' = down \o SubSeq(Answer(up[2]), 1, n) /\ Close("subagent gone")
  /\ UNCHANGED <<next_request_id, call, serial>>

Complaint == IF up[1].size = "frame too long" THEN "bad prefix" ELSE "malformed envelope"

Refuse ==
  /\ conn = Open /\ up # <<>>
  /\ up[1].size = "frame too long" \/ (HasRequest /\ up[2].size = "field too long")
  /\ Close(Complaint)
  /\ UNCHANGED <<next_request_id, call, down, serial, applied>>

(* No slot free, or the subagent stops. *)
Drop ==
  /\ conn = Open /\ Close("subagent gone")
  /\ UNCHANGED <<next_request_id, call, down, serial, applied>>

Next ==
  \/ connect \/ (\E k \in Kinds, s \in Sizes : Begin(k, s))
  \/ write_frame \/ write_payload \/ read_frame \/ read_fails
  \/ Serve \/ Refuse \/ Drop

Client == write_frame \/ write_payload \/ read_frame \/ read_fails

Spec == Init /\ [][Next]_vars

(* The client runs, and the subagent serves a request or closes. *)
FairSpec == Spec /\ WF_vars(Client) /\ WF_vars(Serve \/ Refuse)

-----------------------------------------------------------------------------
(* Every call ends for a reason of its own, whatever became of the calls   *)
(* before it on the same connection: Ok with the answer to this very call, *)
(* which the server has acted upon once; FrameTooLarge with nothing sent;  *)
(* an I/O error only when the subagent went away or refused one of this    *)
(* client's requests.  So a call refused for its size leaves the stream    *)
(* usable, and no answer is left behind for a later call to trip over.     *)
OwnOutcome ==
  call.pc = "idle" /\ call.serial # 0 =>
    LET times == Cardinality({i \in DOMAIN applied : applied[i] = call.serial})
    IN  \/ call.result = "Ok" /\ call.of = call.serial /\ times = 1
        \/ call.result = "FrameTooLarge" /\ call.size = "frame too long" /\ times = 0
        \/ /\ call.result \in {"Io", "ConnectionClosed"}
           /\ conn \in {"subagent gone", "malformed envelope"} /\ times <= 1

(* "0 is reserved by the proto as ""don't care""" (mod.rs:69): also after  *)
(* the counter has wrapped no request goes out under id 0, nor under the   *)
(* id of the call before it, whose answer could then pass for its own.     *)
IdsDistinct ==
  [][serial' # serial =>
       call'.id # 0 /\ (call.serial # 0 => call'.id # call.id)]_vars

(* A call returns: the client never waits for an answer that cannot come. *)
CallReturns == call.pc # "idle" ~> call.pc = "idle"
=============================================================================
