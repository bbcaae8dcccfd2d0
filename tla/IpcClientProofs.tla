-------------------------- MODULE IpcClientProofs --------------------------
(***************************************************************************)
(* Proofs about IpcClient for any number of calls and any width of request *)
(* ids: every call ends with its own outcome, and no id is 0 or the id of  *)
(* the call before.                                                        *)
(***************************************************************************)
EXTENDS IpcClient, FiniteSetTheorems, SequenceTheorems, TLAPS

Ids == 0 .. (IdWidth - 1)

Results == {"none", "Ok", "RequestIdMismatch", "UnexpectedBody", "FrameTooLarge", "Io",
            "ConnectionClosed"}

Calls == [pc : {"idle", "write", "write payload", "read"}, serial : Nat, id : Ids, kind : Kinds,
          size : Sizes, result : Results, of : Nat]

Closed == {"subagent gone", "malformed envelope"}

TypeInv ==
  /\ next_request_id \in Ids /\ call \in Calls
  /\ conn \in {Open} \cup Closed
  /\ serial \in Nat /\ applied \in Seq(Nat)

(* Ids: the next one follows the last, modulo their width. *)
IdInv ==
  call.serial # 0 => call.id # 0 /\ next_request_id = (call.id + 1) % IdWidth

(* A request is acted upon once, in its turn; the call in progress is the  *)
(* last one made.                                                          *)
Applied(n) == \E i \in DOMAIN applied : applied[i] = n

OnceInv ==
  /\ \A i, j \in DOMAIN applied : applied[i] = applied[j] => i = j
  /\ \A i \in DOMAIN applied : applied[i] \in 1 .. serial
  /\ call.serial \in {0, serial}
  /\ call.pc # "idle" => call.serial = serial /\ serial # 0

(* What is on its way between the two ends, by where the call is. *)
WireInv ==
  /\ conn # Open => up = <<>>
  /\ call.pc \in {"idle", "write"} => up = <<>> /\ down = <<>>
  /\ call.pc = "write payload" =>
       /\ down = <<>> /\ call.size # "frame too long"
       /\ conn = Open => up = <<Prefix(call)>>
  /\ call.pc \in {"write", "write payload"} => ~Applied(serial)
  /\ call.pc = "read" =>
       /\ call.size # "frame too long"
       /\ \/ /\ up = <<Prefix(call), Request(call)>> /\ conn = Open
             /\ down = <<>> /\ ~Applied(serial)
          \/ /\ up = <<>> /\ Applied(serial)
             /\ down = Answer(Request(call))
          \/ /\ conn # Open /\ up = <<>> /\ Len(down) < 2

(* How a call ended. *)
EndInv ==
  call.pc = "idle" /\ call.serial # 0 =>
    \/ call.result = "Ok" /\ call.of = call.serial /\ Applied(call.serial)
    \/ call.result = "FrameTooLarge" /\ call.size = "frame too long" /\ ~Applied(call.serial)
    \/ call.result \in {"Io", "ConnectionClosed"} /\ conn \in Closed

ClientInv == TypeInv /\ IdInv /\ OnceInv /\ WireInv /\ EndInv

-----------------------------------------------------------------------------
(* The id after n, when the counter wraps and when it does not. *)
LEMMA NextId ==
  ASSUME NEW n \in Ids
  PROVE  (n + 1) % IdWidth = IF n + 1 = IdWidth THEN 0 ELSE n + 1
<1> DEFINE q == (n + 1) \div IdWidth
           r == (n + 1) % IdWidth
<1>1. /\ q \in Int /\ r \in 0 .. (IdWidth - 1) /\ n + 1 = IdWidth * q + r
      /\ IdWidth \in Nat /\ IdWidth > 2 /\ n + 1 \in 1 .. IdWidth
  BY ClientAssumption DEF Ids
<1> HIDE DEF q, r
<1>2. q >= 0
  <2> SUFFICES ASSUME q < 0 PROVE FALSE
    BY <1>1
  <2>1. q + 1 <= 0 /\ IdWidth * (q + 1) <= 0 /\ IdWidth * (q + 1) = IdWidth * q + IdWidth
    BY <1>1
  <2> QED BY <1>1, <2>1
<1>3. q <= 1
  <2> SUFFICES ASSUME q > 1 PROVE FALSE
    BY <1>1
  <2>1. q - 2 >= 0 /\ IdWidth * (q - 2) >= 0 /\ IdWidth * (q - 2) = IdWidth * q - 2 * IdWidth
    BY <1>1
  <2> QED BY <1>1, <2>1
<1>4. CASE q = 0
  BY <1>1, <1>4 DEF r
<1>5. CASE q = 1
  BY <1>1, <1>5 DEF r
<1> QED BY <1>1, <1>2, <1>3, <1>4, <1>5

(* What a fresh id is: never 0, and the counter is moved past it. *)
LEMMA FreshId ==
  ASSUME NEW n \in Ids
  PROVE  LET f == fresh_request_id(n)
         IN  /\ f.id \in Ids \ {0} /\ f.next \in Ids /\ f.next = (f.id + 1) % IdWidth
             /\ f.id = IF n = 0 THEN 1 ELSE n
<1>1. 1 \in Ids /\ IdWidth \in Nat /\ IdWidth > 2 /\ 1 + 1 = 2
  BY ClientAssumption DEF Ids
<1>2. \A m \in Ids : (m + 1) % IdWidth \in Ids
  BY <1>1, NextId DEF Ids
<1>3. CASE n = 0
  <2>1. fresh_request_id(n) = [id |-> 1, next |-> 2 % IdWidth]
    BY <1>3 DEF fresh_request_id
  <2> QED BY <1>1, <1>2, <1>3, <2>1
<1>4. CASE n # 0
  <2>1. fresh_request_id(n) = [id |-> n, next |-> (n + 1) % IdWidth]
    BY <1>4 DEF fresh_request_id
  <2> QED BY <1>1, <1>2, <1>4, <2>1
<1> QED BY <1>3, <1>4

(* The last call's id is not the next one's: one more than it, modulo the  *)
(* width, or 1 when that is 0.                                             *)
LEMMA FreshIdDiffers ==
  ASSUME NEW m \in Ids, m # 0, NEW n, n = (m + 1) % IdWidth
  PROVE  n \in Ids /\ fresh_request_id(n).id # m
<1>1. n = IF m + 1 = IdWidth THEN 0 ELSE m + 1
  BY NextId
<1>2. n \in Ids
  BY <1>1, ClientAssumption DEF Ids
<1>3. fresh_request_id(n).id = IF n = 0 THEN 1 ELSE n
  BY <1>2, FreshId
<1> QED BY <1>1, <1>2, <1>3, ClientAssumption DEF Ids

(* The wire holds at most one frame each way, so a frame is its two units. *)
LEMMA Frames ==
  ASSUME NEW a, NEW b
  PROVE  /\ Len(<<a, b>>) = 2 /\ <<a, b>>[1] = a /\ <<a, b>>[2] = b
         /\ SubSeq(<<a, b>>, 3, Len(<<a, b>>)) = <<>>
         /\ Append(<<a>>, b) = <<a, b>> /\ Append(<<>>, a) = <<a>>
         /\ <<>> \o <<a, b>> = <<a, b>> /\ SubSeq(<<a, b>>, 1, 0) = <<>>
         /\ SubSeq(<<a, b>>, 1, 1) = <<a>> /\ <<>> \o <<>> = <<>> /\ <<>> \o <<a>> = <<a>>
         /\ Len(<<a>>) = 1 /\ Len(<<>>) = 0 /\ <<a>> # <<>> /\ <<a>>[1] = a
<1> DEFINE S == {a, b}
           s == <<a, b>>
           h == <<a>>
           A == Append(<<a>>, b)
           E == Append(<<>>, a)
           P == SubSeq(<<a, b>>, 1, 1)
<1>1. /\ s \in Seq(S) /\ Len(s) = 2 /\ s[1] = a /\ s[2] = b
      /\ h \in Seq(S) /\ Len(h) = 1 /\ h[1] = a
      /\ <<>> \in Seq(S) /\ Len(<<>>) = 0 /\ <<a>> # <<>>
  OBVIOUS
<1>2. <<>> \o <<a, b>> = <<a, b>> /\ <<>> \o <<>> = <<>> /\ <<>> \o <<a>> = <<a>>
  BY <1>1, ConcatEmptySeq
<1>3. SubSeq(s, 3, 2) = <<>> /\ SubSeq(s, 1, 0) = <<>>
  OBVIOUS
<1>4. A = s
  <2>1. A \in Seq(S) /\ Len(A) = 2 /\ A[1] = a /\ A[2] = b
    BY <1>1, AppendProperties
  <2>2. \A i \in 1 .. 2 : A[i] = s[i]
    BY <1>1, <2>1
  <2> HIDE DEF A, s, S
  <2> QED BY <1>1, <2>1, <2>2, SeqEqual
<1>5. E = h
  <2>1. E \in Seq(S) /\ Len(E) = 1 /\ E[1] = a
    BY <1>1, AppendProperties
  <2>2. \A i \in 1 .. 1 : E[i] = h[i]
    BY <1>1, <2>1
  <2> HIDE DEF E, h, S
  <2> QED BY <1>1, <2>1, <2>2, SeqEqual
<1>6. P = h
  <2>1. P \in Seq(S) /\ Len(P) = 1 /\ P[1] = a
    <3>1. \A i \in 1 .. 1 : s[i] \in S
      BY <1>1
    <3> QED BY <1>1, <3>1, SubSeqProperties
  <2>2. \A i \in 1 .. 1 : P[i] = h[i]
    BY <1>1, <2>1
  <2> HIDE DEF P, h, S
  <2> QED BY <1>1, <2>1, <2>2, SeqEqual
<1> QED BY <1>1, <1>2, <1>3, <1>4, <1>5, <1>6

-----------------------------------------------------------------------------
(* What the server finds on the wire: the one request of the call that     *)
(* waits for its answer, not acted upon yet.                               *)
LEMMA OnTheWire ==
  ASSUME ClientInv, conn = Open, up # <<>>
  PROVE  /\ call.pc \in {"write payload", "read"} /\ down = <<>> /\ ~Applied(serial)
         /\ call.serial = serial /\ serial # 0
         /\ call.size # "frame too long" /\ up[1].size = call.size
         /\ Len(up) >= 2 => /\ call.pc = "read" /\ up = <<Prefix(call), Request(call)>>
                            /\ up[2] = Request(call) /\ SubSeq(up, 3, Len(up)) = <<>>
<1>1. call.pc \in {"write payload", "read"}
  BY DEF ClientInv, WireInv, TypeInv, Calls
<1>2. CASE call.pc = "write payload"
  <2>1. up = <<Prefix(call)>> /\ down = <<>> /\ ~Applied(serial) /\ call.size # "frame too long"
    BY <1>2 DEF ClientInv, WireInv
  <2>2. Len(up) = 1 /\ up[1] = Prefix(call)
    BY <2>1, Frames
  <2>3. ~(Len(up) >= 2)
    BY <2>2
  <2>4. up[1].size = call.size
    BY <2>2 DEF Prefix
  <2>5. call.serial = serial /\ serial # 0
    BY <1>2 DEF ClientInv, OnceInv
  <2> QED BY <1>1, <2>1, <2>3, <2>4, <2>5
<1>3. CASE call.pc = "read"
  <2>1. /\ up = <<Prefix(call), Request(call)>> /\ down = <<>> /\ ~Applied(serial)
        /\ call.size # "frame too long"
    BY <1>3 DEF ClientInv, WireInv
  <2>2. up[1] = Prefix(call) /\ up[2] = Request(call) /\ SubSeq(up, 3, Len(up)) = <<>>
    <3> DEFINE a == Prefix(call)
               b == Request(call)
    <3>1. up = <<a, b>>
      BY <2>1
    <3> HIDE DEF a, b
    <3>2. /\ <<a, b>>[1] = a /\ <<a, b>>[2] = b
          /\ SubSeq(<<a, b>>, 3, Len(<<a, b>>)) = <<>>
      BY Frames
    <3>3. up[1] = a /\ up[2] = b /\ SubSeq(up, 3, Len(up)) = <<>>
      BY <3>1, <3>2
    <3> QED BY <3>3 DEF a, b
  <2>3. up[1].size = call.size
    BY <2>2 DEF Prefix
  <2>4. call.serial = serial /\ serial # 0
    BY <1>3 DEF ClientInv, OnceInv
  <2> QED BY <1>1, <1>3, <2>1, <2>2, <2>3, <2>4
<1> QED BY <1>1, <1>2, <1>3

(* A request acted upon: what is answered, and to whom. *)
LEMMA ServeStep ==
  ASSUME ClientInv, Serve
  PROVE  /\ call.pc = "read" /\ ~Applied(serial) /\ call.serial = serial /\ serial # 0
         /\ applied' = Append(applied, serial) /\ up' = <<>>
         /\ \/ conn' = Open /\ down' = Answer(Request(call))
            \/ conn' = "subagent gone" /\ Len(down') < 2
<1>1. /\ call.pc = "read" /\ down = <<>> /\ ~Applied(serial) /\ call.serial = serial /\ serial # 0
      /\ up[2] = Request(call) /\ SubSeq(up, 3, Len(up)) = <<>> /\ conn = Open
  <2>1. conn = Open /\ Len(up) >= 2
    BY DEF Serve, HasRequest
  <2>2. up # <<>>
    BY <2>1
  <2> QED BY <2>1, <2>2, OnTheWire
<1>2. applied' = Append(applied, serial)
  <2>1. Request(call).serial = call.serial
    BY DEF Request
  <2> QED BY <1>1, <2>1 DEF Serve
<1>3. CASE down' = down \o Answer(up[2]) /\ up' = SubSeq(up, 3, Len(up)) /\ UNCHANGED conn
  <2>1. down' = Answer(Request(call))
    BY <1>1, <1>3, Frames DEF Answer
  <2> QED BY <1>1, <1>2, <1>3, <2>1
<1>4. CASE \E n \in 0..1 : down' = down \o SubSeq(Answer(up[2]), 1, n) /\ Close("subagent gone")
  <2>1. PICK n \in 0..1 : down' = <<>> \o SubSeq(Answer(up[2]), 1, n)
    BY <1>1, <1>4
  <2>2. Len(down') < 2
    <3>1. n = 0 \/ n = 1
      BY <2>1
    <3>2. CASE n = 0
      BY <2>1, <3>2, Frames DEF Answer
    <3>3. CASE n = 1
      BY <2>1, <3>3, Frames DEF Answer
    <3> QED BY <3>1, <3>2, <3>3
  <2> QED BY <1>1, <1>2, <1>4, <2>2 DEF Close
<1> QED BY <1>3, <1>4 DEF Serve

(* A refused request: the one way is a field that is too long. *)
LEMMA RefuseStep ==
  ASSUME ClientInv, Refuse
  PROVE  /\ call.pc = "read" /\ conn' = "malformed envelope" /\ up' = <<>> /\ down = <<>>
         /\ UNCHANGED <<next_request_id, call, down, serial, applied>>
<1>1. conn = Open /\ up # <<>>
  BY DEF Refuse
<1>2. up[1].size # "frame too long"
  BY <1>1, OnTheWire
<1>3. call.pc = "read" /\ down = <<>>
  BY <1>1, <1>2, OnTheWire DEF Refuse, HasRequest
<1> QED BY <1>2, <1>3 DEF Refuse, Close, Complaint

(* What an answer is worth to the call that made the request. *)
LEMMA AnswerRead ==
  ASSUME ClientInv, read_frame
  PROVE  /\ call' = [call EXCEPT !.pc = "idle", !.result = "Ok", !.of = serial]
         /\ down' = <<>> /\ up = <<>> /\ Applied(serial) /\ call.serial = serial /\ serial # 0
<1>1. call.pc = "read" /\ Len(down) >= 2 /\ call.serial = serial /\ serial # 0
  BY DEF read_frame, ClientInv, OnceInv
<1>2. up = <<>> /\ Applied(serial) /\ down = Answer(Request(call))
  <2>1. down # <<>> /\ ~(Len(down) < 2)
    BY <1>1
  <2> QED BY <1>1, <2>1 DEF ClientInv, WireInv
<1>3. /\ down[2] = [unit |-> "payload", id |-> call.id, body |-> call.kind, serial |-> call.serial]
      /\ SubSeq(down, 3, Len(down)) = <<>>
  BY <1>2, Frames DEF Answer, Request
<1>4. Verdict(down[2]) = "Ok" /\ down[2].serial = serial
  <2>1. down[2].id = call.id /\ down[2].body = call.kind /\ down[2].serial = call.serial
    BY <1>3
  <2> QED BY <1>1, <2>1 DEF Verdict
<1> QED BY <1>1, <1>2, <1>3, <1>4 DEF read_frame

-----------------------------------------------------------------------------
(* A call that ends keeps all but its place and its result. *)
LEMMA CallEnds ==
  ASSUME TypeInv, NEW r \in Results, End(r)
  PROVE  /\ call' \in Calls /\ call'.pc = "idle" /\ call'.result = r /\ call'.serial = call.serial
         /\ call'.id = call.id /\ call'.size = call.size
  BY DEF TypeInv, Calls, End

(* A call that moves on keeps all but its place. *)
LEMMA CallMoves ==
  ASSUME TypeInv, NEW p \in {"write payload", "read"}, call' = [call EXCEPT !.pc = p]
  PROVE  /\ call' \in Calls /\ call'.pc = p /\ call'.serial = call.serial
         /\ call'.id = call.id /\ call'.size = call.size
         /\ Prefix(call)' = Prefix(call) /\ Request(call)' = Request(call)
<1>1. /\ call' \in Calls /\ call'.pc = p /\ call'.serial = call.serial
      /\ call'.id = call.id /\ call'.size = call.size /\ call'.kind = call.kind
  BY DEF TypeInv, Calls
<1> QED BY <1>1 DEF Prefix, Request

LEMMA NoCallIsIdle == NoCall \in Calls /\ NoCall.pc = "idle" /\ NoCall.serial = 0
<1>1. 0 \in Ids
  BY ClientAssumption DEF Ids
<1> QED BY <1>1 DEF NoCall, Calls, Kinds, Sizes, Results

LEMMA InitClient == Init => ClientInv
<1> SUFFICES ASSUME Init PROVE ClientInv
  OBVIOUS
<1>1. NoCall \in Calls /\ NoCall.pc = "idle" /\ NoCall.serial = 0
  BY NoCallIsIdle
<1>2. 1 \in Ids
  BY ClientAssumption DEF Ids
<1>3. <<>> \in Seq(Nat) /\ DOMAIN <<>> = {}
  OBVIOUS
<1>4. TypeInv
  BY <1>1, <1>2, <1>3 DEF Init, TypeInv
<1>5. IdInv /\ EndInv
  BY <1>1 DEF Init, IdInv, EndInv
<1>6. OnceInv
  BY <1>1, <1>3 DEF Init, OnceInv
<1>7. WireInv
  BY <1>1 DEF Init, WireInv
<1> QED BY <1>4, <1>5, <1>6, <1>7 DEF ClientInv

(* A new connection starts with nothing on the wire and no call. *)
LEMMA StepConnect == ClientInv /\ connect => ClientInv'
<1> SUFFICES ASSUME ClientInv, connect PROVE ClientInv'
  OBVIOUS
<1>1. /\ call' \in Calls /\ call'.pc = "idle" /\ call'.serial = 0
      /\ next_request_id' = 1 /\ up' = <<>> /\ down' = <<>> /\ conn' = Open
      /\ serial' = serial /\ applied' = applied
  BY NoCallIsIdle DEF connect
<1>2. TypeInv'
  <2>1. 1 \in Ids
    BY ClientAssumption DEF Ids
  <2> QED BY <1>1, <2>1 DEF ClientInv, TypeInv
<1>3. IdInv' /\ EndInv'
  BY <1>1 DEF IdInv, EndInv
<1>4. OnceInv'
  BY <1>1 DEF ClientInv, OnceInv
<1>5. WireInv'
  BY <1>1 DEF WireInv
<1> QED BY <1>2, <1>3, <1>4, <1>5 DEF ClientInv

(* A call is the latest one, its id is fresh, and the server has not seen  *)
(* it: whatever it acted upon came before.                                 *)
LEMMA StepBegin ==
  ASSUME NEW k \in Kinds, NEW z \in Sizes
  PROVE  ClientInv /\ Begin(k, z) => ClientInv'
<1> SUFFICES ASSUME ClientInv, Begin(k, z) PROVE ClientInv'
  OBVIOUS
<1>0. serial \in Nat /\ next_request_id \in Ids /\ applied \in Seq(Nat)
  BY DEF ClientInv, TypeInv
<1>1. PICK f \in [id : Ids, next : Ids] :
        /\ f.id # 0 /\ f.next = (f.id + 1) % IdWidth
        /\ next_request_id' = f.next
        /\ call' = [pc |-> "write", serial |-> serial + 1, id |-> f.id, kind |-> k,
                    size |-> z, result |-> "none", of |-> 0]
  <2> DEFINE g == fresh_request_id(next_request_id)
  <2>1. g \in [id : Ids, next : Ids] /\ g.id # 0 /\ g.next = (g.id + 1) % IdWidth
    <3>1. g.id \in Ids \ {0} /\ g.next \in Ids /\ g.next = (g.id + 1) % IdWidth
      BY <1>0, FreshId
    <3>2. g = [id |-> g.id, next |-> g.next]
      BY DEF fresh_request_id
    <3> QED BY <3>1, <3>2
  <2>2. /\ next_request_id' = g.next
        /\ call' = [pc |-> "write", serial |-> serial + 1, id |-> g.id, kind |-> k,
                    size |-> z, result |-> "none", of |-> 0]
    BY DEF Begin
  <2> HIDE DEF g
  <2> QED BY <2>1, <2>2
<1>2. /\ call' \in Calls /\ call'.pc = "write" /\ call'.serial = serial + 1 /\ call'.id = f.id
      /\ serial' = serial + 1 /\ UNCHANGED <<up, down, conn, applied>> /\ call.pc = "idle"
      /\ serial + 1 \in Nat /\ serial + 1 # 0
  BY <1>0, <1>1 DEF Begin, Calls, Results
<1>3. TypeInv' /\ IdInv' /\ EndInv'
  BY <1>1, <1>2 DEF ClientInv, TypeInv, IdInv, EndInv
<1>4. ~Applied(serial)'
  <2>1. \A i \in DOMAIN applied : applied[i] \in 1 .. serial
    BY DEF ClientInv, OnceInv
  <2>2. serial + 1 \notin 1 .. serial
    BY <1>0
  <2> QED BY <1>2, <2>1, <2>2 DEF Applied
<1>5. OnceInv'
  <2>1. 1 .. serial \subseteq 1 .. (serial + 1)
    BY <1>0
  <2> QED BY <1>2, <2>1 DEF ClientInv, OnceInv
<1>6. WireInv'
  BY <1>2, <1>4 DEF ClientInv, WireInv
<1> QED BY <1>3, <1>5, <1>6 DEF ClientInv

(* The first write, or the reasons it does not happen. *)
LEMMA StepWriteFrame == ClientInv /\ write_frame => ClientInv'
<1> SUFFICES ASSUME ClientInv, write_frame PROVE ClientInv'
  OBVIOUS
<1>0. /\ TypeInv /\ call.pc = "write" /\ up = <<>> /\ down = <<>> /\ ~Applied(serial)
      /\ UNCHANGED <<next_request_id, down, conn, serial, applied>>
      /\ call.serial = serial /\ serial # 0 /\ Applied(serial)' = Applied(serial)
  BY DEF ClientInv, WireInv, OnceInv, write_frame, Applied
<1>1. CASE call.size = "frame too long" /\ End("FrameTooLarge") /\ UNCHANGED up
  <2>1. /\ call' \in Calls /\ call'.pc = "idle" /\ call'.result = "FrameTooLarge"
        /\ call'.serial = call.serial /\ call'.id = call.id /\ call'.size = call.size
    BY <1>0, <1>1, CallEnds DEF Results
  <2>2. TypeInv' /\ IdInv' /\ OnceInv'
    BY <1>0, <2>1 DEF ClientInv, TypeInv, IdInv, OnceInv
  <2>3. WireInv'
    BY <1>0, <1>1, <2>1 DEF ClientInv, WireInv
  <2>4. EndInv'
    <3>1. ~Applied(call.serial)'
      BY <1>0, <2>1 DEF Applied
    <3> QED BY <1>1, <2>1, <3>1 DEF EndInv
  <2> QED BY <2>2, <2>3, <2>4 DEF ClientInv
<1>2. CASE conn # Open /\ End("Io") /\ UNCHANGED up
  <2>1. /\ call' \in Calls /\ call'.pc = "idle" /\ call'.result = "Io"
        /\ call'.serial = call.serial /\ call'.id = call.id
    BY <1>0, <1>2, CallEnds DEF Results
  <2>2. TypeInv' /\ IdInv' /\ OnceInv'
    BY <1>0, <2>1 DEF ClientInv, TypeInv, IdInv, OnceInv
  <2>3. WireInv'
    BY <1>0, <1>2, <2>1 DEF ClientInv, WireInv
  <2>4. EndInv'
    BY <1>0, <1>2, <2>1 DEF EndInv, TypeInv
  <2> QED BY <2>2, <2>3, <2>4 DEF ClientInv
<1>3. CASE /\ call.size # "frame too long" /\ conn = Open /\ up' = Append(up, Prefix(call))
           /\ call' = [call EXCEPT !.pc = "write payload"]
  <2>1. /\ call' \in Calls /\ call'.pc = "write payload" /\ call'.serial = call.serial
        /\ call'.id = call.id /\ call'.size = call.size /\ Prefix(call)' = Prefix(call)
    BY <1>0, <1>3, CallMoves
  <2>2. TypeInv' /\ IdInv' /\ OnceInv'
    BY <1>0, <2>1 DEF ClientInv, TypeInv, IdInv, OnceInv
  <2>3. up' = <<Prefix(call)>>'
    BY <1>0, <1>3, <2>1, Frames
  <2>4. WireInv'
    BY <1>0, <1>3, <2>1, <2>3 DEF ClientInv, WireInv
  <2>5. EndInv'
    BY <2>1 DEF EndInv
  <2> QED BY <2>2, <2>4, <2>5 DEF ClientInv
<1> QED BY <1>1, <1>2, <1>3 DEF write_frame

(* The second write. *)
LEMMA StepWritePayload == ClientInv /\ write_payload => ClientInv'
<1> SUFFICES ASSUME ClientInv, write_payload PROVE ClientInv'
  OBVIOUS
<1>0. /\ TypeInv /\ call.pc = "write payload" /\ down = <<>> /\ ~Applied(serial)
      /\ call.size # "frame too long"
      /\ UNCHANGED <<next_request_id, down, conn, serial, applied>>
      /\ call.serial = serial /\ serial # 0 /\ Applied(serial)' = Applied(serial)
  BY DEF ClientInv, WireInv, OnceInv, write_payload, Applied
<1>1. CASE conn # Open /\ End("Io") /\ UNCHANGED up
  <2>1. /\ call' \in Calls /\ call'.pc = "idle" /\ call'.result = "Io"
        /\ call'.serial = call.serial /\ call'.id = call.id
    BY <1>0, <1>1, CallEnds DEF Results
  <2>2. TypeInv' /\ IdInv' /\ OnceInv'
    BY <1>0, <2>1 DEF ClientInv, TypeInv, IdInv, OnceInv
  <2>3. WireInv'
    BY <1>0, <1>1, <2>1 DEF ClientInv, WireInv
  <2>4. EndInv'
    BY <1>0, <1>1, <2>1 DEF EndInv, TypeInv
  <2> QED BY <2>2, <2>3, <2>4 DEF ClientInv
<1>2. CASE /\ conn = Open /\ up' = Append(up, Request(call))
           /\ call' = [call EXCEPT !.pc = "read"]
  <2>1. /\ call' \in Calls /\ call'.pc = "read" /\ call'.serial = call.serial
        /\ call'.id = call.id /\ call'.size = call.size
        /\ Prefix(call)' = Prefix(call) /\ Request(call)' = Request(call)
    BY <1>0, <1>2, CallMoves
  <2>2. TypeInv' /\ IdInv' /\ OnceInv'
    BY <1>0, <2>1 DEF ClientInv, TypeInv, IdInv, OnceInv
  <2>3. up' = <<Prefix(call), Request(call)>>'
    <3>1. up = <<Prefix(call)>>
      BY <1>0, <1>2 DEF ClientInv, WireInv
    <3> QED BY <1>2, <2>1, <3>1, Frames
  <2>4. WireInv'
    BY <1>0, <1>2, <2>1, <2>3 DEF WireInv
  <2>5. EndInv'
    BY <2>1 DEF EndInv
  <2> QED BY <2>2, <2>4, <2>5 DEF ClientInv
<1> QED BY <1>1, <1>2 DEF write_payload

(* The answer read is the one to this call, which the server acted upon. *)
LEMMA StepReadFrame == ClientInv /\ read_frame => ClientInv'
<1> SUFFICES ASSUME ClientInv, read_frame PROVE ClientInv'
  OBVIOUS
<1>0. /\ call' = [call EXCEPT !.pc = "idle", !.result = "Ok", !.of = serial]
      /\ down' = <<>> /\ up' = <<>> /\ Applied(serial) /\ call.serial = serial /\ serial # 0
      /\ UNCHANGED <<next_request_id, conn, serial, applied>>
  BY AnswerRead DEF read_frame
<1>1. /\ call' \in Calls /\ call'.pc = "idle" /\ call'.result = "Ok" /\ call'.of = serial
      /\ call'.serial = call.serial /\ call'.id = call.id
  BY <1>0 DEF ClientInv, TypeInv, Calls, Results
<1>2. TypeInv' /\ IdInv' /\ OnceInv'
  BY <1>0, <1>1 DEF ClientInv, TypeInv, IdInv, OnceInv
<1>3. WireInv'
  BY <1>0, <1>1 DEF WireInv
<1>4. EndInv'
  BY <1>0, <1>1 DEF EndInv, Applied
<1> QED BY <1>2, <1>3, <1>4 DEF ClientInv

(* The stream ends before an answer: the server has closed it. *)
LEMMA StepReadFails == ClientInv /\ read_fails => ClientInv'
<1> SUFFICES ASSUME ClientInv, read_fails PROVE ClientInv'
  OBVIOUS
<1>0. /\ TypeInv /\ conn # Open /\ up = <<>> /\ down' = <<>>
      /\ UNCHANGED <<next_request_id, up, conn, serial, applied>>
  BY DEF ClientInv, WireInv, read_fails
<1>1. PICK e \in {"ConnectionClosed", "Io"} : End(e)
  BY DEF read_fails
<1>2. /\ call' \in Calls /\ call'.pc = "idle" /\ call'.result = e
      /\ call'.serial = call.serial /\ call'.id = call.id
  BY <1>0, <1>1, CallEnds DEF Results
<1>3. TypeInv' /\ IdInv' /\ OnceInv'
  BY <1>0, <1>2 DEF ClientInv, TypeInv, IdInv, OnceInv
<1>4. WireInv'
  BY <1>0, <1>2 DEF WireInv
<1>5. EndInv'
  BY <1>0, <1>2 DEF EndInv, TypeInv
<1> QED BY <1>3, <1>4, <1>5 DEF ClientInv

(* The server acts upon a request it has not acted upon before, and the    *)
(* client is still waiting for the answer.                                 *)
LEMMA StepServe == ClientInv /\ Serve => ClientInv'
<1> SUFFICES ASSUME ClientInv, Serve PROVE ClientInv'
  OBVIOUS
<1>0. /\ call.pc = "read" /\ ~Applied(serial) /\ call.serial = serial /\ serial # 0
      /\ applied' = Append(applied, serial) /\ up' = <<>>
      /\ \/ conn' = Open /\ down' = Answer(Request(call))
         \/ conn' = "subagent gone" /\ Len(down') < 2
      /\ UNCHANGED <<next_request_id, call, serial>>
  BY ServeStep DEF Serve
<1>1. /\ applied \in Seq(Nat) /\ serial \in Nat /\ applied' \in Seq(Nat)
      /\ Len(applied) \in Nat /\ DOMAIN applied = 1 .. Len(applied)
      /\ DOMAIN applied' = 1 .. (Len(applied) + 1)
      /\ \A i \in DOMAIN applied : applied'[i] = applied[i]
      /\ applied'[Len(applied) + 1] = serial
  <2>1. applied \in Seq(Nat) /\ serial \in Nat
    BY DEF ClientInv, TypeInv
  <2>2. Len(applied) \in Nat /\ DOMAIN applied = 1 .. Len(applied)
    BY <2>1, LenProperties
  <2>3. /\ applied' \in Seq(Nat) /\ Len(applied') = Len(applied) + 1
        /\ \A i \in 1 .. Len(applied) : applied'[i] = applied[i]
        /\ applied'[Len(applied) + 1] = serial
    <3> DEFINE A == Append(applied, serial)
    <3>1. /\ A \in Seq(Nat) /\ Len(A) = Len(applied) + 1
          /\ \A i \in 1 .. Len(applied) : A[i] = applied[i]
          /\ A[Len(applied) + 1] = serial
      BY <2>1, AppendProperties
    <3>2. applied' = A
      BY <1>0
    <3> HIDE DEF A
    <3> QED BY <3>1, <3>2
  <2>4. DOMAIN applied' = 1 .. Len(applied')
    BY <2>3, LenProperties
  <2> QED BY <2>1, <2>2, <2>3, <2>4
<1>2. \A i \in DOMAIN applied' : i \in DOMAIN applied \/ i = Len(applied) + 1
  BY <1>1
<1>3. TypeInv' /\ IdInv' /\ EndInv'
  BY <1>0, <1>1 DEF ClientInv, TypeInv, IdInv, EndInv, Closed
<1>4. OnceInv'
  <2>1. \A i \in DOMAIN applied : applied[i] # serial
    BY <1>0 DEF Applied
  <2>2. serial \in 1 .. serial
    <3>1. serial \in Nat /\ serial # 0
      BY <1>0, <1>1
    <3> QED BY <3>1
  <2>3. \A i, j \in DOMAIN applied' : applied'[i] = applied'[j] => i = j
    BY <1>1, <1>2, <2>1 DEF ClientInv, OnceInv
  <2>4. \A i \in DOMAIN applied' : applied'[i] \in 1 .. serial
    BY <1>1, <1>2, <2>2 DEF ClientInv, OnceInv
  <2> QED BY <1>0, <2>3, <2>4 DEF ClientInv, OnceInv
<1>5. WireInv'
  <2>1. Applied(serial)'
    <3>1. Len(applied) + 1 \in DOMAIN applied'
      BY <1>1
    <3> QED BY <1>0, <1>1, <3>1 DEF Applied
  <2>2. Answer(Request(call))' = Answer(Request(call)) /\ call.size # "frame too long"
    BY <1>0 DEF Answer, Request, ClientInv, WireInv
  <2>3. "subagent gone" # Open
    BY DEF Open
  <2> QED BY <1>0, <2>1, <2>2, <2>3 DEF WireInv
<1> QED BY <1>3, <1>4, <1>5 DEF ClientInv

LEMMA StepRefuse == ClientInv /\ Refuse => ClientInv'
<1> SUFFICES ASSUME ClientInv, Refuse PROVE ClientInv'
  OBVIOUS
<1>0. /\ call.pc = "read" /\ conn' = "malformed envelope" /\ up' = <<>> /\ down' = <<>>
      /\ UNCHANGED <<next_request_id, call, serial, applied>>
  BY RefuseStep
<1>1. TypeInv' /\ IdInv' /\ OnceInv' /\ EndInv'
  BY <1>0 DEF ClientInv, TypeInv, IdInv, OnceInv, EndInv, Closed
<1>2. WireInv'
  <2>1. "malformed envelope" # Open /\ Len(<<>>) < 2
    BY DEF Open
  <2> QED BY <1>0, <2>1 DEF ClientInv, WireInv
<1> QED BY <1>1, <1>2 DEF ClientInv

LEMMA StepDrop == ClientInv /\ Drop => ClientInv'
<1> SUFFICES ASSUME ClientInv, Drop PROVE ClientInv'
  OBVIOUS
<1>0. /\ conn = Open /\ conn' = "subagent gone" /\ up' = <<>>
      /\ UNCHANGED <<next_request_id, call, down, serial, applied>>
      /\ Applied(serial)' = Applied(serial) /\ Applied(call.serial)' = Applied(call.serial)
      /\ Answer(Request(call))' = Answer(Request(call))
  BY DEF Drop, Close, Applied, Answer, Request
<1>1. TypeInv' /\ IdInv' /\ OnceInv'
  BY <1>0 DEF ClientInv, TypeInv, IdInv, OnceInv, Closed
<1>2. EndInv'
  BY <1>0 DEF ClientInv, EndInv, Closed
<1>3. WireInv'
  <2>1. "subagent gone" # Open /\ Len(<<>>) < 2
    BY DEF Open
  <2> QED BY <1>0, <2>1 DEF ClientInv, WireInv
<1> QED BY <1>1, <1>2, <1>3 DEF ClientInv

LEMMA Stutter == ClientInv /\ UNCHANGED vars => ClientInv'
  BY DEF ClientInv, vars, TypeInv, IdInv, OnceInv, WireInv, EndInv, Applied, Prefix, Request, Answer

LEMMA ClientInvariant == Spec => []ClientInv
<1>1. ClientInv /\ [Next]_vars => ClientInv'
  BY StepConnect, StepBegin, StepWriteFrame, StepWritePayload, StepReadFrame, StepReadFails,
     StepServe, StepRefuse, StepDrop, Stutter DEF Next
<1> QED BY InitClient, <1>1, PTL DEF Spec

-----------------------------------------------------------------------------
(* A request in applied is there once. *)
LEMMA TimesApplied ==
  ASSUME OnceInv, NEW n
  PROVE  LET times == Cardinality({i \in DOMAIN applied : applied[i] = n})
         IN  times = IF Applied(n) THEN 1 ELSE 0
<1> DEFINE T == {i \in DOMAIN applied : applied[i] = n}
<1>1. CASE Applied(n)
  <2>1. PICK k \in DOMAIN applied : applied[k] = n
    BY <1>1 DEF Applied
  <2>2. T = {k}
    BY <2>1 DEF OnceInv
  <2>3. Cardinality({k}) = 1
    BY FS_Singleton
  <2> QED BY <1>1, <2>2, <2>3
<1>2. CASE ~Applied(n)
  <2>1. T = {}
    BY <1>2 DEF Applied
  <2> QED BY <1>2, <2>1, FS_EmptySet
<1> QED BY <1>1, <1>2

(* Every call ends for a reason of its own, however many calls are made    *)
(* and however the connection fails under them: Ok with its own answer, to *)
(* a request acted upon once; FrameTooLarge with nothing acted upon; an    *)
(* I/O error only when the server closed the connection.                   *)
THEOREM CallsEndTheirOwn == Spec => []OwnOutcome
<1>1. ClientInv => OwnOutcome
  <2> SUFFICES ASSUME ClientInv, call.pc = "idle", call.serial # 0
               PROVE  LET times == Cardinality({i \in DOMAIN applied : applied[i] = call.serial})
                      IN  \/ call.result = "Ok" /\ call.of = call.serial /\ times = 1
                          \/ /\ call.result = "FrameTooLarge" /\ call.size = "frame too long"
                             /\ times = 0
                          \/ /\ call.result \in {"Io", "ConnectionClosed"}
                             /\ conn \in {"subagent gone", "malformed envelope"} /\ times <= 1
    BY DEF OwnOutcome
  <2> DEFINE times == Cardinality({i \in DOMAIN applied : applied[i] = call.serial})
  <2>1. times = IF Applied(call.serial) THEN 1 ELSE 0
    BY TimesApplied DEF ClientInv
  <2>2. \/ call.result = "Ok" /\ call.of = call.serial /\ Applied(call.serial)
        \/ call.result = "FrameTooLarge" /\ call.size = "frame too long" /\ ~Applied(call.serial)
        \/ call.result \in {"Io", "ConnectionClosed"} /\ conn \in Closed
    BY DEF ClientInv, EndInv
  <2> HIDE DEF times
  <2>3. times \in {0, 1} /\ times <= 1
    BY <2>1
  <2>4. \/ call.result = "Ok" /\ call.of = call.serial /\ times = 1
        \/ call.result = "FrameTooLarge" /\ call.size = "frame too long" /\ times = 0
        \/ /\ call.result \in {"Io", "ConnectionClosed"}
           /\ conn \in {"subagent gone", "malformed envelope"} /\ times <= 1
    BY <2>1, <2>2, <2>3 DEF Closed
  <2> QED BY <2>4 DEF times
<1> QED BY <1>1, ClientInvariant, PTL

(* No request goes out under id 0, nor under the id of the call before it, *)
(* whatever the width of the counter and however often it has wrapped.     *)
THEOREM IdsNeverRepeat == Spec => IdsDistinct
<1> DEFINE Fresh == serial' # serial => call'.id # 0 /\ (call.serial # 0 => call'.id # call.id)
<1>1. ClientInv /\ [Next]_vars => Fresh
  <2> SUFFICES ASSUME ClientInv, [Next]_vars, serial' # serial
               PROVE  call'.id # 0 /\ (call.serial # 0 => call'.id # call.id)
    OBVIOUS
  <2>1. PICK k \in Kinds, z \in Sizes : Begin(k, z)
    BY DEF Next, vars, connect, write_frame, write_payload, read_frame, read_fails, Serve,
           Refuse, Drop
  <2>2. call'.id = fresh_request_id(next_request_id).id
    BY <2>1 DEF Begin
  <2>3. call'.id # 0
    BY <2>2, FreshId DEF ClientInv, TypeInv
  <2>4. ASSUME call.serial # 0 PROVE call'.id # call.id
    <3>1. call.id \in Ids /\ call.id # 0 /\ next_request_id = (call.id + 1) % IdWidth
      BY <2>4 DEF ClientInv, TypeInv, Calls, IdInv
    <3> QED BY <2>2, <3>1, FreshIdDiffers
  <2> QED BY <2>3, <2>4
<1>2. ClientInv /\ [Next]_vars => [Fresh]_vars
  BY <1>1
<1> QED BY <1>2, ClientInvariant, PTL DEF Spec, IdsDistinct
=============================================================================
