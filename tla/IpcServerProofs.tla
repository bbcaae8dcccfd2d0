-------------------------- MODULE IpcServerProofs --------------------------
(***************************************************************************)
(* Proofs about IpcServer for any number of connections, slots and frames  *)
(* of any length: no slot leaks, the receive buffer never fills up, and    *)
(* requests are handled once and answered in order.                        *)
(***************************************************************************)
EXTENDS IpcServer, FiniteSetTheorems, SequenceTheorems, WellFoundedInduction, TLAPS

Headers == [unit : {"header"}, conn : Conns, id : Nat, len : Nat,
            body : Answered \cup Closing]
Units   == Headers \cup {Payload}
Answers == Seq(Conns \X Nat)

(* TypeOK with the contents of the buffers and queues. *)
TypeInv ==
  /\ TypeOK
  /\ inq \in [Conns -> Seq(Units)] /\ buf \in [Slots -> Seq(Units)]
  /\ outq \in [Conns -> Answers] /\ got \in [Conns -> Answers]
  /\ handled \in [Conns -> Seq(Nat)]
  /\ backlog \in Seq(Conns)

(* A slot in use belongs to an open connection, an open connection has one *)
(* slot, and the listen queue holds the connections that wait, each once.  *)
SlotInv ==
  /\ \A s \in Slots : slot[s] # NoConn => conn[slot[s]] = "open"
  /\ \A c \in Conns : conn[c] = "open" => \E s \in Slots : slot[s] = c
  /\ \A s, t \in Slots : slot[s] = slot[t] /\ slot[s] # NoConn => s = t
  /\ \A i \in DOMAIN backlog : conn[backlog[i]] = "backlog"
  /\ \A i, j \in DOMAIN backlog : backlog[i] = backlog[j] => i = j
  /\ pc \in {"drain", "send"} => cur \in ready /\ slot[cur] # NoConn

(* A stream of which the server has d requests behind it, to which the     *)
(* client has begun n frames and owes u units of the last: it begins with  *)
(* the header of frame d + 1, and where a frame ends the next one begins.  *)
WellFormed(S, c, d, n, u) ==
  /\ S = <<>> => n = d /\ u = 0
  /\ S # <<>> => S[1].unit = "header" /\ S[1].id = d + 1
  /\ \A p \in DOMAIN S : S[p].unit = "header" =>
       /\ S[p].conn = c /\ S[p].id <= n
       /\ S[p].id = n => p + S[p].len = Len(S) + u
       /\ S[p].id < n => /\ p + S[p].len < Len(S)
                         /\ S[p + S[p].len + 1].unit = "header"
                         /\ S[p + S[p].len + 1].id = S[p].id + 1

(* Requests of c that are handled and off the buffer. *)
InHand(c) == IF pc = "send" /\ slot[cur] = c THEN 1 ELSE 0
Behind(c) == Len(handled[c]) - InHand(c)

(* What a client has sent and the server has not taken is a well-formed    *)
(* stream, in two pieces once the connection is accepted.                  *)
StreamInv ==
  /\ \A c \in Conns : conn[c] \in {"new", "backlog"} =>
       /\ WellFormed(inq[c], c, 0, frames[c], unsent[c])
       /\ handled[c] = <<>> /\ got[c] = <<>> /\ outq[c] = <<>>
       /\ conn[c] = "new" => inq[c] = <<>>
  /\ \A c \in Conns : \A s \in Slots : slot[s] = c =>
       WellFormed(buf[s] \o inq[c], c, Behind(c), frames[c], unsent[c])

(* A buffer that is not being drained holds at most a part of a frame; the *)
(* one a request is being answered from begins with that request.          *)
Partial(b) == b # <<>> => b[1].len \in 1..MaxLen /\ Len(b) < 1 + b[1].len

BufferInv ==
  /\ \A s \in Slots : slot[s] = NoConn => buf[s] = <<>>
  /\ \A s \in Slots : ~(pc \in {"drain", "send"} /\ s = cur) => Partial(buf[s])
  /\ pc = "send" => /\ buf[cur] # <<>> /\ buf[cur][1].len \in 1..MaxLen
                    /\ Len(buf[cur]) >= 1 + buf[cur][1].len

(* The requests of a connection are handled in order and each was sent     *)
(* whole; its answers, read or not, are to the first of them, and while it *)
(* is open to all that are off the buffer.                                 *)
CountInv ==
  \A c \in Conns :
    /\ \A i \in DOMAIN handled[c] : handled[c][i] = i
    /\ Len(handled[c]) <= frames[c]
    /\ Len(handled[c]) = frames[c] => unsent[c] = 0
    /\ \A i \in DOMAIN got[c] : got[c][i] = <<c, i>>
    /\ \A i \in DOMAIN outq[c] : outq[c][i] = <<c, Len(got[c]) + i>>
    /\ conn[c] = "open" => Len(got[c]) + Len(outq[c]) = Behind(c)

ServerInv == TypeInv /\ SlotInv /\ StreamInv /\ BufferInv /\ CountInv

-----------------------------------------------------------------------------
(* Streams. *)

(* A header is never a payload unit, and its fields have their types. *)
LEMMA UnitFacts ==
  ASSUME NEW x \in Units
  PROVE  x.unit = "header" => x.id \in Nat /\ x.len \in Nat /\ x.conn \in Conns /\ x \in Headers
BY DEF Units, Headers, Payload

(* A client that has sent its last frame whole begins another. *)
LEMMA StreamHeader ==
  ASSUME NEW S \in Seq(Units), NEW c \in Conns, NEW d \in Nat, NEW n \in Nat,
         WellFormed(S, c, d, n, 0),
         NEW x \in Headers, x.conn = c, x.id = n + 1
  PROVE  WellFormed(Append(S, x), c, d, n + 1, x.len)
<1> DEFINE T == Append(S, x)
<1>1. /\ Len(S) \in Nat /\ DOMAIN S = 1..Len(S) /\ \A p \in 1..Len(S) : S[p] \in Units
  BY LenProperties
<1>2. /\ T \in Seq(Units) /\ T # <<>> /\ Len(T) = Len(S) + 1 /\ DOMAIN T = 1..(Len(S) + 1)
      /\ \A p \in 1..Len(S) : T[p] = S[p]
      /\ T[Len(S) + 1] = x
  BY AppendProperties, LenProperties DEF Units
<1>3. x.unit = "header" /\ x.len \in Nat
  BY DEF Headers
<1> HIDE DEF T
<1>4. T[1].unit = "header" /\ T[1].id = d + 1
  <2>1. CASE S = <<>>
    BY <1>2, <1>3, <2>1 DEF WellFormed
  <2>2. CASE S # <<>>
    BY <1>1, <1>2, <2>2, EmptySeq DEF WellFormed
  <2> QED BY <2>1, <2>2
<1>5. ASSUME NEW p \in DOMAIN T, T[p].unit = "header"
      PROVE  /\ T[p].conn = c /\ T[p].id <= n + 1
             /\ T[p].id = n + 1 => p + T[p].len = Len(T) + x.len
             /\ T[p].id < n + 1 => /\ p + T[p].len < Len(T)
                                   /\ T[p + T[p].len + 1].unit = "header"
                                   /\ T[p + T[p].len + 1].id = T[p].id + 1
  <2>1. CASE p = Len(S) + 1
    BY <1>1, <1>2, <1>3, <2>1
  <2>2. CASE p \in 1..Len(S)
    <3>1. S[p].unit = "header" /\ T[p] = S[p] /\ S[p].id \in Nat /\ S[p].len \in Nat
      BY <1>1, <1>2, <1>5, <2>2, UnitFacts
    <3>2. /\ S[p].conn = c /\ S[p].id <= n
          /\ S[p].id = n => p + S[p].len = Len(S)
          /\ S[p].id < n => /\ p + S[p].len < Len(S)
                            /\ S[p + S[p].len + 1].unit = "header"
                            /\ S[p + S[p].len + 1].id = S[p].id + 1
      BY <1>1, <2>2, <3>1 DEF WellFormed
    <3>3. CASE S[p].id = n
      <4>1. p \in Nat /\ Len(S) \in Nat /\ n \in Nat /\ Len(T) = Len(S) + 1
        BY <1>1, <1>2, <2>2
      <4>2. p + S[p].len = Len(S) /\ S[p].conn = c
        BY <3>2, <3>3
      <4>3. S[p].id # n + 1 /\ S[p].id <= n + 1
        BY <3>3, <4>1
      <4>4. p + S[p].len < Len(T)
        BY <4>1, <4>2
      <4>5. T[p + S[p].len + 1] = x
        BY <1>2, <4>2
      <4> QED BY <1>3, <3>1, <3>3, <4>2, <4>3, <4>4, <4>5
    <3>4. CASE S[p].id < n
      <4>1. p + S[p].len + 1 \in 1..Len(S)
        BY <1>1, <2>2, <3>1, <3>2, <3>4
      <4>2. T[p + S[p].len + 1] = S[p + S[p].len + 1]
        BY <1>2, <4>1
      <4>3. T[p + S[p].len + 1].unit = "header" /\ T[p + S[p].len + 1].id = S[p].id + 1
        BY <3>2, <3>4, <4>2
      <4>4. p + S[p].len < Len(T)
        <5>1. p \in Nat /\ p + S[p].len < Len(S) /\ Len(S) \in Nat
          BY <1>1, <2>2, <3>2, <3>4
        <5> QED BY <1>2, <3>1, <5>1
      <4>5. S[p].id # n + 1 /\ S[p].id <= n + 1
        BY <3>1, <3>4
      <4> QED BY <3>1, <3>2, <4>3, <4>4, <4>5
    <3> QED BY <3>1, <3>2, <3>3, <3>4
  <2> QED BY <1>1, <1>2, <2>1, <2>2
<1> QED BY <1>2, <1>4, <1>5 DEF WellFormed, T

(* It sends one more unit of the frame it has begun. *)
LEMMA StreamPayload ==
  ASSUME NEW S \in Seq(Units), NEW c \in Conns, NEW d \in Nat, NEW n \in Nat,
         NEW u \in Nat, u > 0, WellFormed(S, c, d, n, u)
  PROVE  WellFormed(Append(S, Payload), c, d, n, u - 1)
<1> DEFINE T == Append(S, Payload)
<1>1. /\ Len(S) \in Nat \ {0} /\ DOMAIN S = 1..Len(S) /\ \A p \in 1..Len(S) : S[p] \in Units
      /\ S # <<>>
  BY LenProperties, EmptySeq DEF WellFormed
<1>2. /\ T \in Seq(Units) /\ T # <<>> /\ Len(T) = Len(S) + 1 /\ DOMAIN T = 1..(Len(S) + 1)
      /\ \A p \in 1..Len(S) : T[p] = S[p]
      /\ T[Len(S) + 1] = Payload
  BY AppendProperties, LenProperties DEF Units
<1> HIDE DEF T
<1>3. T[1].unit = "header" /\ T[1].id = d + 1
  BY <1>1, <1>2 DEF WellFormed
<1>4. ASSUME NEW p \in DOMAIN T, T[p].unit = "header"
      PROVE  /\ T[p].conn = c /\ T[p].id <= n
             /\ T[p].id = n => p + T[p].len = Len(T) + (u - 1)
             /\ T[p].id < n => /\ p + T[p].len < Len(T)
                               /\ T[p + T[p].len + 1].unit = "header"
                               /\ T[p + T[p].len + 1].id = T[p].id + 1
  <2>1. p \in 1..Len(S)
    BY <1>1, <1>2, <1>4 DEF Payload
  <2>2. S[p].unit = "header" /\ T[p] = S[p] /\ S[p].id \in Nat /\ S[p].len \in Nat
    BY <1>1, <1>2, <1>4, <2>1, UnitFacts
  <2>3. /\ S[p].conn = c /\ S[p].id <= n
        /\ S[p].id = n => p + S[p].len = Len(S) + u
        /\ S[p].id < n => /\ p + S[p].len < Len(S)
                          /\ S[p + S[p].len + 1].unit = "header"
                          /\ S[p + S[p].len + 1].id = S[p].id + 1
    BY <1>1, <2>1, <2>2 DEF WellFormed
  <2>5. p \in Nat /\ Len(S) \in Nat /\ u \in Nat /\ Len(T) = Len(S) + 1
    BY <1>1, <1>2, <2>1
  <2>4. S[p].id < n => T[p + S[p].len + 1] = S[p + S[p].len + 1]
    <3> SUFFICES ASSUME S[p].id < n PROVE T[p + S[p].len + 1] = S[p + S[p].len + 1]
      OBVIOUS
    <3> DEFINE l == S[p].len
               m == Len(S)
    <3>1. l \in Nat /\ p \in Nat /\ m \in Nat /\ p + l < m
      BY <2>2, <2>3, <2>5
    <3> HIDE DEF l, m
    <3>2. p + l + 1 \in 1..m
      BY ONLY <3>1
    <3> QED BY <1>2, <3>2 DEF l, m
  <2>6. S[p].id = n => p + S[p].len = Len(T) + (u - 1)
    BY <2>2, <2>3, <2>5
  <2>7. S[p].id < n => p + S[p].len < Len(T)
    BY <2>2, <2>3, <2>5
  <2> QED BY <2>2, <2>3, <2>4, <2>6, <2>7
<1> QED BY <1>2, <1>3, <1>4 DEF WellFormed, T

(* The server takes the first frame off. *)
LEMMA StreamConsume ==
  ASSUME NEW S \in Seq(Units), NEW c \in Conns, NEW d \in Nat, NEW n \in Nat, NEW u \in Nat,
         WellFormed(S, c, d, n, u), S # <<>>, 1 + S[1].len <= Len(S)
  PROVE  /\ WellFormed(SubSeq(S, 2 + S[1].len, Len(S)), c, d + 1, n, u)
         /\ d + 1 <= n /\ (d + 1 = n => u = 0)
<1> DEFINE k == 1 + S[1].len
           T == SubSeq(S, k + 1, Len(S))
<1>1. /\ Len(S) \in Nat \ {0} /\ DOMAIN S = 1..Len(S) /\ \A p \in 1..Len(S) : S[p] \in Units
  BY LenProperties, EmptySeq
<1>2. S[1].unit = "header" /\ S[1].id = d + 1 /\ S[1].len \in Nat /\ k \in Nat \ {0} /\ k <= Len(S)
  BY <1>1, UnitFacts DEF WellFormed
<1>num. Len(S) \in Nat /\ k \in Nat /\ 1 <= k /\ k <= Len(S)
  BY <1>1, <1>2
<1>3. /\ S[1].id <= n
      /\ S[1].id = n => k = Len(S) + u
      /\ S[1].id < n => k < Len(S) /\ S[k + 1].unit = "header" /\ S[k + 1].id = d + 2
  <2>1. 1 \in DOMAIN S
    BY <1>1
  <2>2. 1 + S[1].len + 1 = k + 1 /\ S[1].id + 1 = d + 2
    BY <1>2
  <2> QED BY <1>2, <2>1, <2>2 DEF WellFormed
<1>4. /\ T \in Seq(Units) /\ Len(T) = Len(S) - k /\ DOMAIN T = 1..(Len(S) - k)
      /\ \A p \in 1..(Len(S) - k) : T[p] = S[p + k]
  <2>1. \A i \in (k + 1)..Len(S) : S[i] \in Units
    BY <1>1, <1>2
  <2> HIDE DEF k
  <2>2. /\ T \in Seq(Units) /\ Len(T) = IF k + 1 <= Len(S) THEN Len(S) - (k + 1) + 1 ELSE 0
        /\ \A i \in 1..(Len(S) - (k + 1) + 1) : T[i] = S[(k + 1) + i - 1]
    BY <1>1, <1>2, <2>1, SubSeqProperties
  <2> HIDE DEF T
  <2>3. DOMAIN T = 1..Len(T)
    BY <2>2, LenProperties
  <2>len. Len(T) = Len(S) - k
    BY <1>num, <2>2
  <2>4. ASSUME NEW p \in 1..(Len(S) - k) PROVE T[p] = S[p + k]
    <3>1. p \in 1..(Len(S) - (k + 1) + 1) /\ (k + 1) + p - 1 = p + k
      BY <1>1, <1>2
    <3> QED BY <2>2, <3>1
  <2> QED BY <2>2, <2>3, <2>len, <2>4
<1> HIDE DEF k, T
<1>5. d + 1 <= n /\ (d + 1 = n => u = 0)
  BY <1>1, <1>2, <1>3
<1>6. T = <<>> => n = d + 1 /\ u = 0
  <2> SUFFICES ASSUME T = <<>> PROVE n = d + 1
    BY <1>5
  <2>1. Len(T) = 0
    BY EmptySeq
  <2> QED BY <1>1, <1>2, <1>3, <1>4, <2>1
<1>7. T # <<>> => T[1].unit = "header" /\ T[1].id = (d + 1) + 1
  <2> SUFFICES ASSUME T # <<>> PROVE T[1].unit = "header" /\ T[1].id = (d + 1) + 1
    OBVIOUS
  <2>1. Len(T) \in Nat \ {0}
    BY <1>4, EmptySeq
  <2>2. k < Len(S) /\ 1 \in 1..(Len(S) - k) /\ 1 + k = k + 1
    BY <1>num, <1>4, <2>1
  <2>3. T[1] = S[k + 1]
    BY <1>4, <2>2
  <2> QED BY <1>1, <1>2, <1>3, <2>2, <2>3
<1>8. ASSUME NEW p \in DOMAIN T, T[p].unit = "header"
      PROVE  /\ T[p].conn = c /\ T[p].id <= n
             /\ T[p].id = n => p + T[p].len = Len(T) + u
             /\ T[p].id < n => /\ p + T[p].len < Len(T)
                               /\ T[p + T[p].len + 1].unit = "header"
                               /\ T[p + T[p].len + 1].id = T[p].id + 1
  <2> DEFINE q == p + k
  <2>1. q \in 1..Len(S) /\ T[p] = S[q] /\ p \in Nat
    BY <1>1, <1>2, <1>4
  <2>2. S[q].unit = "header" /\ S[q].id \in Nat /\ S[q].len \in Nat
    BY <1>1, <1>8, <2>1, UnitFacts
  <2>3. /\ S[q].conn = c /\ S[q].id <= n
        /\ S[q].id = n => q + S[q].len = Len(S) + u
        /\ S[q].id < n => /\ q + S[q].len < Len(S)
                          /\ S[q + S[q].len + 1].unit = "header"
                          /\ S[q + S[q].len + 1].id = S[q].id + 1
    BY <1>1, <2>1, <2>2 DEF WellFormed
  <2>4. Len(T) = Len(S) - k /\ q = p + k /\ q \in Nat
    BY <1>num, <1>4, <2>1
  <2> HIDE DEF q
  <2>5. S[q].id < n => T[p + S[q].len + 1] = S[q + S[q].len + 1]
    <3> SUFFICES ASSUME S[q].id < n PROVE T[p + S[q].len + 1] = S[q + S[q].len + 1]
      OBVIOUS
    <3> DEFINE l == S[q].len
    <3>1. l \in Nat /\ q + l < Len(S)
      BY <2>2, <2>3
    <3> HIDE DEF l
    <3>2. p + l + 1 \in 1..(Len(S) - k) /\ (p + l + 1) + k = q + l + 1
      <4> DEFINE m == Len(S)
      <4>1. /\ l \in Nat /\ p \in Nat /\ k \in Nat /\ m \in Nat /\ q = p + k /\ q + l < m
        BY <1>num, <2>1, <2>4, <3>1
      <4> HIDE DEF m
      <4>2. p + l + 1 \in 1..(m - k) /\ (p + l + 1) + k = q + l + 1
        BY ONLY <4>1
      <4> QED BY <4>2 DEF m
    <3>3. T[p + l + 1] = S[q + l + 1]
      BY <1>4, <3>2
    <3> QED BY <3>3 DEF l
  <2>6. S[q].id = n => p + S[q].len = Len(T) + u
    <3> SUFFICES ASSUME S[q].id = n PROVE p + S[q].len = Len(T) + u
      OBVIOUS
    <3> DEFINE l == S[q].len
               e == Len(T)
               m == Len(S)
    <3>1. l \in Nat /\ q + l = m + u /\ e = m - k /\ q = p + k
          /\ m \in Nat /\ k \in Nat /\ p \in Nat /\ u \in Nat
      BY <1>num, <2>1, <2>2, <2>3, <2>4
    <3> HIDE DEF l, e, m
    <3>2. p + l = e + u
      BY ONLY <3>1
    <3> QED BY <3>2 DEF l, e
  <2>7. T[p].id < n => p + T[p].len < Len(T)
    <3> SUFFICES ASSUME S[q].id < n PROVE p + S[q].len < Len(T)
      BY <2>1
    <3> DEFINE l == S[q].len
               e == Len(T)
               m == Len(S)
    <3>1. /\ l \in Nat /\ q + l < m /\ e = m - k /\ q = p + k
          /\ m \in Nat /\ k \in Nat /\ p \in Nat
      BY <1>num, <2>1, <2>2, <2>3, <2>4
    <3> HIDE DEF l, e, m
    <3>2. p + l < e
      BY ONLY <3>1
    <3> QED BY <3>2 DEF l, e
  <2> QED BY <2>1, <2>3, <2>5, <2>6, <2>7
<1>9. WellFormed(T, c, d + 1, n, u)
  BY <1>6, <1>7, <1>8 DEF WellFormed
<1>10. k + 1 = 2 + S[1].len
  BY <1>2 DEF k
<1> QED BY <1>5, <1>9, <1>10 DEF T

(* What a client writes goes to the end of the stream. *)
LEMMA WriteAtEnd ==
  ASSUME NEW b \in Seq(Units), NEW q \in Seq(Units), NEW x \in Units
  PROVE  b \o Append(q, x) = Append(b \o q, x)
<1>1. Append(q, x) = q \o <<x>> /\ <<x>> \in Seq(Units)
  BY AppendIsConcat
<1>2. b \o q \in Seq(Units)
  BY ConcatProperties
<1>3. Append(b \o q, x) = (b \o q) \o <<x>>
  BY <1>2, AppendIsConcat
<1>4. (b \o q) \o <<x>> = b \o (q \o <<x>>)
  BY <1>1, ConcatAssociative, SMTT(60)
<1> QED BY <1>1, <1>3, <1>4, Zenon

(* read() moves units from one piece of the stream to the other. *)
LEMMA ReadMoves ==
  ASSUME NEW b \in Seq(Units), NEW q \in Seq(Units), NEW n \in 0..Len(q)
  PROVE  /\ SubSeq(q, 1, n) \in Seq(Units) /\ Len(SubSeq(q, 1, n)) = n
         /\ SubSeq(q, n + 1, Len(q)) \in Seq(Units)
         /\ (b \o SubSeq(q, 1, n)) \o SubSeq(q, n + 1, Len(q)) = b \o q
<1>1. Len(q) \in Nat /\ n \in Int /\ n >= 0 /\ n <= Len(q) /\ \A i \in 1..Len(q) : q[i] \in Units
  BY LenProperties
<1>2. SubSeq(q, 1, n) \in Seq(Units) /\ Len(SubSeq(q, 1, n)) = n
  <2>1. \A i \in 1..n : q[i] \in Units
    BY <1>1
  <2>2. /\ SubSeq(q, 1, n) \in Seq(Units)
        /\ Len(SubSeq(q, 1, n)) = IF 1 <= n THEN n - 1 + 1 ELSE 0
    BY <1>1, <2>1, SubSeqProperties
  <2> QED BY <1>1, <2>2
<1>3. SubSeq(q, n + 1, Len(q)) \in Seq(Units)
  <2>1. \A i \in (n + 1)..Len(q) : q[i] \in Units
    BY <1>1
  <2> QED BY <1>1, <2>1, SubSeqProperties
<1>4. SubSeq(q, 1, n) \o SubSeq(q, n + 1, Len(q)) = q
  <2>1. 1 \in 1..(Len(q) + 1) /\ n \in (1 - 1)..Len(q) /\ Len(q) \in n..Len(q)
    BY <1>1
  <2>2. SubSeq(q, 1, n) \o SubSeq(q, n + 1, Len(q)) = SubSeq(q, 1, Len(q))
    BY <2>1, ConcatAdjacentSubSeq
  <2> QED BY <2>2, SubSeqFull
<1>5. (b \o SubSeq(q, 1, n)) \o SubSeq(q, n + 1, Len(q))
        = b \o (SubSeq(q, 1, n) \o SubSeq(q, n + 1, Len(q)))
  <2> DEFINE x == SubSeq(q, 1, n)
             y == SubSeq(q, n + 1, Len(q))
  <2>1. x \in Seq(Units) /\ y \in Seq(Units)
    BY <1>2, <1>3
  <2> HIDE DEF x, y
  <2>2. (b \o x) \o y = b \o (x \o y)
    BY <2>1, ConcatAssociative, SMTT(60)
  <2> QED BY <2>2 DEF x, y
<1> QED BY <1>2, <1>3, <1>4, <1>5

(* The memmove takes units off the front of the stream. *)
LEMMA ConsumeFront ==
  ASSUME NEW b \in Seq(Units), NEW q \in Seq(Units), NEW k \in 1..(Len(b) + 1)
  PROVE  /\ SubSeq(b, k, Len(b)) \in Seq(Units) /\ Len(SubSeq(b, k, Len(b))) = Len(b) + 1 - k
         /\ SubSeq(b, k, Len(b)) \o q = SubSeq(b \o q, k, Len(b \o q))
<1> DEFINE a == b \o q
           s == SubSeq(b, k, Len(b))
           t == SubSeq(a, k, Len(a))
           m == Len(b) + 1 - k
<1>1. /\ Len(b) \in Nat /\ Len(q) \in Nat /\ k \in Nat /\ 1 <= k /\ k <= Len(b) + 1
      /\ \A i \in 1..Len(b) : b[i] \in Units
      /\ \A i \in 1..Len(q) : q[i] \in Units
  BY LenProperties
<1>2. /\ a \in Seq(Units) /\ Len(a) = Len(b) + Len(q)
      /\ \A i \in 1..(Len(b) + Len(q)) : a[i] = IF i <= Len(b) THEN b[i] ELSE q[i - Len(b)]
      /\ \A i \in 1..(Len(b) + Len(q)) : a[i] \in Units
  <2>1. /\ a \in Seq(Units) /\ Len(a) = Len(b) + Len(q)
        /\ \A i \in 1..(Len(b) + Len(q)) : a[i] = IF i <= Len(b) THEN b[i] ELSE q[i - Len(b)]
    BY ConcatProperties
  <2> HIDE DEF a
  <2>2. \A i \in 1..Len(a) : a[i] \in Units
    BY <2>1, LenProperties
  <2> QED BY <2>1, <2>2
<1> HIDE DEF a
<1>3. s \in Seq(Units) /\ Len(s) = m /\ \A i \in 1..m : s[i] = b[k + i - 1]
  <2>1. \A i \in k..Len(b) : b[i] \in Units
    BY <1>1
  <2>2. /\ s \in Seq(Units) /\ Len(s) = IF k <= Len(b) THEN Len(b) - k + 1 ELSE 0
        /\ \A i \in 1..(Len(b) - k + 1) : s[i] = b[k + i - 1]
    BY <1>1, <2>1, SubSeqProperties
  <2>3. Len(b) - k + 1 = m
    BY <1>1
  <2> HIDE DEF s
  <2> QED BY <1>1, <2>2, <2>3
<1>4. t \in Seq(Units) /\ Len(t) = m + Len(q) /\ \A i \in 1..(m + Len(q)) : t[i] = a[k + i - 1]
  <2>1. \A i \in k..Len(a) : a[i] \in Units
    BY <1>1, <1>2
  <2>2. /\ t \in Seq(Units) /\ Len(t) = IF k <= Len(a) THEN Len(a) - k + 1 ELSE 0
        /\ \A i \in 1..(Len(a) - k + 1) : t[i] = a[k + i - 1]
    BY <1>1, <1>2, <2>1, SubSeqProperties
  <2>3. Len(a) - k + 1 = m + Len(q)
    BY <1>1, <1>2
  <2> HIDE DEF t
  <2> QED BY <1>1, <1>2, <2>2, <2>3
<1>5. m \in Nat
  BY <1>1
<1> HIDE DEF s, t
<1>6. /\ s \o q \in Seq(Units) /\ Len(s \o q) = m + Len(q)
      /\ \A i \in 1..(m + Len(q)) : (s \o q)[i] = IF i <= m THEN s[i] ELSE q[i - m]
  <2>1. /\ s \o q \in Seq(Units) /\ Len(s \o q) = Len(s) + Len(q)
        /\ \A i \in 1..(Len(s) + Len(q)) :
             (s \o q)[i] = IF i <= Len(s) THEN s[i] ELSE q[i - Len(s)]
    BY <1>3, ConcatProperties
  <2> HIDE DEF m
  <2> QED BY <1>3, <2>1
<1>7. ASSUME NEW i \in 1..(m + Len(q)) PROVE (s \o q)[i] = t[i]
  <2>1. k + i - 1 \in 1..(Len(b) + Len(q)) /\ k + i - 1 - Len(b) = i - m
    BY <1>1
  <2>2. i <= m <=> k + i - 1 <= Len(b)
    BY <1>1
  <2>3. i <= m => i \in 1..m
    BY <1>1, <1>5
  <2> HIDE DEF m
  <2>4. t[i] = IF i <= m THEN b[k + i - 1] ELSE q[i - m]
    <3> DEFINE j == k + i - 1
    <3>1. j \in 1..(Len(b) + Len(q)) /\ j - Len(b) = i - m /\ (i <= m <=> j <= Len(b))
      BY <2>1, <2>2
    <3>2. t[i] = a[j]
      BY <1>4
    <3> HIDE DEF j
    <3>3. a[j] = IF j <= Len(b) THEN b[j] ELSE q[j - Len(b)]
      BY <1>2, <3>1
    <3>4. a[j] = IF i <= m THEN b[j] ELSE q[i - m]
      BY <3>1, <3>3
    <3> QED BY <3>2, <3>4 DEF j
  <2> QED BY <1>3, <1>6, <2>3, <2>4
<1>8. s \o q = t
  BY <1>4, <1>6, <1>7, SeqEqual
<1> QED BY <1>3, <1>8 DEF s, t, a

-----------------------------------------------------------------------------
(* The invariant, one conjunct at a time. *)

(* The types of the buffers and queues, one entry at a time. *)
LEMMA TypeFacts ==
  ASSUME TypeInv
  PROVE  /\ \A c \in Conns : /\ inq[c] \in Seq(Units) /\ outq[c] \in Answers /\ got[c] \in Answers
                             /\ handled[c] \in Seq(Nat)
                             /\ frames[c] \in Nat /\ unsent[c] \in Nat
                             /\ Len(inq[c]) \in Nat /\ Len(outq[c]) \in Nat /\ Len(got[c]) \in Nat
                             /\ Len(handled[c]) \in Nat
         /\ \A s \in Slots : /\ buf[s] \in Seq(Units) /\ Len(buf[s]) \in Nat
                             /\ slot[s] # NoConn => slot[s] \in Conns
         /\ BufSize \in Nat
BY IpcAssumption, LenProperties DEF TypeInv, TypeOK, Answers, BufSize

(* The server loop is at a slot in use while it drains or answers. *)
LEMMA AtSlot ==
  ASSUME TypeInv, SlotInv, pc \in {"drain", "send"} \/ Serving
  PROVE  cur \in Slots /\ slot[cur] \in Conns /\ conn[slot[cur]] = "open"
BY DEF TypeInv, TypeOK, SlotInv, Serving

(* The header at the front of a buffer that is being drained. *)
LEMMA FrontHeader ==
  ASSUME TypeInv, SlotInv, StreamInv, pc \in {"drain", "send"}, buf[cur] # <<>>
  PROVE  /\ First = buf[cur][1] /\ First = (buf[cur] \o inq[slot[cur]])[1]
         /\ First.unit = "header" /\ First \in Headers
         /\ First.id = Behind(slot[cur]) + 1
         /\ First.conn = slot[cur] /\ First.len \in Nat
         /\ buf[cur] \o inq[slot[cur]] # <<>>
<1> DEFINE c == slot[cur]
           b == buf[cur]
           q == inq[c]
           S == b \o q
<1>1. cur \in Slots /\ c \in Conns /\ c # NoConn
  BY AtSlot, IpcAssumption
<1>2. b \in Seq(Units) /\ q \in Seq(Units) /\ Len(b) \in Nat \ {0} /\ Len(q) \in Nat
  BY <1>1, TypeFacts, EmptySeq
<1>3. WellFormed(S, c, Behind(c), frames[c], unsent[c])
  BY <1>1 DEF StreamInv
<1> HIDE DEF c, b, q
<1>4. /\ S \in Seq(Units) /\ Len(S) = Len(b) + Len(q)
      /\ \A i \in 1..(Len(b) + Len(q)) : S[i] = IF i <= Len(b) THEN b[i] ELSE q[i - Len(b)]
  BY <1>2, ConcatProperties
<1> HIDE DEF S
<1>5. S # <<>> /\ S[1] = b[1] /\ 1 \in DOMAIN S /\ S[1] \in Units
  <2>1. Len(S) \in Nat \ {0}
    BY <1>2, <1>4
  <2>2. S # <<>> /\ 1 \in DOMAIN S /\ S[1] \in Units
    BY <1>4, <2>1, EmptySeq, LenProperties
  <2>3. S[1] = b[1]
    BY <1>2, <1>4
  <2> QED BY <2>2, <2>3
<1>6. S[1].unit = "header" /\ S[1].id = Behind(c) + 1 /\ S[1].conn = c
  BY <1>3, <1>5 DEF WellFormed
<1>7. First = b[1]
  BY DEF First, b
<1> QED BY <1>5, <1>6, <1>7, UnitFacts DEF S, b, q, c

(* Closing a connection keeps the types. *)
LEMMA CloseType ==
  ASSUME TypeInv, NEW s \in Slots, slot[s] \in Conns, close_client(s)
  PROVE  /\ conn' \in [Conns -> {"new", "backlog", "open", "closed"}]
         /\ slot' \in [Slots -> Conns \cup {NoConn}]
         /\ inq' \in [Conns -> Seq(Units)] /\ buf' \in [Slots -> Seq(Units)]
         /\ \A t \in Slots : Len(buf'[t]) <= BufSize
<1>1. <<>> \in Seq(Units) /\ Len(<<>>) = 0 /\ BufSize \in Nat
  BY TypeFacts, EmptySeq
<1> QED BY <1>1 DEF TypeInv, TypeOK, close_client

(* The memmove keeps the types. *)
LEMMA ConsumeType ==
  ASSUME TypeInv, SlotInv, StreamInv, BufferInv, pc = "send", Consume
  PROVE  /\ buf' \in [Slots -> Seq(Units)] /\ \A t \in Slots : Len(buf'[t]) <= BufSize
         /\ buf' = [buf EXCEPT ![cur] = SubSeq(buf[cur], 2 + First.len, Len(buf[cur]))]
         /\ First.len \in 1..MaxLen /\ 2 + First.len \in 1..(Len(buf[cur]) + 1)
<1> DEFINE b == buf[cur]
           k == 2 + First.len
<1>1. cur \in Slots /\ b \in Seq(Units) /\ Len(b) \in Nat /\ b # <<>> /\ Len(b) <= BufSize
  BY AtSlot, TypeFacts DEF BufferInv, TypeInv, TypeOK
<1>2. First.len \in Nat /\ First = b[1]
  BY <1>1, FrontHeader
<1>3. First.len \in 1..MaxLen /\ k \in 1..(Len(b) + 1) /\ k \in Nat /\ k >= 1
  <2>1. First.len \in 1..MaxLen /\ Len(b) >= 1 + First.len
    BY <1>2 DEF BufferInv
  <2>2. MaxLen \in Nat
    BY IpcAssumption
  <2> QED BY <1>1, <1>2, <2>1, <2>2
<1>4. SubSeq(b, k, Len(b)) \in Seq(Units) /\ Len(SubSeq(b, k, Len(b))) = Len(b) + 1 - k
  <2> HIDE DEF b, k
  <2> QED BY <1>1, <1>3, ConsumeFront, EmptySeq
<1>5. Len(SubSeq(b, k, Len(b))) <= BufSize
  BY <1>1, <1>3, <1>4, TypeFacts
<1>6. buf' = [buf EXCEPT ![cur] = SubSeq(b, k, Len(b))]
  BY DEF Consume
<1> QED BY <1>1, <1>3, <1>4, <1>5, <1>6 DEF TypeInv, TypeOK

(* accept_new_clients finds the lowest slot when one is free. *)
LEMMA LowestSlot ==
  ASSUME FreeSlots # {}
  PROVE  (CHOOSE s \in FreeSlots : \A t \in FreeSlots : s <= t) \in FreeSlots
<1> DEFINE Less == {ss \in Nat \X Nat : ss[1] < ss[2]}
           F == FreeSlots
<1>1. IsWellFoundedOn(Less, Nat)
  BY NatLessThanWellFounded DEF OpToRel
<1>2. F \subseteq Nat /\ F # {}
  BY IpcAssumption DEF FreeSlots, Slots
<1> HIDE DEF Less, F
<1>3. PICK x \in F : \A y \in F : ~(<<y, x>> \in Less)
  BY <1>1, <1>2, WFMin
<1>4. \A y \in F : ~(y < x)
  BY <1>2, <1>3 DEF Less
<1>5. \A y \in F : x <= y
  BY <1>2, <1>4
<1>6. (CHOOSE s \in F : \A t \in F : s <= t) \in F
  BY <1>5
<1> QED BY <1>6 DEF F

LEMMA StepType ==
  ServerInv /\ [Next]_vars => TypeInv'
<1> SUFFICES ASSUME TypeInv, SlotInv, StreamInv, BufferInv, CountInv, [Next]_vars
             PROVE  TypeInv'
  BY DEF ServerInv
<1> USE IpcAssumption, FrameAssumption
<1>1. CASE UNCHANGED vars
  BY <1>1 DEF vars, TypeInv, TypeOK
<1>2. ASSUME NEW c \in Conns, Connect(c) PROVE TypeInv'
  <2>1. backlog' \in Seq(Conns)
    BY <1>2, AppendProperties DEF Connect, TypeInv
  <2> QED BY <1>2, <2>1 DEF Connect, clientVars, TypeInv, TypeOK
<1>3. ASSUME NEW c \in Conns, WriteHeader(c) PROVE TypeInv'
  <2>1. PICK f \in FrameShapes :
          /\ inq' = [inq EXCEPT ![c] = Append(@, Header(c, frames[c] + 1, f))]
          /\ unsent' = [unsent EXCEPT ![c] = f[1]]
    BY <1>3 DEF WriteHeader
  <2>2. Header(c, frames[c] + 1, f) \in Units /\ f[1] \in Nat
    BY <2>1, TypeFacts DEF Header, Units, Headers
  <2>3. inq' \in [Conns -> Seq(Units)] /\ unsent' \in [Conns -> Nat]
    BY <2>1, <2>2, AppendProperties DEF TypeInv, TypeOK
  <2>4. frames' \in [Conns -> 0..MaxFrames]
    BY <1>3 DEF WriteHeader, TypeInv, TypeOK
  <2> QED BY <1>3, <2>3, <2>4 DEF WriteHeader, TypeInv, TypeOK
<1>4. ASSUME NEW c \in Conns, WritePayload(c) PROVE TypeInv'
  <2>1. inq' \in [Conns -> Seq(Units)]
    BY <1>4, AppendProperties DEF WritePayload, TypeInv, Units
  <2>2. unsent' \in [Conns -> Nat]
    BY <1>4 DEF WritePayload, TypeInv, TypeOK
  <2> QED BY <1>4, <2>1, <2>2 DEF WritePayload, TypeInv, TypeOK
<1>5. ASSUME NEW c \in Conns, ReadAnswer(c) PROVE TypeInv'
  <2>1. outq[c] \in Answers /\ outq[c] # <<>> /\ Len(outq[c]) <= SocketRoom
        /\ got[c] \in Answers
    BY <1>5 DEF ReadAnswer, TypeInv, TypeOK
  <2>2. /\ Head(outq[c]) \in Conns \X Nat /\ Tail(outq[c]) \in Answers
        /\ Len(Tail(outq[c])) <= SocketRoom
    BY <2>1, HeadTailProperties, LenProperties DEF Answers
  <2>3. got' \in [Conns -> Answers] /\ outq' \in [Conns -> Answers]
    BY <1>5, <2>1, <2>2, AppendProperties DEF ReadAnswer, TypeInv, Answers
  <2>4. \A d \in Conns : Len(outq'[d]) <= SocketRoom
    BY <1>5, <2>2 DEF ReadAnswer, TypeInv, TypeOK
  <2> QED BY <1>5, <2>3, <2>4 DEF ReadAnswer, TypeInv, TypeOK
<1>6. ASSUME NEW c \in Conns, HangUp(c) PROVE TypeInv'
  BY <1>6 DEF HangUp, TypeInv, TypeOK
<1>7. CASE Select
  <2>1. ready' \subseteq Slots /\ pc' \in {"accept", "serve"} /\ cur' = 1
    BY <1>7 DEF Select
  <2>2. cur' \in 1..(IPC_MAX_CLIENTS + 1)
    BY <2>1
  <2>3. UNCHANGED <<conn, clientVars, inq, outq, backlog, slot, buf, handled>>
    BY <1>7 DEF Select
  <2> QED BY <2>1, <2>2, <2>3 DEF clientVars, TypeInv, TypeOK
<1>8. CASE AcceptOne
  <2>1. Head(backlog) \in Conns /\ Tail(backlog) \in Seq(Conns) /\ backlog' = Tail(backlog)
    BY <1>8, HeadTailProperties DEF AcceptOne, TypeInv
  <2>2. CASE FreeSlots = {}
    <3>1. inq' \in [Conns -> Seq(Units)]
      <4>1. <<>> \in Seq(Units) /\ inq' = [inq EXCEPT ![Head(backlog)] = <<>>]
        BY <1>8, <2>2, EmptySeq DEF AcceptOne
      <4> QED BY <2>1, <4>1 DEF TypeInv
    <3> QED BY <1>8, <2>1, <2>2, <3>1 DEF AcceptOne, clientVars, TypeInv, TypeOK
  <2>3. CASE FreeSlots # {}
    <3> DEFINE s == CHOOSE s \in FreeSlots : \A t \in FreeSlots : s <= t
    <3>1. /\ conn' = [conn EXCEPT ![Head(backlog)] = "open"]
          /\ slot' = [slot EXCEPT ![s] = Head(backlog)]
          /\ buf' = [buf EXCEPT ![s] = <<>>]
          /\ UNCHANGED inq
      BY <1>8, <2>3 DEF AcceptOne
    <3>s. s \in Slots
      BY <2>3, LowestSlot DEF FreeSlots
    <3> HIDE DEF s
    <3>2. buf' \in [Slots -> Seq(Units)] /\ \A t \in Slots : Len(buf'[t]) <= BufSize
      <4>1. <<>> \in Seq(Units) /\ Len(<<>>) = 0 /\ BufSize \in Nat
        BY TypeFacts, EmptySeq
      <4>2. buf \in [Slots -> Seq(Units)] /\ \A t \in Slots : Len(buf[t]) <= BufSize
        BY DEF TypeInv, TypeOK
      <4>3. \A t \in Slots : buf'[t] = IF t = s THEN <<>> ELSE buf[t]
        BY <3>1, <4>2
      <4>4. buf' \in [Slots -> Seq(Units)]
        BY <3>1, <4>1, <4>2
      <4> QED BY <4>1, <4>2, <4>3, <4>4
    <3>3. slot' \in [Slots -> Conns \cup {NoConn}]
          /\ conn' \in [Conns -> {"new", "backlog", "open", "closed"}]
      BY <2>1, <3>1 DEF TypeInv, TypeOK
    <3> QED BY <1>8, <2>1, <3>1, <3>2, <3>3 DEF AcceptOne, clientVars, TypeInv, TypeOK
  <2> QED BY <2>2, <2>3
<1>9. CASE AcceptDone
  BY <1>9 DEF AcceptDone, clientVars, TypeInv, TypeOK
<1>10. CASE SkipSlot
  <2>1. cur \in 1..IPC_MAX_CLIENTS /\ cur' = cur + 1 /\ pc' = "serve"
    BY <1>10 DEF SkipSlot, NextSlot, Slots
  <2>2. cur' \in 1..(IPC_MAX_CLIENTS + 1)
    BY <2>1
  <2>3. UNCHANGED <<conn, clientVars, inq, outq, backlog, slot, buf, ready, handled>>
    BY <1>10 DEF SkipSlot
  <2> QED BY <2>1, <2>2, <2>3 DEF clientVars, TypeInv, TypeOK
<1>11. CASE TurnDone
  BY <1>11 DEF TurnDone, clientVars, TypeInv, TypeOK
<1>12. CASE ReadSome
  <2> DEFINE q == inq[slot[cur]]
             n == IF Len(q) < Room THEN Len(q) ELSE Room
             b == buf[cur]
  <2>1. /\ Room > 0 /\ pc' = "drain"
        /\ buf' = [buf EXCEPT ![cur] = b \o SubSeq(q, 1, n)]
        /\ inq' = [inq EXCEPT ![slot[cur]] = SubSeq(q, n + 1, Len(q))]
    BY <1>12 DEF ReadSome
  <2>2. cur \in Slots /\ slot[cur] \in Conns /\ b \in Seq(Units) /\ q \in Seq(Units)
        /\ Len(b) \in Nat /\ Len(q) \in Nat /\ Room = BufSize - Len(b) /\ BufSize \in Nat
    BY <1>12, AtSlot, TypeFacts DEF ReadSome, Room
  <2>3. n \in 0..Len(q) /\ n <= BufSize - Len(b)
    <3> HIDE DEF q, b
    <3>1. CASE Len(q) < Room
      BY <2>1, <2>2, <3>1
    <3>2. CASE ~(Len(q) < Room)
      BY <2>1, <2>2, <3>2
    <3> QED BY <3>1, <3>2
  <2> HIDE DEF n, q, b
  <2>4. /\ SubSeq(q, 1, n) \in Seq(Units) /\ Len(SubSeq(q, 1, n)) = n
        /\ SubSeq(q, n + 1, Len(q)) \in Seq(Units)
    BY <2>2, <2>3, ReadMoves
  <2>5. b \o SubSeq(q, 1, n) \in Seq(Units) /\ Len(b \o SubSeq(q, 1, n)) = Len(b) + n
    BY <2>2, <2>4, ConcatProperties
  <2>6. Len(b \o SubSeq(q, 1, n)) <= BufSize
    BY <2>2, <2>3, <2>5
  <2>7. /\ buf' \in [Slots -> Seq(Units)] /\ inq' \in [Conns -> Seq(Units)]
        /\ \A t \in Slots : Len(buf'[t]) <= BufSize
    BY <2>1, <2>2, <2>4, <2>5, <2>6 DEF TypeInv, TypeOK
  <2> QED BY <1>12, <2>7 DEF ReadSome, clientVars, TypeInv, TypeOK
<1>13. CASE ReadNothing
  <2>1. cur \in Slots /\ slot[cur] \in Conns /\ Serving
    BY <1>13, AtSlot DEF ReadNothing
  <2>2. cur' \in 1..(IPC_MAX_CLIENTS + 1) /\ pc' = "serve"
    BY <1>13, <2>1 DEF ReadNothing, NextSlot, Slots
  <2>3. CASE Room > 0 /\ ~hungup[slot[cur]]
    BY <1>13, <2>2, <2>3 DEF ReadNothing, clientVars, TypeInv, TypeOK
  <2>4. CASE ~(Room > 0 /\ ~hungup[slot[cur]])
    <3>1. close_client(cur)
      BY <1>13, <2>4 DEF ReadNothing
    <3> QED BY <1>13, <2>1, <2>2, <3>1, CloseType DEF ReadNothing, clientVars, TypeInv, TypeOK
  <2> QED BY <2>3, <2>4
<1>14. CASE WaitForMore
  BY <1>14 DEF WaitForMore, clientVars, TypeInv, TypeOK
<1>15. ASSUME close_client(cur), NextSlot, pc \in {"drain", "send"},
              UNCHANGED <<clientVars, outq, backlog, ready, handled>>
       PROVE  TypeInv'
  <2>1. cur \in Slots /\ slot[cur] \in Conns
    BY <1>15, AtSlot
  <2>2. cur' \in 1..(IPC_MAX_CLIENTS + 1) /\ pc' = "serve"
    BY <1>15, <2>1 DEF NextSlot, Slots
  <2> QED BY <1>15, <2>1, <2>2, CloseType DEF clientVars, TypeInv, TypeOK
<1>16. CASE BadLength
  BY <1>15, <1>16 DEF BadLength, HasHeader
<1>17. CASE handle_frame
  <2>1. CASE First.body \in Closing
    BY <1>15, <1>17, <2>1 DEF handle_frame, HasFrame, HasHeader, Closing, Answered
  <2>2. CASE First.body \notin Closing
    <3>1. /\ handled' = [handled EXCEPT ![First.conn] = Append(@, First.id)]
          /\ pc' = "send" /\ pc = "drain" /\ buf[cur] # <<>>
          /\ UNCHANGED <<conn, inq, slot, buf, cur>>
          /\ UNCHANGED <<clientVars, outq, backlog, ready>>
      BY <1>17, <2>2 DEF handle_frame, HasFrame, HasHeader
    <3>2. First \in Headers
      BY <3>1, FrontHeader
    <3>3. handled' \in [Conns -> Seq(Nat)]
      BY <3>1, <3>2, AppendProperties DEF TypeInv, Headers
    <3> QED BY <3>1, <3>3 DEF clientVars, TypeInv, TypeOK
  <2> QED BY <2>1, <2>2
<1>18. CASE send_all
  <2>1. /\ pc = "send" /\ ~Full /\ Consume /\ pc' = "drain"
        /\ outq' = [outq EXCEPT ![slot[cur]] = Append(outq[slot[cur]], <<First.conn, First.id>>)]
    BY <1>18 DEF send_all, Answer
  <2>2. slot[cur] \in Conns /\ outq[slot[cur]] \in Answers /\ Len(outq[slot[cur]]) \in Nat
    BY <2>1, AtSlot, TypeFacts
  <2>3. <<First.conn, First.id>> \in Conns \X Nat
    BY <2>1, FrontHeader DEF BufferInv, Headers
  <2>4. /\ Append(outq[slot[cur]], <<First.conn, First.id>>) \in Answers
        /\ Len(Append(outq[slot[cur]], <<First.conn, First.id>>)) <= SocketRoom
    <3>1. Len(outq[slot[cur]]) < SocketRoom
      BY <2>1, <2>2 DEF Full
    <3>2. Len(outq[slot[cur]]) + 1 <= SocketRoom
      BY <2>2, <3>1
    <3> QED BY <2>2, <2>3, <3>2, AppendProperties DEF Answers
  <2>5. outq' \in [Conns -> Answers] /\ \A c \in Conns : Len(outq'[c]) <= SocketRoom
    BY <2>1, <2>2, <2>4 DEF TypeInv, TypeOK
  <2> QED BY <1>18, <2>1, <2>5, ConsumeType DEF send_all, clientVars, TypeInv, TypeOK
<1>19. CASE SendFails
  BY <1>15, <1>19 DEF SendFails
<1>20. CASE ipc_server_stop
  BY <1>20, TypeFacts, EmptySeq DEF ipc_server_stop, clientVars, TypeInv, TypeOK
<1>21. CASE ipc_server_start
  BY <1>21 DEF ipc_server_start, clientVars, TypeInv, TypeOK
<1> QED BY <1>1, <1>2, <1>3, <1>4, <1>5, <1>6, <1>7, <1>8, <1>9, <1>10, <1>11, <1>12, <1>13,
           <1>14, <1>16, <1>17, <1>18, <1>19, <1>20, <1>21 DEF Next, Client, Server

LEMMA StepSlot ==
  ServerInv /\ [Next]_vars => SlotInv'
<1> SUFFICES ASSUME TypeInv, SlotInv, [Next]_vars
             PROVE  SlotInv'
  BY DEF ServerInv
<1> USE IpcAssumption
<1>1. ASSUME UNCHANGED <<conn, slot, backlog>>,
             pc' \in {"drain", "send"} => cur' \in ready' /\ slot[cur'] # NoConn
      PROVE  SlotInv'
  BY <1>1 DEF SlotInv
<1>2. ASSUME NEW c \in Conns, Connect(c) PROVE SlotInv'
  <2>1. conn[c] = "new" /\ conn' = [conn EXCEPT ![c] = "backlog"]
        /\ backlog' = Append(backlog, c) /\ UNCHANGED <<slot, pc, cur, ready>>
    BY <1>2 DEF Connect
  <2>2. /\ Len(backlog) \in Nat /\ DOMAIN backlog = 1..Len(backlog)
        /\ \A i \in 1..Len(backlog) : backlog[i] \in Conns
        /\ DOMAIN backlog' = 1..(Len(backlog) + 1)
        /\ \A i \in 1..Len(backlog) : backlog'[i] = backlog[i]
        /\ backlog'[Len(backlog) + 1] = c
    BY <2>1, AppendProperties, LenProperties DEF TypeInv
  <2>3. \A i \in 1..Len(backlog) : conn[backlog[i]] = "backlog" /\ backlog[i] # c
    BY <2>1, <2>2 DEF SlotInv
  <2>4. \A d \in Conns : conn'[d] = IF d = c THEN "backlog" ELSE conn[d]
    BY <2>1 DEF TypeInv, TypeOK
  <2>5. \A i \in DOMAIN backlog' : conn'[backlog'[i]] = "backlog"
    <3> TAKE i \in DOMAIN backlog'
    <3>1. CASE i = Len(backlog) + 1
      BY <2>2, <2>4, <3>1
    <3>2. CASE i \in 1..Len(backlog)
      BY <2>2, <2>3, <2>4, <3>2
    <3> QED BY <2>2, <3>1, <3>2
  <2>6. \A i, j \in DOMAIN backlog' : backlog'[i] = backlog'[j] => i = j
    <3> TAKE i, j \in DOMAIN backlog'
    <3>1. CASE i \in 1..Len(backlog) /\ j \in 1..Len(backlog)
      BY <2>2, <3>1 DEF SlotInv
    <3>2. CASE i = Len(backlog) + 1 /\ j \in 1..Len(backlog)
      BY <2>2, <2>3, <3>2
    <3>3. CASE j = Len(backlog) + 1 /\ i \in 1..Len(backlog)
      BY <2>2, <2>3, <3>3
    <3> QED BY <2>2, <3>1, <3>2, <3>3
  <2>7. /\ \A s \in Slots : slot'[s] # NoConn => conn'[slot'[s]] = "open"
        /\ \A d \in Conns : conn'[d] = "open" => \E s \in Slots : slot'[s] = d
    BY <2>1, <2>4 DEF SlotInv, TypeInv, TypeOK
  <2> QED BY <2>1, <2>5, <2>6, <2>7 DEF SlotInv
<1>3. ASSUME NEW c \in Conns, WriteHeader(c) \/ WritePayload(c) \/ ReadAnswer(c) \/ HangUp(c)
      PROVE  SlotInv'
  BY <1>1, <1>3 DEF WriteHeader, WritePayload, ReadAnswer, HangUp, SlotInv
<1>4. CASE Select
  BY <1>1, <1>4 DEF Select
<1>5. CASE AcceptOne
  <2> DEFINE h == Head(backlog)
  <2>1. backlog # <<>> /\ backlog' = Tail(backlog) /\ UNCHANGED pc /\ pc = "accept"
    BY <1>5 DEF AcceptOne
  <2>2. /\ h \in Conns /\ h = backlog[1] /\ Len(backlog) \in Nat \ {0}
        /\ DOMAIN backlog = 1..Len(backlog)
        /\ DOMAIN backlog' = 1..(Len(backlog) - 1)
        /\ \A i \in 1..(Len(backlog) - 1) : backlog'[i] = backlog[i + 1]
        /\ \A i \in 1..Len(backlog) : backlog[i] \in Conns
    BY <2>1, HeadTailProperties, LenProperties, EmptySeq DEF TypeInv
  <2> HIDE DEF h
  <2>3. conn[h] = "backlog" /\ 1 \in 1..Len(backlog)
    BY <2>2 DEF SlotInv
  <2>4. \A i \in DOMAIN backlog' :
          i + 1 \in 1..Len(backlog) /\ backlog'[i] = backlog[i + 1] /\ backlog'[i] # h
    <3> TAKE i \in DOMAIN backlog'
    <3>1. i + 1 \in 1..Len(backlog) /\ i + 1 # 1 /\ i \in 1..(Len(backlog) - 1)
      BY <2>2
    <3> QED BY <2>2, <2>3, <3>1 DEF SlotInv
  <2>5. \A i, j \in DOMAIN backlog' : backlog'[i] = backlog'[j] => i = j
    <3> TAKE i, j \in DOMAIN backlog'
    <3>1. backlog'[i] = backlog'[j] => i + 1 = j + 1
      BY <2>2, <2>4 DEF SlotInv
    <3> QED BY <2>2, <3>1
  <2>6. ASSUME conn' = [conn EXCEPT ![h] = "open"] \/ conn' = [conn EXCEPT ![h] = "closed"]
        PROVE  \A i \in DOMAIN backlog' : conn'[backlog'[i]] = "backlog"
    <3> TAKE i \in DOMAIN backlog'
    <3>1. backlog'[i] \in Conns /\ backlog'[i] # h /\ conn[backlog'[i]] = "backlog"
      BY <2>2, <2>4 DEF SlotInv
    <3> QED BY <2>6, <3>1 DEF TypeInv, TypeOK
  <2>7. CASE FreeSlots = {}
    <3>1. conn' = [conn EXCEPT ![h] = "closed"] /\ UNCHANGED slot
      BY <1>5, <2>7 DEF AcceptOne, h
    <3>2. \A d \in Conns : conn'[d] = IF d = h THEN "closed" ELSE conn[d]
      BY <3>1 DEF TypeInv, TypeOK
    <3>3. /\ \A s \in Slots : slot'[s] # NoConn => conn'[slot'[s]] = "open"
          /\ \A d \in Conns : conn'[d] = "open" => \E s \in Slots : slot'[s] = d
      <4>1. ASSUME NEW s \in Slots, slot'[s] # NoConn PROVE conn'[slot'[s]] = "open"
        <5>1. slot'[s] = slot[s] /\ slot[s] \in Conns /\ conn[slot[s]] = "open"
          BY <3>1, <4>1, TypeFacts DEF SlotInv
        <5> QED BY <2>3, <3>2, <5>1
      <4>2. ASSUME NEW d \in Conns, conn'[d] = "open" PROVE \E s \in Slots : slot'[s] = d
        BY <3>1, <3>2, <4>2 DEF SlotInv
      <4> QED BY <4>1, <4>2
    <3> QED BY <2>1, <2>5, <2>6, <3>1, <3>3 DEF SlotInv
  <2>8. CASE FreeSlots # {}
    <3> DEFINE s0 == CHOOSE s \in FreeSlots : \A t \in FreeSlots : s <= t
    <3>1. conn' = [conn EXCEPT ![h] = "open"] /\ slot' = [slot EXCEPT ![s0] = h]
      BY <1>5, <2>8 DEF AcceptOne, h
    <3>2. s0 \in Slots /\ slot[s0] = NoConn
      BY <2>8, LowestSlot DEF FreeSlots
    <3> HIDE DEF s0
    <3>3. /\ \A d \in Conns : conn'[d] = IF d = h THEN "open" ELSE conn[d]
          /\ \A s \in Slots : slot'[s] = IF s = s0 THEN h ELSE slot[s]
      BY <3>1 DEF TypeInv, TypeOK
    <3>4. \A s \in Slots : slot[s] # h
      BY <2>2, <2>3 DEF SlotInv
    <3>5. /\ \A s \in Slots : slot'[s] # NoConn => conn'[slot'[s]] = "open"
          /\ \A d \in Conns : conn'[d] = "open" => \E s \in Slots : slot'[s] = d
      <4>1. ASSUME NEW s \in Slots, slot'[s] # NoConn PROVE conn'[slot'[s]] = "open"
        <5>1. CASE s = s0
          BY <2>2, <3>3, <5>1
        <5>2. CASE s # s0
          <6>1. slot'[s] = slot[s] /\ slot[s] \in Conns /\ conn[slot[s]] = "open"
            BY <3>3, <4>1, <5>2, TypeFacts DEF SlotInv
          <6> QED BY <3>3, <6>1
        <5> QED BY <5>1, <5>2
      <4>2. ASSUME NEW d \in Conns, conn'[d] = "open" PROVE \E s \in Slots : slot'[s] = d
        BY <3>2, <3>3, <4>2 DEF SlotInv
      <4> QED BY <4>1, <4>2
    <3>6. \A s, t \in Slots : slot'[s] = slot'[t] /\ slot'[s] # NoConn => s = t
      BY <3>2, <3>3, <3>4 DEF SlotInv
    <3> QED BY <2>1, <2>5, <2>6, <3>1, <3>5, <3>6 DEF SlotInv
  <2> QED BY <2>7, <2>8
<1>6. CASE AcceptDone \/ SkipSlot \/ TurnDone \/ WaitForMore
  BY <1>1, <1>6 DEF AcceptDone, SkipSlot, TurnDone, WaitForMore, NextSlot
<1>7. CASE ReadSome
  BY <1>1, <1>7 DEF ReadSome, Serving
<1>8. ASSUME close_client(cur), NextSlot, pc \in {"drain", "send"} \/ Serving, UNCHANGED backlog
      PROVE  SlotInv'
  <2> DEFINE h == slot[cur]
  <2>1. cur \in Slots /\ h \in Conns /\ h # NoConn /\ conn[h] = "open"
    BY <1>8, AtSlot
  <2>2. /\ \A d \in Conns : conn'[d] = IF d = h THEN "closed" ELSE conn[d]
        /\ \A s \in Slots : slot'[s] = IF s = cur THEN NoConn ELSE slot[s]
    BY <1>8 DEF close_client, TypeInv, TypeOK
  <2> HIDE DEF h
  <2>3. \A s \in Slots : slot[s] = h => s = cur
    BY <2>1 DEF SlotInv, h
  <2>4. \A s \in Slots : slot'[s] # NoConn => conn'[slot'[s]] = "open"
    <3> SUFFICES ASSUME NEW s \in Slots, slot'[s] # NoConn PROVE conn'[slot'[s]] = "open"
      OBVIOUS
    <3>1. s # cur /\ slot'[s] = slot[s]
      BY <2>2
    <3>2. slot[s] \in Conns /\ conn[slot[s]] = "open"
      BY <3>1 DEF SlotInv, TypeInv, TypeOK
    <3>3. slot[s] # h
      BY <2>3, <3>1
    <3> QED BY <2>2, <3>1, <3>2, <3>3
  <2>5. ASSUME NEW d \in Conns, conn'[d] = "open" PROVE \E s \in Slots : slot'[s] = d
    <3>1. d # h /\ conn[d] = "open"
      BY <2>2, <2>5
    <3>2. PICK s \in Slots : slot[s] = d
      BY <3>1 DEF SlotInv
    <3> QED BY <2>2, <3>1, <3>2 DEF h
  <2>6. \A s, t \in Slots : slot'[s] = slot'[t] /\ slot'[s] # NoConn => s = t
    BY <2>2 DEF SlotInv
  <2>7. \A i \in DOMAIN backlog : backlog[i] \in Conns /\ backlog[i] # h
    BY <2>1, LenProperties DEF SlotInv, TypeInv
  <2>8. \A i \in DOMAIN backlog' : conn'[backlog'[i]] = "backlog"
    BY <1>8, <2>2, <2>7 DEF SlotInv
  <2>9. pc' = "serve"
    BY <1>8 DEF NextSlot
  <2>10. \A i, j \in DOMAIN backlog' : backlog'[i] = backlog'[j] => i = j
    BY <1>8 DEF SlotInv
  <2> QED BY <2>4, <2>5, <2>6, <2>8, <2>9, <2>10 DEF SlotInv
<1>9. CASE ReadNothing
  BY <1>1, <1>8, <1>9 DEF ReadNothing, NextSlot
<1>10. CASE BadLength \/ SendFails
  BY <1>8, <1>10 DEF BadLength, SendFails, HasHeader
<1>11. CASE handle_frame
  <2>1. CASE First.body \in Closing
    BY <1>8, <1>11, <2>1 DEF handle_frame, HasFrame, HasHeader, Closing, Answered
  <2>2. CASE First.body \notin Closing
    BY <1>1, <1>11, <2>2 DEF handle_frame, HasFrame, HasHeader, SlotInv
  <2> QED BY <2>1, <2>2
<1>12. CASE send_all
  BY <1>1, <1>12 DEF send_all, SlotInv
<1>13. CASE ipc_server_stop
  BY <1>13 DEF ipc_server_stop, SlotInv, TypeInv, TypeOK
<1>14. CASE ipc_server_start
  BY <1>1, <1>14 DEF ipc_server_start
<1>15. CASE UNCHANGED vars
  BY <1>15 DEF vars, SlotInv
<1> QED BY <1>2, <1>3, <1>4, <1>5, <1>6, <1>7, <1>9, <1>10, <1>11, <1>12, <1>13, <1>14, <1>15
        DEF Next, Client, Server

LEMMA StepBuffer ==
  ServerInv /\ [Next]_vars => BufferInv'
<1> SUFFICES ASSUME TypeInv, SlotInv, StreamInv, BufferInv, [Next]_vars
             PROVE  BufferInv'
  BY DEF ServerInv
<1> USE IpcAssumption
<1>1. ASSUME UNCHANGED <<slot, buf, pc, cur>> PROVE BufferInv'
  BY <1>1 DEF BufferInv, Partial
<1>2. ASSUME UNCHANGED <<slot, buf>>, pc' \notin {"drain", "send"},
             \A s \in Slots : pc \in {"drain", "send"} /\ s = cur => Partial(buf[s])
      PROVE  BufferInv'
  <2>1. \A s \in Slots : Partial(buf[s])
    BY <1>2 DEF BufferInv
  <2> QED BY <1>2, <2>1 DEF BufferInv, Partial
<1>3. ASSUME NEW c \in Conns, Client(c) PROVE BufferInv'
  BY <1>1, <1>3 DEF Client, Connect, WriteHeader, WritePayload, ReadAnswer, HangUp
<1>4. CASE Select \/ AcceptDone \/ SkipSlot \/ TurnDone
  BY <1>2, <1>4 DEF Select, AcceptDone, SkipSlot, TurnDone, NextSlot
<1>5. CASE AcceptOne
  <2>0. pc = "accept" /\ pc' = "accept"
    BY <1>5 DEF AcceptOne
  <2>1. CASE FreeSlots = {}
    BY <1>1, <1>5, <2>1 DEF AcceptOne
  <2>2. CASE FreeSlots # {}
    <3> DEFINE s0 == CHOOSE s \in FreeSlots : \A t \in FreeSlots : s <= t
    <3>1. slot' = [slot EXCEPT ![s0] = Head(backlog)] /\ buf' = [buf EXCEPT ![s0] = <<>>]
      BY <1>5, <2>2 DEF AcceptOne
    <3> HIDE DEF s0
    <3>2. \A s \in Slots : /\ buf'[s] = IF s = s0 THEN <<>> ELSE buf[s]
                           /\ s # s0 => slot'[s] = slot[s]
      BY <3>1 DEF TypeInv, TypeOK
    <3>3. \A s \in Slots : Partial(buf'[s])
      BY <2>0, <3>2 DEF BufferInv, Partial
    <3>4. \A s \in Slots : slot'[s] = NoConn => buf'[s] = <<>>
      BY <3>2 DEF BufferInv
    <3> QED BY <2>0, <3>3, <3>4 DEF BufferInv, Partial
  <2> QED BY <2>1, <2>2
<1>6. CASE ReadSome
  <2>1. /\ cur \in Slots /\ slot[cur] # NoConn /\ pc = "serve" /\ pc' = "drain"
        /\ UNCHANGED <<slot, cur>>
    BY <1>6, AtSlot DEF ReadSome, Serving
  <2>2. \A s \in Slots : s # cur => buf'[s] = buf[s]
    BY <1>6 DEF ReadSome, TypeInv
  <2>3. \A s \in Slots : slot'[s] = NoConn => buf'[s] = <<>>
    BY <2>1, <2>2 DEF BufferInv
  <2>4. \A s \in Slots : s # cur' => Partial(buf'[s])
    BY <2>1, <2>2 DEF BufferInv, Partial
  <2> QED BY <2>1, <2>3, <2>4 DEF BufferInv, Partial
<1>7. ASSUME close_client(cur), NextSlot, pc \in {"drain", "send"} \/ Serving
      PROVE  BufferInv'
  <2>1. \A s \in Slots : /\ buf'[s] = IF s = cur THEN <<>> ELSE buf[s]
                         /\ s # cur => slot'[s] = slot[s]
    BY <1>7 DEF close_client, TypeInv, TypeOK
  <2>2. \A s \in Slots : Partial(buf'[s])
    BY <2>1 DEF BufferInv, Partial
  <2>3. \A s \in Slots : slot'[s] = NoConn => buf'[s] = <<>>
    BY <2>1 DEF BufferInv
  <2>4. pc' = "serve"
    BY <1>7 DEF NextSlot
  <2> QED BY <2>2, <2>3, <2>4 DEF BufferInv, Partial
<1>8. CASE ReadNothing
  BY <1>2, <1>7, <1>8 DEF ReadNothing, NextSlot, Serving
<1>9. CASE WaitForMore
  <2>1. pc = "drain" /\ pc' = "serve" /\ UNCHANGED <<slot, buf>>
    BY <1>9 DEF WaitForMore
  <2>2. ASSUME buf[cur] # <<>> PROVE buf[cur][1].len \in 1..MaxLen /\ Len(buf[cur]) < 1 + buf[cur][1].len
    <3>1. First = buf[cur][1] /\ First.len \in Nat
      BY <2>1, <2>2, FrontHeader
    <3>2. First.len > 0 /\ First.len <= MaxLen /\ Len(buf[cur]) < 1 + First.len
      BY <1>9, <2>2 DEF WaitForMore, LengthOk
    <3> QED BY <3>1, <3>2
  <2>3. Partial(buf[cur])
    BY <2>2 DEF Partial
  <2> QED BY <1>2, <2>1, <2>3
<1>10. CASE BadLength \/ SendFails
  BY <1>7, <1>10 DEF BadLength, SendFails, HasHeader
<1>11. CASE handle_frame
  <2>1. CASE First.body \in Closing
    BY <1>7, <1>11, <2>1 DEF handle_frame, HasFrame, HasHeader, Closing, Answered
  <2>2. CASE First.body \notin Closing
    <3>1. /\ pc = "drain" /\ pc' = "send" /\ buf[cur] # <<>> /\ UNCHANGED <<slot, buf, cur>>
          /\ First.len > 0 /\ First.len <= MaxLen /\ Len(buf[cur]) >= 1 + First.len
      BY <1>11, <2>2 DEF handle_frame, HasFrame, HasHeader, LengthOk
    <3>2. First = buf[cur][1] /\ First.len \in Nat
      BY <3>1, FrontHeader
    <3>3. buf[cur][1].len \in 1..MaxLen /\ Len(buf[cur]) >= 1 + buf[cur][1].len
      BY <3>1, <3>2
    <3> QED BY <3>1, <3>3 DEF BufferInv, Partial
  <2> QED BY <2>1, <2>2
<1>12. CASE send_all
  <2>1. /\ pc = "send" /\ pc' = "drain" /\ UNCHANGED <<slot, cur>> /\ Consume
        /\ cur \in Slots /\ slot[cur] # NoConn
    BY <1>12, AtSlot DEF send_all
  <2>2. \A s \in Slots : s # cur => buf'[s] = buf[s]
    BY <2>1 DEF Consume, TypeInv
  <2>3. \A s \in Slots : slot'[s] = NoConn => buf'[s] = <<>>
    BY <2>1, <2>2 DEF BufferInv
  <2>4. \A s \in Slots : s # cur' => Partial(buf'[s])
    BY <2>1, <2>2 DEF BufferInv, Partial
  <2> QED BY <2>1, <2>3, <2>4 DEF BufferInv, Partial
<1>13. CASE ipc_server_stop
  BY <1>13 DEF ipc_server_stop, BufferInv, Partial
<1>14. CASE ipc_server_start
  BY <1>2, <1>14 DEF ipc_server_start
<1>15. CASE UNCHANGED vars
  BY <1>1, <1>15 DEF vars
<1> QED BY <1>3, <1>4, <1>5, <1>6, <1>8, <1>9, <1>10, <1>11, <1>12, <1>13, <1>14, <1>15
        DEF Next, Server

(* What an open connection has behind it is a number. *)
LEMMA BehindNat ==
  ASSUME TypeInv, CountInv, NEW c \in Conns, conn[c] = "open"
  PROVE  Behind(c) \in Nat
<1>1. Len(got[c]) \in Nat /\ Len(outq[c]) \in Nat /\ Behind(c) = Len(got[c]) + Len(outq[c])
  BY TypeFacts DEF CountInv
<1>2. \A x, y \in Nat : x + y \in Nat
  OBVIOUS
<1> QED BY <1>1, <1>2

(* Taking the frame at the front of the buffer off the stream. *)
LEMMA FrontFrame ==
  ASSUME TypeInv, SlotInv, StreamInv, CountInv, pc \in {"drain", "send"}, buf[cur] # <<>>,
         Len(buf[cur]) >= 1 + First.len
  PROVE  /\ Behind(slot[cur]) \in Nat
         /\ Behind(slot[cur]) + 1 <= frames[slot[cur]]
         /\ Behind(slot[cur]) + 1 = frames[slot[cur]] => unsent[slot[cur]] = 0
         /\ WellFormed(SubSeq(buf[cur], 2 + First.len, Len(buf[cur])) \o inq[slot[cur]],
                       slot[cur], Behind(slot[cur]) + 1, frames[slot[cur]], unsent[slot[cur]])
<1> DEFINE c == slot[cur]
           b == buf[cur]
           q == inq[c]
           S == b \o q
           d == Behind(c)
           n == frames[c]
           u == unsent[c]
           l == First.len
<1>1. cur \in Slots /\ c \in Conns /\ c # NoConn /\ conn[c] = "open"
  BY AtSlot, IpcAssumption
<1>2. b \in Seq(Units) /\ q \in Seq(Units) /\ Len(b) \in Nat /\ Len(q) \in Nat
      /\ n \in Nat /\ u \in Nat
  BY <1>1, TypeFacts
<1>3. d \in Nat
  BY <1>1, BehindNat
<1>4. WellFormed(S, c, d, n, u)
  BY <1>1 DEF StreamInv
<1>5. S # <<>> /\ S[1].len = l /\ l \in Nat
  BY FrontHeader
<1>6. Len(b) >= 1 + l
  OBVIOUS
<1> HIDE DEF c, b, q, d, n, u, l
<1>7. S \in Seq(Units) /\ Len(S) = Len(b) + Len(q)
  BY <1>2, ConcatProperties
<1>8. 1 + S[1].len <= Len(S) /\ 2 + l \in 1..(Len(b) + 1)
  <2> HIDE DEF S
  <2> QED BY <1>2, <1>5, <1>6, <1>7
<1>9. /\ WellFormed(SubSeq(S, 2 + S[1].len, Len(S)), c, d + 1, n, u)
      /\ d + 1 <= n /\ (d + 1 = n => u = 0)
  <2> HIDE DEF S
  <2>1. /\ S \in Seq(Units) /\ c \in Conns /\ d \in Nat /\ n \in Nat /\ u \in Nat
        /\ WellFormed(S, c, d, n, u) /\ S # <<>> /\ 1 + S[1].len <= Len(S)
    BY <1>1, <1>2, <1>3, <1>4, <1>5, <1>7, <1>8
  <2> QED BY <2>1, StreamConsume
<1>10. SubSeq(b, 2 + l, Len(b)) \o q = SubSeq(S, 2 + l, Len(S))
  BY <1>2, <1>8, ConsumeFront
<1>11. WellFormed(SubSeq(b, 2 + l, Len(b)) \o q, c, d + 1, n, u)
  BY <1>5, <1>9, <1>10
<1> QED BY <1>3, <1>9, <1>11 DEF c, b, q, d, n, u, l

LEMMA StepStream ==
  ServerInv /\ [Next]_vars => StreamInv'
<1> SUFFICES ASSUME TypeInv, SlotInv, StreamInv, BufferInv, CountInv, [Next]_vars
             PROVE  StreamInv'
  BY DEF ServerInv
<1> USE IpcAssumption
<1> DEFINE Waits(c) == /\ WellFormed(inq[c], c, 0, frames[c], unsent[c])
                       /\ handled[c] = <<>> /\ got[c] = <<>> /\ outq[c] = <<>>
                       /\ conn[c] = "new" => inq[c] = <<>>
           Sent(c, s) == WellFormed(buf[s] \o inq[c], c, Behind(c), frames[c], unsent[c])
<1>split. ASSUME \A c \in Conns : conn'[c] \in {"new", "backlog"} => Waits(c)',
                 \A c \in Conns : \A s \in Slots : slot'[s] = c => Sent(c, s)'
          PROVE  StreamInv'
  BY <1>split DEF StreamInv
<1>old. /\ \A c \in Conns : conn[c] \in {"new", "backlog"} => Waits(c)
        /\ \A c \in Conns : \A s \in Slots : slot[s] = c => Sent(c, s)
  BY DEF StreamInv
<1>wait. ASSUME NEW c \in Conns, conn[c] \in {"new", "backlog"},
                inq'[c] = inq[c], handled'[c] = handled[c], frames'[c] = frames[c],
                unsent'[c] = unsent[c], got'[c] = got[c], outq'[c] = outq[c],
                conn'[c] = "new" => conn[c] = "new"
         PROVE  Waits(c)'
  BY <1>old, <1>wait
<1>sent. ASSUME NEW c \in Conns, NEW s \in Slots, slot[s] = c,
                inq'[c] = inq[c], buf'[s] = buf[s], frames'[c] = frames[c],
                unsent'[c] = unsent[c], Behind(c)' = Behind(c)
         PROVE  Sent(c, s)'
  BY <1>old, <1>sent
<1> HIDE DEF Waits, Sent
<1>1. ASSUME UNCHANGED <<conn, inq, handled, frames, unsent, slot, buf, got, outq>>,
             \A c \in Conns : Behind(c)' = Behind(c)
      PROVE  StreamInv'
  BY <1>1, <1>split, <1>wait, <1>sent
<1>2. ASSUME UNCHANGED <<conn, inq, handled, clientVars, slot, buf, outq>>,
             pc # "send", pc' # "send"
      PROVE  StreamInv'
  BY <1>1, <1>2 DEF Behind, InHand, clientVars
<1>3. ASSUME UNCHANGED <<handled, pc, slot, cur>> PROVE \A c \in Conns : Behind(c)' = Behind(c)
  BY <1>3 DEF Behind, InHand
<1>4. ASSUME NEW c \in Conns, Connect(c) PROVE StreamInv'
  <2>1. /\ conn[c] = "new" /\ conn' = [conn EXCEPT ![c] = "backlog"]
        /\ UNCHANGED <<frames, unsent, got, inq, outq, slot, buf, pc, cur, handled>>
    BY <1>4 DEF Connect, clientVars
  <2>2. \A d \in Conns : conn'[d] \in {"new", "backlog"} => Waits(d)'
    <3> SUFFICES ASSUME NEW d \in Conns, conn'[d] \in {"new", "backlog"} PROVE Waits(d)'
      OBVIOUS
    <3>1. conn[d] \in {"new", "backlog"} /\ (conn'[d] = "new" => conn[d] = "new")
      BY <2>1 DEF TypeInv, TypeOK
    <3> QED BY <1>wait, <2>1, <3>1
  <2> QED BY <1>split, <1>sent, <1>3, <2>1, <2>2
<1>5. ASSUME NEW c \in Conns, NEW x \in Units, Writable(c),
             inq' = [inq EXCEPT ![c] = Append(@, x)],
             UNCHANGED <<conn, outq, got, slot, buf, pc, cur, handled>>,
             \A d \in Conns : d # c => frames'[d] = frames[d] /\ unsent'[d] = unsent[d],
             ASSUME NEW S \in Seq(Units), NEW d \in Nat, WellFormed(S, c, d, frames[c], unsent[c])
             PROVE  WellFormed(Append(S, x), c, d, frames'[c], unsent'[c])
      PROVE  StreamInv'
  <2>1. \A d \in Conns : inq'[d] = IF d = c THEN Append(inq[c], x) ELSE inq[d]
    BY <1>5 DEF TypeInv
  <2>2. \A d \in Conns : conn'[d] \in {"new", "backlog"} => Waits(d)'
    <3> SUFFICES ASSUME NEW d \in Conns, conn[d] \in {"new", "backlog"} PROVE Waits(d)'
      BY <1>5
    <3>1. CASE d # c
      BY <1>wait, <1>5, <2>1, <3>1
    <3>2. CASE d = c
      <4>1. WellFormed(inq[c], c, 0, frames[c], unsent[c]) /\ inq[c] \in Seq(Units)
            /\ handled[c] = <<>> /\ got[c] = <<>> /\ outq[c] = <<>>
        BY <1>old, <3>2, TypeFacts DEF Waits
      <4>2. WellFormed(Append(inq[c], x), c, 0, frames'[c], unsent'[c])
        BY <1>5, <4>1
      <4>3. conn'[c] # "new"
        BY <1>5 DEF Writable
      <4> QED BY <1>5, <2>1, <3>2, <4>1, <4>2, <4>3 DEF Waits
    <3> QED BY <3>1, <3>2
  <2>3. \A d \in Conns : \A s \in Slots : slot'[s] = d => Sent(d, s)'
    <3> SUFFICES ASSUME NEW d \in Conns, NEW s \in Slots, slot[s] = d PROVE Sent(d, s)'
      BY <1>5
    <3>1. Behind(d)' = Behind(d)
      BY <1>3, <1>5
    <3>2. CASE d # c
      BY <1>sent, <1>5, <2>1, <3>1, <3>2
    <3>3. CASE d = c
      <4>1. WellFormed(buf[s] \o inq[c], c, Behind(c), frames[c], unsent[c])
        BY <1>old, <3>3 DEF Sent
      <4>2. Behind(c) \in Nat
        BY <3>3, BehindNat DEF SlotInv
      <4>3. buf[s] \in Seq(Units) /\ inq[c] \in Seq(Units)
        BY TypeFacts
      <4>4. buf[s] \o inq[c] \in Seq(Units)
        BY <4>3, ConcatProperties
      <4>5. WellFormed(Append(buf[s] \o inq[c], x), c, Behind(c), frames'[c], unsent'[c])
        BY <1>5, <4>1, <4>2, <4>4
      <4>6. buf'[s] \o inq'[c] = Append(buf[s] \o inq[c], x)
        <5>1. buf[s] \o Append(inq[c], x) = Append(buf[s] \o inq[c], x)
          BY <4>3, WriteAtEnd
        <5> QED BY <1>5, <2>1, <5>1
      <4> QED BY <3>1, <3>3, <4>5, <4>6 DEF Sent
    <3> QED BY <3>2, <3>3
  <2> QED BY <1>split, <2>2, <2>3
<1>6. ASSUME NEW c \in Conns, WriteHeader(c) PROVE StreamInv'
  <2>1. PICK f \in FrameShapes :
          /\ inq' = [inq EXCEPT ![c] = Append(@, Header(c, frames[c] + 1, f))]
          /\ unsent' = [unsent EXCEPT ![c] = f[1]]
    BY <1>6 DEF WriteHeader
  <2> DEFINE x == Header(c, frames[c] + 1, f)
  <2>2. /\ x \in Headers /\ x.conn = c /\ x.id = frames[c] + 1 /\ x.len = f[1]
        /\ x \in Units /\ frames[c] \in Nat
    BY FrameAssumption, TypeFacts DEF Header, Units, Headers
  <2>3. /\ Writable(c) /\ unsent[c] = 0
        /\ frames' = [frames EXCEPT ![c] = @ + 1]
        /\ UNCHANGED <<conn, outq, got, slot, buf, pc, cur, handled>>
    BY <1>6 DEF WriteHeader
  <2>4. /\ frames'[c] = frames[c] + 1 /\ unsent'[c] = x.len
        /\ \A d \in Conns : d # c => frames'[d] = frames[d] /\ unsent'[d] = unsent[d]
    BY <2>1, <2>2, <2>3 DEF TypeInv, TypeOK
  <2>5. inq' = [inq EXCEPT ![c] = Append(@, x)]
    BY <2>1
  <2> HIDE DEF x
  <2>6. ASSUME NEW S \in Seq(Units), NEW d \in Nat, WellFormed(S, c, d, frames[c], unsent[c])
        PROVE  WellFormed(Append(S, x), c, d, frames'[c], unsent'[c])
    <3>1. WellFormed(S, c, d, frames[c], 0)
      BY <2>3, <2>6
    <3>2. WellFormed(Append(S, x), c, d, frames[c] + 1, x.len)
      BY <2>2, <3>1, StreamHeader
    <3> QED BY <2>4, <3>2
  <2> QED BY <1>5, <2>2, <2>3, <2>4, <2>5, <2>6
<1>7. ASSUME NEW c \in Conns, WritePayload(c) PROVE StreamInv'
  <2>1. /\ Writable(c) /\ unsent[c] > 0 /\ inq' = [inq EXCEPT ![c] = Append(@, Payload)]
        /\ unsent' = [unsent EXCEPT ![c] = @ - 1]
        /\ UNCHANGED <<conn, frames, outq, got, slot, buf, pc, cur, handled>>
    BY <1>7 DEF WritePayload
  <2>2. /\ frames'[c] = frames[c] /\ unsent'[c] = unsent[c] - 1 /\ Payload \in Units
        /\ frames[c] \in Nat /\ unsent[c] \in Nat
        /\ \A d \in Conns : d # c => frames'[d] = frames[d] /\ unsent'[d] = unsent[d]
    BY <2>1, TypeFacts DEF TypeInv, TypeOK, Units
  <2>3. ASSUME NEW S \in Seq(Units), NEW d \in Nat, WellFormed(S, c, d, frames[c], unsent[c])
        PROVE  WellFormed(Append(S, Payload), c, d, frames'[c], unsent'[c])
    <3>1. WellFormed(Append(S, Payload), c, d, frames[c], unsent[c] - 1)
      BY <2>1, <2>2, <2>3, StreamPayload
    <3> QED BY <2>2, <3>1
  <2> QED BY <1>5, <2>1, <2>2, <2>3
<1>8. ASSUME NEW c \in Conns, ReadAnswer(c) PROVE StreamInv'
  <2>1. /\ outq[c] # <<>>
        /\ UNCHANGED <<conn, frames, unsent, inq, slot, buf, pc, cur, handled>>
    BY <1>8 DEF ReadAnswer
  <2>2. \A d \in Conns : d # c => got'[d] = got[d] /\ outq'[d] = outq[d]
    BY <1>8 DEF ReadAnswer, TypeInv
  <2>3. \A d \in Conns : conn'[d] \in {"new", "backlog"} => Waits(d)'
    <3> SUFFICES ASSUME NEW d \in Conns, conn[d] \in {"new", "backlog"} PROVE Waits(d)'
      BY <2>1
    <3>1. d # c
      BY <1>old, <2>1 DEF Waits
    <3> QED BY <1>wait, <2>1, <2>2, <3>1
  <2> QED BY <1>split, <1>sent, <1>3, <2>1, <2>3
<1>9. ASSUME NEW c \in Conns, HangUp(c) PROVE StreamInv'
  BY <1>1, <1>3, <1>9 DEF HangUp
<1>10. CASE Select \/ AcceptDone \/ SkipSlot \/ TurnDone \/ WaitForMore \/ ipc_server_start
  BY <1>2, <1>10 DEF Select, AcceptDone, SkipSlot, TurnDone, WaitForMore, ipc_server_start, NextSlot
<1>11. CASE AcceptOne
  <2>1. /\ pc = "accept" /\ pc' = "accept" /\ backlog # <<>>
        /\ UNCHANGED <<frames, unsent, got, outq, handled>>
    BY <1>11 DEF AcceptOne, clientVars
  <2>2. PICK h \in Conns : h = Head(backlog) /\ conn[h] = "backlog"
    <3>1. /\ Head(backlog) = backlog[1] /\ 1 \in DOMAIN backlog
          /\ Head(backlog) \in Conns
      BY <2>1, HeadTailProperties, LenProperties, EmptySeq DEF TypeInv
    <3> QED BY <3>1 DEF SlotInv
  <2>3. \A c \in Conns : Behind(c) = Len(handled[c]) /\ Behind(c)' = Len(handled[c])
    BY <2>1, TypeFacts DEF Behind, InHand
  <2>4. \A s \in Slots : slot[s] # h
    BY <2>2 DEF SlotInv
  <2>5. CASE FreeSlots = {}
    <3>1. /\ conn' = [conn EXCEPT ![h] = "closed"] /\ inq' = [inq EXCEPT ![h] = <<>>]
          /\ UNCHANGED <<slot, buf>>
      BY <1>11, <2>2, <2>5 DEF AcceptOne
    <3>2. /\ conn'[h] = "closed"
          /\ \A c \in Conns : c # h => conn'[c] = conn[c] /\ inq'[c] = inq[c]
      BY <2>2, <3>1 DEF TypeInv, TypeOK
    <3>3. \A c \in Conns : conn'[c] \in {"new", "backlog"} => Waits(c)'
      BY <1>wait, <2>1, <3>2
    <3>4. \A c \in Conns : \A s \in Slots : slot'[s] = c => Sent(c, s)'
      BY <1>sent, <2>1, <2>3, <2>4, <3>1, <3>2
    <3> QED BY <1>split, <3>3, <3>4
  <2>6. CASE FreeSlots # {}
    <3> DEFINE s0 == CHOOSE s \in FreeSlots : \A t \in FreeSlots : s <= t
    <3>1. /\ conn' = [conn EXCEPT ![h] = "open"] /\ slot' = [slot EXCEPT ![s0] = h]
          /\ buf' = [buf EXCEPT ![s0] = <<>>] /\ UNCHANGED inq
      BY <1>11, <2>2, <2>6 DEF AcceptOne
    <3>2. s0 \in Slots /\ slot[s0] = NoConn
      BY <2>6, LowestSlot DEF FreeSlots
    <3> HIDE DEF s0
    <3>3. /\ conn'[h] = "open" /\ \A c \in Conns : c # h => conn'[c] = conn[c]
          /\ \A s \in Slots : slot'[s] = IF s = s0 THEN h ELSE slot[s]
          /\ \A s \in Slots : buf'[s] = IF s = s0 THEN <<>> ELSE buf[s]
      BY <2>2, <3>1 DEF TypeInv, TypeOK
    <3>4. \A c \in Conns : conn'[c] \in {"new", "backlog"} => Waits(c)'
      BY <1>wait, <2>1, <3>1, <3>3
    <3>5. ASSUME NEW c \in Conns, NEW s \in Slots, slot'[s] = c PROVE Sent(c, s)'
      <4>1. CASE s # s0
        BY <1>sent, <2>1, <2>3, <3>1, <3>3, <3>5, <4>1
      <4>2. CASE s = s0
        <5>1. c = h /\ buf'[s] = <<>> /\ inq'[c] = inq[h] /\ Waits(h)
          BY <1>old, <2>2, <3>1, <3>3, <3>5, <4>2
        <5>2. WellFormed(inq[h], h, 0, frames[h], unsent[h]) /\ handled[h] = <<>>
              /\ inq[h] \in Seq(Units)
          BY <2>2, <5>1, TypeFacts DEF Waits
        <5>3. Behind(h)' = 0
          BY <2>3, <5>2, EmptySeq
        <5>4. <<>> \o inq[h] = inq[h]
          BY <5>2, ConcatEmptySeq
        <5> QED BY <2>1, <5>1, <5>2, <5>3, <5>4 DEF Sent
      <4> QED BY <4>1, <4>2
    <3> QED BY <1>split, <3>4, <3>5
  <2> QED BY <2>5, <2>6
<1>12. CASE ReadSome
  <2>0. PICK h \in Conns, e \in Slots : h = slot[e] /\ e = cur /\ conn[h] = "open"
    BY <1>12, AtSlot DEF ReadSome
  <2> DEFINE q == inq[h]
             n == IF Len(q) < Room THEN Len(q) ELSE Room
             b == buf[e]
  <2>1. /\ Room > 0 /\ pc = "serve" /\ pc' = "drain"
        /\ buf' = [buf EXCEPT ![e] = b \o SubSeq(q, 1, n)]
        /\ inq' = [inq EXCEPT ![h] = SubSeq(q, n + 1, Len(q))]
        /\ UNCHANGED <<conn, frames, unsent, got, outq, slot, cur, handled>>
    BY <1>12, <2>0 DEF ReadSome, clientVars, Serving
  <2>2. /\ b \in Seq(Units) /\ q \in Seq(Units)
        /\ Len(b) \in Nat /\ Len(q) \in Nat /\ Room = BufSize - Len(b) /\ BufSize \in Nat
    BY <2>0, TypeFacts DEF Room
  <2>3. n \in 0..Len(q)
    <3> HIDE DEF q, b
    <3>1. CASE Len(q) < Room
      BY <2>1, <2>2, <3>1
    <3>2. CASE ~(Len(q) < Room)
      BY <2>1, <2>2, <3>2
    <3> QED BY <3>1, <3>2
  <2>4. \A s \in Slots : s # e => slot[s] # h
    BY <2>0 DEF SlotInv
  <2>5. WellFormed(b \o q, h, Behind(h), frames[h], unsent[h])
    BY <1>old, <2>0 DEF Sent
  <2> HIDE DEF q, n, b
  <2>6. \A c \in Conns : Behind(c)' = Behind(c)
    BY <2>1 DEF Behind, InHand
  <2>7. /\ buf'[e] = b \o SubSeq(q, 1, n) /\ inq'[h] = SubSeq(q, n + 1, Len(q))
        /\ \A s \in Slots : s # e => buf'[s] = buf[s]
        /\ \A c \in Conns : c # h => inq'[c] = inq[c]
    BY <2>1 DEF TypeInv
  <2>8. (b \o SubSeq(q, 1, n)) \o SubSeq(q, n + 1, Len(q)) = b \o q
    BY <2>2, <2>3, ReadMoves
  <2>9. Sent(h, e)'
    BY <2>1, <2>5, <2>6, <2>7, <2>8 DEF Sent
  <2>10. \A c \in Conns : conn'[c] \in {"new", "backlog"} => Waits(c)'
    BY <1>wait, <2>0, <2>1, <2>7
  <2>11. ASSUME NEW c \in Conns, NEW s \in Slots, slot'[s] = c PROVE Sent(c, s)'
    <3>1. CASE s = e
      BY <2>0, <2>1, <2>9, <2>11, <3>1
    <3>2. CASE s # e
      BY <1>sent, <2>1, <2>4, <2>6, <2>7, <2>11, <3>2
    <3> QED BY <3>1, <3>2
  <2> QED BY <1>split, <2>10, <2>11
<1>13. ASSUME close_client(cur), NextSlot, pc \in {"drain", "send"} \/ Serving,
              UNCHANGED <<clientVars, outq, handled>>
       PROVE  StreamInv'
  <2> DEFINE h == slot[cur]
  <2>1. cur \in Slots /\ h \in Conns /\ h # NoConn /\ conn[h] = "open"
    BY <1>13, AtSlot
  <2>2. /\ conn'[h] = "closed"
        /\ \A c \in Conns : c # h => conn'[c] = conn[c] /\ inq'[c] = inq[c]
        /\ \A s \in Slots : slot'[s] = IF s = cur THEN NoConn ELSE slot[s]
        /\ \A s \in Slots : s # cur => buf'[s] = buf[s]
    BY <1>13, <2>1 DEF close_client, TypeInv, TypeOK
  <2>3. \A s \in Slots : s # cur => slot[s] # h
    BY <2>1 DEF SlotInv
  <2>4. \A c \in Conns : c # h => Behind(c)' = Behind(c)
    BY <1>13 DEF Behind, InHand, NextSlot
  <2>5. UNCHANGED <<frames, unsent, got, outq, handled>>
    BY <1>13 DEF clientVars
  <2> HIDE DEF h
  <2>6. \A c \in Conns : conn'[c] \in {"new", "backlog"} => Waits(c)'
    BY <1>wait, <2>2, <2>5
  <2>7. ASSUME NEW c \in Conns, NEW s \in Slots, slot'[s] = c PROVE Sent(c, s)'
    <3>1. s # cur /\ slot[s] = c /\ c # h
      BY <2>2, <2>3, <2>7
    <3> QED BY <1>sent, <2>2, <2>4, <2>5, <3>1
  <2> QED BY <1>split, <2>6, <2>7
<1>14. CASE ReadNothing
  BY <1>2, <1>13, <1>14 DEF ReadNothing, NextSlot, Serving
<1>15. CASE BadLength \/ SendFails
  BY <1>13, <1>15 DEF BadLength, SendFails, HasHeader
<1>16. CASE handle_frame
  <2>1. CASE First.body \in Closing
    BY <1>13, <1>16, <2>1 DEF handle_frame, HasFrame, HasHeader, Closing, Answered
  <2>2. CASE First.body \notin Closing
    <3> DEFINE h == slot[cur]
    <3>1. /\ pc = "drain" /\ pc' = "send" /\ buf[cur] # <<>>
          /\ handled' = [handled EXCEPT ![First.conn] = Append(@, First.id)]
          /\ UNCHANGED <<conn, frames, unsent, got, outq, inq, slot, buf, cur>>
      BY <1>16, <2>2 DEF handle_frame, HasFrame, HasHeader, clientVars
    <3>2. First.conn = h /\ First.id \in Nat /\ h \in Conns /\ conn[h] = "open"
      BY <3>1, FrontHeader, AtSlot DEF Headers
    <3>3. /\ handled'[h] = Append(handled[h], First.id)
          /\ \A c \in Conns : c # h => handled'[c] = handled[c]
      BY <3>1, <3>2 DEF TypeInv
    <3>4. Len(handled'[h]) = Len(handled[h]) + 1
      BY <3>2, <3>3, TypeFacts, AppendProperties
    <3>5. \A c \in Conns : Behind(c)' = Behind(c)
      <4> TAKE c \in Conns
      <4>1. CASE c = h
        BY <3>1, <3>4, <4>1, TypeFacts DEF Behind, InHand
      <4>2. CASE c # h
        BY <3>1, <3>3, <4>2 DEF Behind, InHand
      <4> QED BY <4>1, <4>2
    <3> HIDE DEF h
    <3>6. \A c \in Conns : conn'[c] \in {"new", "backlog"} => Waits(c)'
      BY <1>wait, <3>1, <3>2, <3>3
    <3> QED BY <1>split, <1>sent, <3>1, <3>5, <3>6
  <2> QED BY <2>1, <2>2
<1>17. CASE send_all
  <2>0. PICK h \in Conns, e \in Slots : h = slot[e] /\ e = cur /\ conn[h] = "open"
    BY <1>17, AtSlot DEF send_all
  <2>1. /\ pc = "send" /\ pc' = "drain" /\ Consume
        /\ outq' = [outq EXCEPT ![h] = Answer]
        /\ UNCHANGED <<conn, frames, unsent, got, inq, slot, cur, handled>>
    BY <1>17, <2>0 DEF send_all, clientVars
  <2>2. /\ buf' = [buf EXCEPT ![e] = SubSeq(buf[e], 2 + First.len, Len(buf[e]))]
        /\ buf[e] # <<>> /\ Len(buf[e]) >= 1 + First.len
    BY <2>0, <2>1, ConsumeType, FrontHeader DEF BufferInv
  <2>3. WellFormed(SubSeq(buf[e], 2 + First.len, Len(buf[e])) \o inq[h],
                   h, Behind(h) + 1, frames[h], unsent[h])
    BY <2>0, <2>1, <2>2, FrontFrame
  <2>4. /\ buf'[e] = SubSeq(buf[e], 2 + First.len, Len(buf[e]))
        /\ \A s \in Slots : s # e => buf'[s] = buf[s]
    BY <2>2 DEF TypeInv
  <2>5. \A c \in Conns : c # h => Behind(c)' = Behind(c)
    BY <2>0, <2>1 DEF Behind, InHand
  <2>6. Behind(h)' = Behind(h) + 1
    <3>1. Len(handled[h]) \in Nat /\ InHand(h) = 1 /\ InHand(h)' = 0
      BY <2>0, <2>1, TypeFacts DEF InHand
    <3>2. Behind(h) = Len(handled[h]) - InHand(h) /\ Behind(h)' = Len(handled[h]) - InHand(h)'
      BY <2>1 DEF Behind
    <3> QED BY <3>1, <3>2
  <2>7. \A s \in Slots : s # e => slot[s] # h
    BY <2>0 DEF SlotInv
  <2>8. \A c \in Conns : c # h => outq'[c] = outq[c]
    BY <2>1 DEF TypeInv
  <2>9. Sent(h, e)'
    BY <2>1, <2>3, <2>4, <2>6 DEF Sent
  <2>10. \A c \in Conns : conn'[c] \in {"new", "backlog"} => Waits(c)'
    BY <1>wait, <2>0, <2>1, <2>8
  <2>11. ASSUME NEW c \in Conns, NEW s \in Slots, slot'[s] = c PROVE Sent(c, s)'
    <3>1. CASE s = e
      BY <2>0, <2>1, <2>9, <2>11, <3>1
    <3>2. CASE s # e
      BY <1>sent, <2>1, <2>4, <2>5, <2>7, <2>11, <3>2
    <3> QED BY <3>1, <3>2
  <2> QED BY <1>split, <2>10, <2>11
<1>18. CASE ipc_server_stop
  <2>1. /\ \A c \in Conns : conn'[c] \in {"new", "backlog"} => conn[c] = "new" /\ inq'[c] = <<>>
        /\ \A s \in Slots : slot'[s] = NoConn
        /\ UNCHANGED <<frames, unsent, got, outq, handled>>
    BY <1>18 DEF ipc_server_stop, clientVars, TypeInv, TypeOK
  <2>2. ASSUME NEW c \in Conns, conn'[c] \in {"new", "backlog"} PROVE Waits(c)'
    <3>1. conn[c] = "new" /\ inq'[c] = <<>> /\ inq[c] = <<>>
      BY <1>old, <2>1, <2>2 DEF Waits
    <3> QED BY <1>wait, <2>1, <3>1
  <2> QED BY <1>split, <2>1, <2>2
<1>19. CASE UNCHANGED vars
  BY <1>1, <1>3, <1>19 DEF vars
<1> QED BY <1>4, <1>6, <1>7, <1>8, <1>9, <1>10, <1>11, <1>12, <1>14, <1>15, <1>16, <1>17, <1>18,
           <1>19 DEF Next, Client, Server

LEMMA StepCount ==
  ServerInv /\ [Next]_vars => CountInv'
<1> SUFFICES ASSUME TypeInv, SlotInv, StreamInv, BufferInv, CountInv, [Next]_vars
             PROVE  CountInv'
  BY DEF ServerInv
<1> USE IpcAssumption
<1> DEFINE Took(c) == /\ \A i \in DOMAIN handled[c] : handled[c][i] = i
                      /\ Len(handled[c]) <= frames[c]
                      /\ Len(handled[c]) = frames[c] => unsent[c] = 0
           Told(c) == /\ \A i \in DOMAIN got[c] : got[c][i] = <<c, i>>
                      /\ \A i \in DOMAIN outq[c] : outq[c][i] = <<c, Len(got[c]) + i>>
           Even(c) == conn[c] = "open" => Len(got[c]) + Len(outq[c]) = Behind(c)
<1>split. ASSUME \A c \in Conns : Took(c)' /\ Told(c)' /\ Even(c)'
          PROVE  CountInv'
  BY <1>split DEF CountInv
<1>old. \A c \in Conns : Took(c) /\ Told(c) /\ Even(c)
  BY DEF CountInv
<1>took. ASSUME NEW c \in Conns, handled'[c] = handled[c], frames'[c] = frames[c],
                unsent'[c] = unsent[c]
         PROVE  Took(c)'
  BY <1>old, <1>took
<1>told. ASSUME NEW c \in Conns, got'[c] = got[c], outq'[c] = outq[c]
         PROVE  Told(c)'
  BY <1>old, <1>told
<1>even. ASSUME NEW c \in Conns, got'[c] = got[c], outq'[c] = outq[c], Behind(c)' = Behind(c),
                conn'[c] = "open" => conn[c] = "open"
         PROVE  Even(c)'
  BY <1>old, <1>even
<1> HIDE DEF Took, Told, Even
<1>1. ASSUME UNCHANGED <<handled, frames, unsent, got, outq>>,
             \A c \in Conns : conn'[c] = "open" => conn[c] = "open" /\ Behind(c)' = Behind(c)
      PROVE  CountInv'
  <2> SUFFICES ASSUME NEW c \in Conns PROVE Took(c)' /\ Told(c)' /\ Even(c)'
    BY <1>split
  <2>1. CASE conn'[c] = "open"
    BY <1>took, <1>told, <1>even, <1>1, <2>1
  <2>2. CASE conn'[c] # "open"
    BY <1>took, <1>told, <1>1, <2>2 DEF Even
  <2> QED BY <2>1, <2>2
<1>2. ASSUME UNCHANGED <<conn, handled, clientVars, slot, outq>>, pc # "send", pc' # "send"
      PROVE  CountInv'
  BY <1>1, <1>2 DEF Behind, InHand, clientVars
<1>3. ASSUME UNCHANGED <<handled, pc, slot, cur>> PROVE \A c \in Conns : Behind(c)' = Behind(c)
  BY <1>3 DEF Behind, InHand
<1>4. ASSUME NEW c \in Conns, Connect(c) PROVE CountInv'
  <2>1. /\ conn' = [conn EXCEPT ![c] = "backlog"]
        /\ UNCHANGED <<frames, unsent, got, outq, slot, pc, cur, handled>>
    BY <1>4 DEF Connect, clientVars
  <2>2. \A d \in Conns : conn'[d] = "open" => conn[d] = "open"
    BY <2>1 DEF TypeInv, TypeOK
  <2> QED BY <1>1, <1>3, <2>1, <2>2
<1>5. ASSUME NEW c \in Conns, WriteHeader(c) PROVE CountInv'
  <2>1. /\ \A d \in Conns : d # c => frames'[d] = frames[d] /\ unsent'[d] = unsent[d]
        /\ frames'[c] = frames[c] + 1
        /\ UNCHANGED <<conn, outq, got, slot, pc, cur, handled>>
    BY <1>5 DEF WriteHeader, TypeInv, TypeOK
  <2>2. Took(c)'
    <3>1. Len(handled[c]) \in Nat /\ frames[c] \in Nat /\ Len(handled[c]) <= frames[c]
      BY <1>old, TypeFacts DEF Took
    <3>2. Len(handled[c]) <= frames'[c] /\ Len(handled[c]) # frames'[c]
      BY <2>1, <3>1
    <3> QED BY <1>old, <2>1, <3>2 DEF Took
  <2> SUFFICES ASSUME NEW d \in Conns PROVE Took(d)' /\ Told(d)' /\ Even(d)'
    BY <1>split
  <2>3. d # c => Took(d)'
    BY <1>took, <2>1
  <2>4. Told(d)' /\ Even(d)'
    BY <1>told, <1>even, <1>3, <2>1
  <2> QED BY <2>2, <2>3, <2>4
<1>6. ASSUME NEW c \in Conns, WritePayload(c) PROVE CountInv'
  <2>1. /\ \A d \in Conns : d # c => unsent'[d] = unsent[d]
        /\ unsent[c] > 0 /\ UNCHANGED <<conn, frames, outq, got, slot, pc, cur, handled>>
    BY <1>6 DEF WritePayload, TypeInv, TypeOK
  <2>2. Took(c)'
    <3>1. Len(handled[c]) # frames[c]
      BY <1>old, <2>1 DEF Took
    <3> QED BY <1>old, <2>1, <3>1 DEF Took
  <2> SUFFICES ASSUME NEW d \in Conns PROVE Took(d)' /\ Told(d)' /\ Even(d)'
    BY <1>split
  <2>3. d # c => Took(d)'
    BY <1>took, <2>1
  <2>4. Told(d)' /\ Even(d)'
    BY <1>told, <1>even, <1>3, <2>1
  <2> QED BY <2>2, <2>3, <2>4
<1>7. ASSUME NEW c \in Conns, ReadAnswer(c) PROVE CountInv'
  <2> DEFINE o == outq[c]
             g == got[c]
             x == Head(o)
  <2>1. /\ o # <<>> /\ o \in Answers /\ g \in Answers
        /\ got'[c] = Append(g, x) /\ outq'[c] = Tail(o)
        /\ \A d \in Conns : d # c => got'[d] = got[d] /\ outq'[d] = outq[d]
        /\ UNCHANGED <<conn, frames, unsent, slot, pc, cur, handled>>
    BY <1>7 DEF ReadAnswer, TypeInv
  <2>2. /\ \A i \in DOMAIN g : g[i] = <<c, i>>
        /\ \A i \in DOMAIN o : o[i] = <<c, Len(g) + i>>
    BY <1>old DEF Told
  <2> HIDE DEF o, g
  <2>3. /\ x = o[1] /\ Len(o) \in Nat \ {0} /\ DOMAIN o = 1..Len(o)
        /\ Tail(o) \in Answers /\ Len(Tail(o)) = Len(o) - 1 /\ DOMAIN Tail(o) = 1..(Len(o) - 1)
        /\ \A i \in 1..(Len(o) - 1) : Tail(o)[i] = o[i + 1]
        /\ x \in Conns \X Nat
    BY <2>1, HeadTailProperties, LenProperties, EmptySeq DEF Answers
  <2> HIDE DEF x
  <2>4. /\ Len(g) \in Nat /\ DOMAIN g = 1..Len(g)
        /\ Append(g, x) \in Answers /\ Len(Append(g, x)) = Len(g) + 1
        /\ DOMAIN Append(g, x) = 1..(Len(g) + 1)
        /\ \A i \in 1..Len(g) : Append(g, x)[i] = g[i]
        /\ Append(g, x)[Len(g) + 1] = x
    BY <2>1, <2>3, AppendProperties, LenProperties DEF Answers
  <2>5. x = <<c, Len(g) + 1>>
    BY <2>2, <2>3
  <2>6. \A i \in DOMAIN Append(g, x) : Append(g, x)[i] = <<c, i>>
    <3> TAKE i \in DOMAIN Append(g, x)
    <3>1. CASE i \in 1..Len(g)
      BY <2>2, <2>4, <3>1
    <3>2. CASE i = Len(g) + 1
      BY <2>4, <2>5, <3>2
    <3> QED BY <2>4, <3>1, <3>2
  <2>7. \A i \in DOMAIN Tail(o) : Tail(o)[i] = <<c, Len(Append(g, x)) + i>>
    <3> TAKE i \in DOMAIN Tail(o)
    <3>1. i + 1 \in DOMAIN o /\ i \in 1..(Len(o) - 1) /\ Len(g) + (i + 1) = (Len(g) + 1) + i
      BY <2>3, <2>4
    <3>2. Tail(o)[i] = o[i + 1] /\ o[i + 1] = <<c, Len(g) + (i + 1)>>
      BY <2>2, <2>3, <3>1
    <3> QED BY <2>4, <3>1, <3>2
  <2>8. Told(c)'
    BY <2>1, <2>6, <2>7 DEF Told
  <2>9. Even(c)'
    <3>1. Len(Append(g, x)) + Len(Tail(o)) = Len(g) + Len(o)
      BY <2>3, <2>4
    <3>2. Behind(c)' = Behind(c)
      BY <1>3, <2>1
    <3>3. conn[c] = "open" => Len(g) + Len(o) = Behind(c)
      BY <1>old DEF Even, g, o
    <3> QED BY <2>1, <3>1, <3>2, <3>3 DEF Even
  <2> SUFFICES ASSUME NEW d \in Conns PROVE Took(d)' /\ Told(d)' /\ Even(d)'
    BY <1>split
  <2>10. Took(d)'
    BY <1>took, <2>1
  <2>11. d # c => Told(d)' /\ Even(d)'
    BY <1>told, <1>even, <1>3, <2>1
  <2> QED BY <2>8, <2>9, <2>10, <2>11
<1>8. ASSUME NEW c \in Conns, HangUp(c) PROVE CountInv'
  BY <1>1, <1>3, <1>8 DEF HangUp
<1>9. CASE Select \/ AcceptDone \/ SkipSlot \/ TurnDone \/ WaitForMore \/ ipc_server_start \/ ReadSome
  BY <1>2, <1>9 DEF Select, AcceptDone, SkipSlot, TurnDone, WaitForMore, ipc_server_start, NextSlot,
     ReadSome, Serving
<1>10. CASE AcceptOne
  <2>1. /\ pc = "accept" /\ pc' = "accept" /\ backlog # <<>>
        /\ UNCHANGED <<frames, unsent, got, outq, handled>>
    BY <1>10 DEF AcceptOne, clientVars
  <2>2. PICK h \in Conns : h = Head(backlog) /\ conn[h] = "backlog"
    <3>1. /\ Head(backlog) = backlog[1] /\ 1 \in DOMAIN backlog
          /\ Head(backlog) \in Conns
      BY <2>1, HeadTailProperties, LenProperties, EmptySeq DEF TypeInv
    <3> QED BY <3>1 DEF SlotInv
  <2>3. \A c \in Conns : Behind(c) = Len(handled[c]) /\ Behind(c)' = Len(handled[c])
    BY <2>1, TypeFacts DEF Behind, InHand
  <2>4. \A c \in Conns : c # h => conn'[c] = conn[c]
    BY <1>10, <2>2 DEF AcceptOne, TypeInv, TypeOK
  <2>5. got[h] = <<>> /\ outq[h] = <<>> /\ handled[h] = <<>>
    BY <2>2 DEF StreamInv
  <2>6. Even(h)'
    BY <2>1, <2>3, <2>5, EmptySeq DEF Even
  <2> SUFFICES ASSUME NEW d \in Conns PROVE Took(d)' /\ Told(d)' /\ Even(d)'
    BY <1>split
  <2>7. d # h => Even(d)'
    BY <1>even, <2>1, <2>3, <2>4
  <2> QED BY <1>took, <1>told, <2>1, <2>6, <2>7
<1>11. ASSUME close_client(cur), NextSlot, pc \in {"drain", "send"} \/ Serving,
              UNCHANGED <<clientVars, outq, handled>>
       PROVE  CountInv'
  <2> DEFINE h == slot[cur]
  <2>1. cur \in Slots /\ h \in Conns
    BY <1>11, AtSlot
  <2>2. conn'[h] = "closed" /\ \A c \in Conns : c # h => conn'[c] = conn[c]
    BY <1>11, <2>1 DEF close_client, TypeInv, TypeOK
  <2>3. \A c \in Conns : c # h => Behind(c)' = Behind(c)
    BY <1>11 DEF Behind, InHand, NextSlot
  <2>4. UNCHANGED <<frames, unsent, got, outq, handled>>
    BY <1>11 DEF clientVars
  <2> HIDE DEF h
  <2> QED BY <1>1, <2>2, <2>3, <2>4
<1>12. CASE ReadNothing
  BY <1>2, <1>11, <1>12 DEF ReadNothing, NextSlot, Serving
<1>13. CASE BadLength \/ SendFails
  BY <1>11, <1>13 DEF BadLength, SendFails, HasHeader
<1>14. CASE handle_frame
  <2>1. CASE First.body \in Closing
    BY <1>11, <1>14, <2>1 DEF handle_frame, HasFrame, HasHeader, Closing, Answered
  <2>2. CASE First.body \notin Closing
    <3>1. /\ pc = "drain" /\ pc' = "send" /\ buf[cur] # <<>> /\ Len(buf[cur]) >= 1 + First.len
          /\ handled' = [handled EXCEPT ![First.conn] = Append(@, First.id)]
          /\ UNCHANGED <<conn, frames, unsent, got, outq, slot, cur>>
      BY <1>14, <2>2 DEF handle_frame, HasFrame, HasHeader, clientVars
    <3>2. PICK h \in Conns : h = slot[cur] /\ conn[h] = "open"
      BY <3>1, AtSlot
    <3> DEFINE m == Len(handled[h])
    <3>3. First.conn = h /\ Behind(h) = m /\ First.id = m + 1 /\ m \in Nat
      BY <3>1, <3>2, FrontHeader, TypeFacts DEF Behind, InHand
    <3>4. m + 1 <= frames[h] /\ (m + 1 = frames[h] => unsent[h] = 0)
      BY <3>1, <3>2, <3>3, FrontFrame
    <3>5. /\ handled'[h] = Append(handled[h], m + 1) /\ handled[h] \in Seq(Nat)
          /\ \A c \in Conns : c # h => handled'[c] = handled[c]
      BY <3>1, <3>3 DEF TypeInv
    <3>6. /\ Len(handled'[h]) = m + 1 /\ DOMAIN handled[h] = 1..m
          /\ DOMAIN handled'[h] = 1..(m + 1)
          /\ \A i \in 1..m : handled'[h][i] = handled[h][i]
          /\ handled'[h][m + 1] = m + 1
      BY <3>3, <3>5, AppendProperties, LenProperties
    <3>7. \A i \in DOMAIN handled'[h] : handled'[h][i] = i
      <4> TAKE i \in DOMAIN handled'[h]
      <4>1. CASE i \in 1..m
        BY <1>old, <3>6, <4>1 DEF Took
      <4>2. CASE i = m + 1
        BY <3>6, <4>2
      <4> HIDE DEF m
      <4> QED BY <3>3, <3>6, <4>1, <4>2
    <3>8. Took(h)'
      BY <3>1, <3>4, <3>6, <3>7 DEF Took
    <3>9. \A c \in Conns : Behind(c)' = Behind(c)
      <4> TAKE c \in Conns
      <4>1. CASE c = h
        BY <3>1, <3>2, <3>3, <3>6, <4>1 DEF Behind, InHand
      <4>2. CASE c # h
        BY <3>1, <3>2, <3>5, <4>2 DEF Behind, InHand
      <4> QED BY <4>1, <4>2
    <3> SUFFICES ASSUME NEW d \in Conns PROVE Took(d)' /\ Told(d)' /\ Even(d)'
      BY <1>split
    <3>10. d # h => Took(d)'
      BY <1>took, <3>1, <3>5
    <3> QED BY <1>told, <1>even, <3>1, <3>8, <3>9, <3>10
  <2> QED BY <2>1, <2>2
<1>15. CASE send_all
  <2>1. PICK h \in Conns : h = slot[cur] /\ conn[h] = "open"
    BY <1>15, AtSlot DEF send_all
  <2> DEFINE o == outq[h]
             g == got[h]
             x == <<First.conn, First.id>>
  <2>2. /\ pc = "send" /\ pc' = "drain" /\ o \in Answers /\ Len(g) \in Nat
        /\ outq'[h] = Append(o, x)
        /\ \A c \in Conns : c # h => outq'[c] = outq[c]
        /\ UNCHANGED <<conn, frames, unsent, got, slot, cur, handled>>
    BY <1>15, <2>1, TypeFacts DEF send_all, clientVars, Answer, TypeInv
  <2>3. First.conn = h /\ First.id = Behind(h) + 1 /\ x \in Conns \X Nat
    BY <2>1, <2>2, FrontHeader DEF BufferInv, Headers
  <2>4. Behind(h) = Len(g) + Len(o)
    BY <1>old, <2>1 DEF Even
  <2>5. \A i \in DOMAIN o : o[i] = <<h, Len(g) + i>>
    BY <1>old DEF Told
  <2>6. Behind(h)' = Behind(h) + 1
    <3>1. Len(handled[h]) \in Nat /\ InHand(h) = 1 /\ InHand(h)' = 0
      BY <2>1, <2>2, TypeFacts DEF InHand
    <3>2. Behind(h) = Len(handled[h]) - InHand(h) /\ Behind(h)' = Len(handled[h]) - InHand(h)'
      BY <2>2 DEF Behind
    <3> QED BY <3>1, <3>2
  <2>7. \A c \in Conns : c # h => Behind(c)' = Behind(c)
    BY <2>1, <2>2 DEF Behind, InHand
  <2> HIDE DEF o, g
  <2>8. /\ Len(o) \in Nat /\ DOMAIN o = 1..Len(o)
        /\ Len(Append(o, x)) = Len(o) + 1 /\ DOMAIN Append(o, x) = 1..(Len(o) + 1)
        /\ \A i \in 1..Len(o) : Append(o, x)[i] = o[i]
        /\ Append(o, x)[Len(o) + 1] = x
    <3> HIDE DEF x
    <3> QED BY <2>2, <2>3, AppendProperties, LenProperties DEF Answers
  <2>9. x = <<h, Len(g) + (Len(o) + 1)>>
    BY <2>2, <2>3, <2>4, <2>8
  <2> HIDE DEF x
  <2>10. \A i \in DOMAIN Append(o, x) : Append(o, x)[i] = <<h, Len(g) + i>>
    <3> TAKE i \in DOMAIN Append(o, x)
    <3>1. CASE i \in 1..Len(o)
      BY <2>5, <2>8, <3>1
    <3>2. CASE i = Len(o) + 1
      BY <2>8, <2>9, <3>2
    <3> QED BY <2>8, <3>1, <3>2
  <2>11. Told(h)'
    BY <1>old, <2>2, <2>10 DEF Told, g
  <2>12. Even(h)'
    <3>1. Len(g) + Len(Append(o, x)) = Behind(h) + 1
      BY <2>2, <2>4, <2>8
    <3> QED BY <2>2, <2>6, <3>1 DEF Even, g
  <2> SUFFICES ASSUME NEW d \in Conns PROVE Took(d)' /\ Told(d)' /\ Even(d)'
    BY <1>split
  <2>13. d # h => Told(d)' /\ Even(d)'
    BY <1>told, <1>even, <2>2, <2>7
  <2> QED BY <1>took, <2>2, <2>11, <2>12, <2>13
<1>16. CASE ipc_server_stop
  <2>1. /\ \A c \in Conns : conn'[c] # "open"
        /\ UNCHANGED <<frames, unsent, got, outq, handled>>
    BY <1>16 DEF ipc_server_stop, clientVars, TypeInv, TypeOK
  <2> QED BY <1>1, <2>1
<1>17. CASE UNCHANGED vars
  BY <1>1, <1>3, <1>17 DEF vars
<1> QED BY <1>4, <1>5, <1>6, <1>7, <1>8, <1>9, <1>10, <1>12, <1>13, <1>14, <1>15, <1>16, <1>17
        DEF Next, Client, Server

LEMMA InitServer == Init => ServerInv
<1> SUFFICES ASSUME Init PROVE ServerInv
  OBVIOUS
<1> USE IpcAssumption
<1>1. /\ \A c \in Conns : conn[c] = "new" /\ frames[c] = 0 /\ unsent[c] = 0 /\ inq[c] = <<>>
                          /\ outq[c] = <<>> /\ got[c] = <<>> /\ handled[c] = <<>>
      /\ \A s \in Slots : slot[s] = NoConn /\ buf[s] = <<>>
      /\ backlog = <<>> /\ pc = "select"
  BY DEF Init
<1>2. Len(<<>>) = 0 /\ DOMAIN <<>> = {} /\ \A S : <<>> \in Seq(S)
  BY EmptySeq
<1>3. TypeInv
  <2>1. BufSize \in Nat
    BY DEF BufSize
  <2>2. \A s \in Slots : Len(buf[s]) <= BufSize
    BY <1>1, <1>2, <2>1
  <2>3. \A c \in Conns : Len(outq[c]) <= SocketRoom
    BY <1>1, <1>2
  <2>4. cur \in 1..(IPC_MAX_CLIENTS + 1)
    BY DEF Init
  <2>5. /\ inq \in [Conns -> Seq(Units)] /\ buf \in [Slots -> Seq(Units)]
        /\ outq \in [Conns -> Answers] /\ got \in [Conns -> Answers]
        /\ handled \in [Conns -> Seq(Nat)] /\ backlog \in Seq(Conns)
    BY <1>2 DEF Init, Answers
  <2>6. TypeOK
    BY <2>2, <2>3, <2>4 DEF Init, TypeOK
  <2> QED BY <2>5, <2>6 DEF TypeInv
<1>4. SlotInv
  BY <1>1, <1>2 DEF SlotInv
<1>5. StreamInv
  <2>1. \A c \in Conns : WellFormed(inq[c], c, 0, frames[c], unsent[c])
    BY <1>1, <1>2 DEF WellFormed
  <2> QED BY <1>1, <2>1 DEF StreamInv
<1>6. BufferInv
  BY <1>1 DEF BufferInv, Partial
<1>7. CountInv
  <2> SUFFICES ASSUME NEW c \in Conns
               PROVE  /\ \A i \in DOMAIN handled[c] : handled[c][i] = i
                      /\ Len(handled[c]) <= frames[c]
                      /\ Len(handled[c]) = frames[c] => unsent[c] = 0
                      /\ \A i \in DOMAIN got[c] : got[c][i] = <<c, i>>
                      /\ \A i \in DOMAIN outq[c] : outq[c][i] = <<c, Len(got[c]) + i>>
                      /\ conn[c] # "open"
    BY DEF CountInv
  <2>1. Len(handled[c]) <= frames[c]
    BY <1>1, <1>2
  <2> QED BY <1>1, <1>2, <2>1
<1> QED BY <1>3, <1>4, <1>5, <1>6, <1>7 DEF ServerInv

(* The invariant of the server holds throughout. *)
LEMMA ServerInvariant == Spec => []ServerInv
<1>1. ServerInv /\ [Next]_vars => ServerInv'
  BY StepType, StepSlot, StepStream, StepBuffer, StepCount DEF ServerInv
<1> QED BY <1>1, InitServer, PTL DEF Spec

-----------------------------------------------------------------------------
(* Slots, buffers and queues stay within their sizes whatever clients send *)
(* and however their bytes arrive.                                         *)
THEOREM TypeCorrect == Spec => []TypeOK
<1>1. ServerInv => TypeOK
  BY DEF ServerInv, TypeInv
<1> QED BY <1>1, ServerInvariant, PTL

(* No slot leaks and none is shared: an open connection has exactly one,   *)
(* any other none.                                                         *)
THEOREM SlotsNeverLeak == Spec => []SlotsMatch
<1>1. ServerInv => SlotsMatch
  <2> SUFFICES ASSUME TypeInv, SlotInv, NEW c \in Conns
               PROVE  Cardinality({s \in Slots : slot[s] = c})
                        = IF conn[c] = "open" THEN 1 ELSE 0
    BY DEF ServerInv, SlotsMatch
  <2>1. CASE conn[c] = "open"
    <3>1. PICK s \in Slots : slot[s] = c
      BY <2>1 DEF SlotInv
    <3>2. {t \in Slots : slot[t] = c} = {s}
      BY <3>1, IpcAssumption DEF SlotInv
    <3>3. Cardinality({s}) = 1
      BY FS_Singleton
    <3> QED BY <2>1, <3>2, <3>3
  <2>2. CASE conn[c] # "open"
    <3>1. {s \in Slots : slot[s] = c} = {}
      BY <2>2, IpcAssumption DEF SlotInv
    <3>2. Cardinality({}) = 0
      BY FS_EmptySet
    <3> QED BY <2>2, <3>1, <3>2
  <2> QED BY <2>1, <2>2
<1> QED BY <1>1, ServerInvariant, PTL

(* "Should not happen" in client_readable does not happen: when the loop   *)
(* comes to read() again, what is left of a frame is shorter than the      *)
(* buffer.                                                                 *)
THEOREM BufferHasRoom == Spec => []BufferNeverFull
<1>1. ServerInv => BufferNeverFull
  <2> SUFFICES ASSUME TypeInv, BufferInv, pc = "serve", NEW s \in Slots
               PROVE  Len(buf[s]) < BufSize
    BY DEF ServerInv, BufferNeverFull
  <2> DEFINE b == buf[s]
             l == b[1].len
  <2>1. Partial(b) /\ Len(b) \in Nat
    BY TypeFacts DEF BufferInv
  <2>2. CASE b = <<>>
    <3>1. Len(b) = 0
      BY <2>2, EmptySeq
    <3>2. 0 < BufSize
      BY IpcAssumption DEF BufSize
    <3> QED BY <3>1, <3>2
  <2>3. CASE b # <<>>
    <3>1. l \in 1..MaxLen /\ Len(b) < 1 + l
      BY <2>1, <2>3 DEF Partial
    <3> HIDE DEF b, l
    <3>2. Len(b) < BufSize
      BY <2>1, <3>1, IpcAssumption DEF BufSize
    <3> QED BY <3>2 DEF b
  <2> QED BY <2>2, <2>3
<1> QED BY <1>1, ServerInvariant, PTL

(* The i-th answer a client reads is the one to its i-th frame: pieces,    *)
(* pipelining and reused slots never mix up, drop or repeat an answer.     *)
THEOREM AnswersMatch == Spec => []AnswersInOrder
<1>1. ServerInv => AnswersInOrder
  <2> SUFFICES ASSUME TypeInv, CountInv, NEW c \in Conns,
                      NEW i \in DOMAIN (got[c] \o outq[c])
               PROVE  (got[c] \o outq[c])[i] = <<c, i>>
    BY DEF ServerInv, AnswersInOrder
  <2> DEFINE g == got[c]
             o == outq[c]
  <2>1. /\ g \in Answers /\ o \in Answers
        /\ \A j \in DOMAIN g : g[j] = <<c, j>>
        /\ \A j \in DOMAIN o : o[j] = <<c, Len(g) + j>>
    BY TypeFacts DEF CountInv
  <2>2. i \in DOMAIN (g \o o)
    OBVIOUS
  <2> HIDE DEF g, o
  <2>3. /\ Len(g) \in Nat /\ Len(o) \in Nat /\ DOMAIN g = 1..Len(g) /\ DOMAIN o = 1..Len(o)
        /\ DOMAIN (g \o o) = 1..(Len(g) + Len(o))
        /\ \A j \in 1..(Len(g) + Len(o)) :
             (g \o o)[j] = IF j <= Len(g) THEN g[j] ELSE o[j - Len(g)]
    BY <2>1, ConcatProperties, LenProperties DEF Answers
  <2>4. CASE i <= Len(g)
    <3>1. i \in 1..Len(g)
      BY <2>2, <2>3, <2>4
    <3> QED BY <2>1, <2>2, <2>3, <2>4, <3>1 DEF g, o
  <2>5. CASE ~(i <= Len(g))
    <3>1. i - Len(g) \in 1..Len(o) /\ Len(g) + (i - Len(g)) = i
      BY <2>2, <2>3, <2>5
    <3>2. (g \o o)[i] = o[i - Len(g)]
      BY <2>2, <2>3, <2>5
    <3>3. (g \o o)[i] = <<c, i>>
      BY <2>1, <2>3, <3>1, <3>2
    <3> QED BY <3>3 DEF g, o
  <2> QED BY <2>4, <2>5
<1> QED BY <1>1, ServerInvariant, PTL

(* No request is acted upon twice, or before the last of it has arrived.   *)
THEOREM RequestsHandledOnce == Spec => []HandledOnce
<1>1. ServerInv => HandledOnce
  <2> SUFFICES ASSUME TypeInv, CountInv, NEW c \in Conns,
                      NEW i \in DOMAIN handled[c], NEW j \in DOMAIN handled[c]
               PROVE  /\ handled[c][i] = handled[c][j] => i = j
                      /\ handled[c][i] < frames[c] \/ (handled[c][i] = frames[c] /\ unsent[c] = 0)
    BY DEF ServerInv, HandledOnce
  <2>1. /\ handled[c][i] = i /\ handled[c][j] = j
        /\ Len(handled[c]) <= frames[c]
        /\ Len(handled[c]) = frames[c] => unsent[c] = 0
    BY DEF CountInv
  <2>2. Len(handled[c]) \in Nat /\ frames[c] \in Nat /\ i \in 1..Len(handled[c])
    BY TypeFacts, LenProperties
  <2>3. i < frames[c] \/ (i = frames[c] /\ unsent[c] = 0)
    BY <2>1, <2>2
  <2> QED BY <2>1, <2>3
<1> QED BY <1>1, ServerInvariant, PTL
=============================================================================
