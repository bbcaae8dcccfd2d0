----------------------------- MODULE CellCodec -----------------------------
(***************************************************************************)
(* The bytes of a stored cell: written and read by src/storage_lmdb.c on   *)
(* one side and by the Rust crate's codec on the other.  A cell is a type  *)
(* tag, reserved bytes and a little-endian payload.  The widths are        *)
(* constants, so that every value of every type can be tried: the code has *)
(* Base 256, Word 4 and Reserved 3.                                        *)
(***************************************************************************)
EXTENDS Integers, SequencesExt

CONSTANTS Base,      \* values of a byte
          Word,      \* bytes of a 32-bit integer
          Reserved,  \* header bytes after the tag
          MaxBytes,  \* bound: octets of a string
          MaxSubids, \* bound: sub-identifiers of an OID
          MaxForeign \* bound: bytes of a cell neither side wrote

ASSUME CodecAssumption ==
  /\ Base \in Nat /\ Base > 5 /\ Base % 2 = 0 /\ Word \in Nat \ {0} /\ Reserved \in Nat
  /\ MaxBytes \in Nat /\ MaxSubids \in Nat /\ MaxForeign \in Nat

Byte == 0 .. (Base - 1)

(* The powers of Base: what a byte is worth by its place. *)
Pow[n \in 0 .. 2 * Word] == IF n = 0 THEN 1 ELSE Base * Pow[n - 1]

HeaderLen == 1 + Reserved
Uint32 == 0 .. (Pow[Word] - 1)
Uint64 == 0 .. (Pow[2 * Word] - 1)
Int32  == (-(Pow[Word] \div 2)) .. ((Pow[Word] \div 2) - 1)

Types == {"Int32", "Uint32", "Uint64", "Bytes", "Oid"}
Tag   == [Int32 |-> 1, Uint32 |-> 2, Uint64 |-> 3, Bytes |-> 4, Oid |-> 5]

Domain == [Int32 |-> Int32, Uint32 |-> Uint32, Uint64 |-> Uint64,
           Bytes |-> SeqOf(Byte, MaxBytes), Oid |-> SeqOf(Uint32, MaxSubids)]

VARIABLES cell,   \* the bytes under a key
          wrote   \* who wrote them: a type and a value, or "Foreign"

cellVars == <<cell, wrote>>

Ok(v)    == [rc |-> "OK", val |-> v]
Err(why) == [rc |-> why, val |-> <<>>]

Slice(s, from, n) == SubSeq(s, from, from + n - 1)

-----------------------------------------------------------------------------
(* C: bytes of an integer, by shifts, and the integer they make. *)
put_u32le_BigEndian(v) == [i \in 1 .. Word |-> (v \div Pow[Word - i]) % Base]

put_u32le(v) == [i \in 1 .. Word |-> (v \div Pow[i - 1]) % Base]

get_u32le(p) ==
  LET v[i \in 0 .. Word] == IF i = 0 THEN 0 ELSE v[i - 1] + p[i] * Pow[i - 1]
  IN  v[Word]

(* The same of eight bytes, with loops that shift by one byte; v[i] is the *)
(* variable after i turns.                                                 *)
put_u64le(x) ==
  LET v[i \in 0 .. 2 * Word] == IF i = 0 THEN x ELSE v[i - 1] \div Base
  IN  [i \in 1 .. 2 * Word |-> v[i - 1] % Base]

get_u64le(p) ==
  LET v[i \in 0 .. 2 * Word] == IF i = 0 THEN 0 ELSE v[i - 1] * Base + p[2 * Word + 1 - i]
  IN  v[2 * Word]

(* The casts between int32_t and uint32_t. *)
AsUnsigned(v) == v % Pow[Word]
AsSigned(u)   == IF u \in Int32 THEN u ELSE u - Pow[Word]

(* The words of an OID one after the other: word k at (k - 1) * Word. *)
Words(w) == [i \in 1 .. Len(w) * Word |-> w[1 + ((i - 1) \div Word)][1 + ((i - 1) % Word)]]

encode_header(type) == <<Tag[type]>> \o [i \in 1 .. Reserved |-> 0]

set_int(v)   == encode_header("Int32") \o put_u32le(AsUnsigned(v))
set_uint(v)  == encode_header("Uint32") \o put_u32le(v)
set_u64(v)   == encode_header("Uint64") \o put_u64le(v)
set_bytes(v) == encode_header("Bytes") \o v
set_oid(v)   == encode_header("Oid") \o Words([k \in DOMAIN v |-> put_u32le(v[k])])

storage_set(type, v) ==
  CASE type = "Int32"  -> set_int(v)
    [] type = "Uint32" -> set_uint(v)
    [] type = "Uint64" -> set_u64(v)
    [] type = "Bytes"  -> set_bytes(v)
    [] type = "Oid"    -> set_oid(v)

decode_header(raw, type) ==
  CASE Len(raw) < HeaderLen -> Err("INVAL")
    [] Len(raw) >= HeaderLen /\ raw[1] # Tag[type] -> Err("TYPE")
    [] OTHER -> Ok(Slice(raw, HeaderLen + 1, Len(raw) - HeaderLen))

(* The part the getters share: the header, then what the payload must be. *)
Decoded(raw, type, Value(_)) ==
  LET payload == decode_header(raw, type)
  IN  IF payload.rc # "OK" THEN payload ELSE Value(payload.val)

get_int(raw)  == Decoded(raw, "Int32", LAMBDA p :
  IF Len(p) < Word THEN Err("INVAL") ELSE Ok(AsSigned(get_u32le(p))))
get_uint(raw) == Decoded(raw, "Uint32", LAMBDA p :
  IF Len(p) < Word THEN Err("INVAL") ELSE Ok(get_u32le(p)))
get_u64(raw)  == Decoded(raw, "Uint64", LAMBDA p :
  IF Len(p) < 2 * Word THEN Err("INVAL") ELSE Ok(get_u64le(p)))

(* A string or an OID goes into the caller's buffer; when it does not fit  *)
(* the answer is its length.                                               *)
TooBig(n) == [rc |-> "TOOBIG", val |-> n]

get_bytes(raw, room) == Decoded(raw, "Bytes", LAMBDA p :
  IF Len(p) > room THEN TooBig(Len(p)) ELSE Ok(p))

get_oid_CountsBytes(raw, room) == Decoded(raw, "Oid", LAMBDA p :
  CASE Len(p) % Word # 0 -> Err("INVAL")
    [] Len(p) % Word = 0 /\ Len(p) > room -> TooBig(Len(p))
    [] OTHER -> Ok([i \in 1 .. Len(p) \div Word |->
                      get_u32le(Slice(p, (i - 1) * Word + 1, Word))]))

get_oid(raw, room) == Decoded(raw, "Oid", LAMBDA p :
  CASE Len(p) % Word # 0 -> Err("INVAL")
    [] Len(p) % Word = 0 /\ Len(p) \div Word > room -> TooBig(Len(p) \div Word)
    [] OTHER -> Ok([i \in 1 .. Len(p) \div Word |->
                      get_u32le(Slice(p, (i - 1) * Word + 1, Word))]))

storage_get(raw, type, room) ==
  CASE type = "Int32"  -> get_int(raw)
    [] type = "Uint32" -> get_uint(raw)
    [] type = "Uint64" -> get_u64(raw)
    [] type = "Bytes"  -> get_bytes(raw, room)
    [] type = "Oid"    -> get_oid(raw, room)

-----------------------------------------------------------------------------
(* Rust: to_le_bytes and from_le_bytes of the standard library, which know *)
(* two's complement, and the codec around them.                            *)
to_le_bytes(v, n)   == [i \in 1 .. n |-> ((v % Pow[n]) \div Pow[i - 1]) % Base]
from_le_bytes(p)    ==
  LET v[i \in 0 .. Len(p)] == IF i = 0 THEN 0 ELSE v[i - 1] + p[i] * Pow[i - 1]
  IN  v[Len(p)]
i32_from_le_bytes(p) ==
  LET u == from_le_bytes(p) IN u - (IF p[Len(p)] >= Base \div 2 THEN Pow[Len(p)] ELSE 0)

encode(type, v) ==
  <<Tag[type]>> \o [i \in 1 .. Reserved |-> 0] \o
    (CASE type \in {"Int32", "Uint32"} -> to_le_bytes(v, Word)
       [] type = "Uint64" -> to_le_bytes(v, 2 * Word)
       [] type = "Bytes"  -> v
       [] type = "Oid"    -> Words([k \in DOMAIN v |-> to_le_bytes(v[k], Word)]))

(* Whether decode finds a value of the type, and which. *)
Accepts_Loosely(raw, type) ==
  /\ Len(raw) >= HeaderLen /\ raw[1] = Tag[type]
  /\ LET n == Len(raw) - HeaderLen
     IN  CASE type \in {"Int32", "Uint32"} -> n >= Word
           [] type = "Uint64" -> n >= Word
           [] type = "Bytes"  -> TRUE
           [] type = "Oid"    -> n % Word = 0

Accepts(raw, type) ==
  /\ Len(raw) >= HeaderLen /\ raw[1] = Tag[type]
  /\ \A i \in 2 .. HeaderLen : raw[i] = 0
  /\ LET n == Len(raw) - HeaderLen
     IN  CASE type \in {"Int32", "Uint32"} -> n = Word
           [] type = "Uint64" -> n = 2 * Word
           [] type = "Bytes"  -> TRUE
           [] type = "Oid"    -> n % Word = 0

decode(raw, type) ==
  LET p == Slice(raw, HeaderLen + 1, Len(raw) - HeaderLen)
  IN  CASE type = "Int32"  -> i32_from_le_bytes(p)
        [] type \in {"Uint32", "Uint64"} -> from_le_bytes(p)
        [] type = "Bytes"  -> p
        [] type = "Oid"    -> [i \in 1 .. Len(p) \div Word |->
                                 from_le_bytes(Slice(p, (i - 1) * Word + 1, Word))]

(* The tag's type is not the one asked for, or decode fails. *)
get_typed(raw, type) == IF Accepts(raw, type) THEN Ok(decode(raw, type)) ELSE Err("ERR")

-----------------------------------------------------------------------------
CellInit == cell = <<>> /\ wrote = <<"Foreign">>

CSet(type, v) == cell' = storage_set(type, v) /\ wrote' = <<type, v>>
RustPut(type, v) == cell' = encode(type, v) /\ wrote' = <<type, v>>

(* Bytes neither side wrote: a damaged file, or another tool. *)
Foreign(raw) == cell' = raw /\ wrote' = <<"Foreign">>

(* Every value once, starting from an empty cell. *)
CellNext ==
  /\ cell = <<>>
  /\ \/ \E type \in Types : \E v \in Domain[type] : CSet(type, v)
     \/ \E type \in Types : \E v \in Domain[type] : RustPut(type, v)
     \/ \E raw \in SeqOf(Byte, MaxForeign) : Foreign(raw)

CellSpec == CellInit /\ [][CellNext]_cellVars

-----------------------------------------------------------------------------
Rooms == 0 .. MaxBytes + MaxSubids
Enough == MaxBytes + MaxForeign + MaxSubids

(* Whoever wrote it, in C or in Rust, the getter of the type it was        *)
(* written with finds the value on both sides, negative integers and the   *)
(* ends of every range included, and the other four getters refuse it on   *)
(* both sides, so no integer is ever read as one of another signedness.    *)
RoundTrip ==
  wrote # <<"Foreign">> =>
    \A type \in Types :
      IF type = wrote[1]
        THEN /\ storage_get(cell, type, Enough) = Ok(wrote[2])
             /\ get_typed(cell, type) = Ok(wrote[2])
        ELSE /\ storage_get(cell, type, Enough).rc = "TYPE"
             /\ get_typed(cell, type).rc = "ERR"

(* On any bytes at all, damaged ones too, what Rust takes for a value C    *)
(* takes for the same value.  (The converse fails by design: C tolerates   *)
(* reserved bytes that are not zero and trailing bytes after an integer.)  *)
RustSubsetOfC ==
  \A type \in Types :
    get_typed(cell, type).rc = "OK" => storage_get(cell, type, Enough) = get_typed(cell, type)

(* A getter never delivers more than the caller's buffer holds, and the    *)
(* length it reports instead is the one with which the next try succeeds.  *)
FitsOrTellsHowMuch ==
  \A type \in {"Bytes", "Oid"}, room \in Rooms :
    LET r == storage_get(cell, type, room)
    IN  /\ r.rc = "OK" => Len(r.val) <= room
        /\ r.rc = "TOOBIG" => /\ r.val > room
                              /\ storage_get(cell, type, r.val).rc = "OK"
                              /\ Len(storage_get(cell, type, r.val).val) = r.val
=============================================================================
