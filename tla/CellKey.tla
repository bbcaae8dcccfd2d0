------------------------------ MODULE CellKey ------------------------------
(***************************************************************************)
(* The instance part of a table cell's key, "<column>.<instance>": how     *)
(* src/table_rows.c writes and parses it, and how the Rust half            *)
(* (storage/table.rs) does.  The parser of the C side runs step by step on *)
(* every string over digits, the dot and one other character.  Radix,      *)
(* Subid, SUBID_MAX and KEY_MAX are 10, 0xFFFFFFFF, 128 and 255 in the     *)
(* code; only their ratios matter here.                                    *)
(***************************************************************************)
EXTENDS Integers, SequencesExt

CONSTANTS Radix, MaxSubid, TABLE_ROW_SUBID_MAX, STORAGE_KEY_MAX,
          MaxLen    \* bound: characters of a string tried

ASSUME CellKeyAssumption ==
  /\ Radix \in Nat \ {0, 1} /\ MaxSubid \in Nat \ {0}
  /\ TABLE_ROW_SUBID_MAX \in Nat \ {0} /\ STORAGE_KEY_MAX \in Nat /\ MaxLen \in Nat
  \* A key within the limit has no more sub-identifiers than fit: 127 <= 128.
  /\ STORAGE_KEY_MAX \div 2 <= TABLE_ROW_SUBID_MAX

Digits == 0 .. Radix - 1
Dot    == Radix
Stray  == Radix + 1
Chars  == Digits \cup {Dot, Stray}

VARIABLES dotted,  \* the string
          pos,     \* characters consumed
          start,   \* where the component began
          value,   \* its value so far
          inst,    \* sub-identifiers so far
          at,      \* "component", "digits", "end"
          rc       \* "OK" or "INVAL" at the end

keyVars == <<dotted, pos, start, value, inst, at, rc>>

KeyInit ==
  /\ dotted \in SeqOf(Chars, MaxLen)
  /\ pos = 0 /\ start = 0 /\ value = 0 /\ inst = <<>>
  /\ at = "component" /\ rc = "OK"

Return(code) == at' = "end" /\ rc' = code

Char == dotted[pos + 1]

-----------------------------------------------------------------------------
(* table_instance_parse. *)
Component ==
  /\ at = "component"
  /\ IF dotted = <<>> \/ Len(inst) = TABLE_ROW_SUBID_MAX
       THEN Return("INVAL") /\ UNCHANGED <<start, value>>
       ELSE at' = "digits" /\ start' = pos /\ value' = 0 /\ UNCHANGED rc
  /\ UNCHANGED <<dotted, pos, inst>>

(* The bound is checked after every digit, so that value cannot run over. *)
Digit ==
  /\ at = "digits" /\ pos < Len(dotted) /\ Char \in Digits
  /\ value' = value * Radix + Char
  /\ IF value' > MaxSubid
       THEN Return("INVAL") /\ UNCHANGED pos
       ELSE pos' = pos + 1 /\ UNCHANGED <<at, rc>>
  /\ UNCHANGED <<dotted, start, inst>>

BadComponent_AllowsZeros == pos = start

BadComponent ==
  \/ pos = start                                      \* no digit
  \/ pos - start > 1 /\ dotted[start + 1] = 0         \* a leading zero

EndOfDigits ==
  /\ at = "digits" /\ (pos < Len(dotted) => Char \notin Digits)
  /\ IF BadComponent
       THEN Return("INVAL") /\ UNCHANGED <<pos, inst>>
       ELSE /\ inst' = Append(inst, value)
            /\ \/ pos = Len(dotted) /\ Return("OK") /\ UNCHANGED pos
               \/ pos < Len(dotted) /\ Char # Dot /\ Return("INVAL") /\ UNCHANGED pos
               \/ /\ pos < Len(dotted) /\ Char = Dot
                  /\ pos' = pos + 1
                  /\ IF pos' = Len(dotted) THEN Return("INVAL")
                                           ELSE at' = "component" /\ UNCHANGED rc
  /\ UNCHANGED <<dotted, start, value>>

KeyNext == Component \/ Digit \/ EndOfDigits
KeySpec == KeyInit /\ [][KeyNext]_keyVars

-----------------------------------------------------------------------------
(* printf's %lu, and table_instance_format: its loop writes each text      *)
(* after a dot, the first one without; text[i] is the buffer after i turns. *)
Decimal[n \in 0 .. MaxSubid] ==
  IF n < Radix THEN <<n>> ELSE Append(Decimal[n \div Radix], n % Radix)

Joined(texts) ==
  LET text[i \in 0 .. Len(texts)] ==
        IF i = 0 THEN <<>>
        ELSE (text[i - 1] \o (IF i = 1 THEN <<>> ELSE <<Dot>>)) \o texts[i]
  IN  text[Len(texts)]

table_instance_format(s) == Joined([i \in DOMAIN s |-> Decimal[s[i]]])

(* table_cell_key with a buffer of STORAGE_KEY_MAX + 1 characters, for a   *)
(* column of collen characters: does it build a key?                       *)
table_cell_key_Short(collen, s) ==
  /\ collen > 0
  /\ collen + 1 + Len(table_instance_format(s)) < STORAGE_KEY_MAX

table_cell_key(collen, s) ==
  /\ collen > 0 /\ collen + 2 <= STORAGE_KEY_MAX + 1
  /\ s # <<>> /\ Len(s) <= TABLE_ROW_SUBID_MAX
  /\ Len(table_instance_format(s)) < STORAGE_KEY_MAX - collen
  /\ collen + 1 + Len(table_instance_format(s)) <= STORAGE_KEY_MAX

-----------------------------------------------------------------------------
(* Rust: cell_key for a column without a dot, and parse_instance.          *)
(* keylen[i] is the length of the key with i sub-identifiers.              *)
cell_key(collen, s) ==
  LET keylen[i \in 0 .. Len(s)] ==
        IF i = 0 THEN collen ELSE keylen[i - 1] + 1 + Len(Decimal[s[i]])
  IN  collen > 0 /\ s # <<>> /\ keylen[Len(s)] <= STORAGE_KEY_MAX

(* The parts between the dots of the first j characters. *)
PartsUpTo(s) ==
  LET parts[j \in 0 .. Len(s)] ==
        IF j = 0 THEN << <<>> >>
        ELSE LET prev == parts[j - 1]
             IN  IF s[j] = Dot THEN Append(prev, <<>>)
                               ELSE [prev EXCEPT ![Len(prev)] = Append(@, s[j])]
  IN  parts

split(s) == PartsUpTo(s)[Len(s)]

u32_from(part) ==
  LET v[i \in 0 .. Len(part)] == IF i = 0 THEN 0 ELSE v[i - 1] * Radix + part[i]
  IN  v[Len(part)]

PartOk_AllowsZeros(part) ==
  /\ part # <<>> /\ \A i \in DOMAIN part : part[i] \in Digits
  /\ u32_from(part) <= MaxSubid

PartOk(part) ==
  /\ part # <<>> /\ \A i \in DOMAIN part : part[i] \in Digits
  /\ ~(Len(part) > 1 /\ part[1] = 0)
  /\ u32_from(part) <= MaxSubid

parse_instance(s) ==
  IF s # <<>> /\ \A i \in DOMAIN split(s) : PartOk(split(s)[i])
    THEN [ok |-> TRUE, inst |-> [i \in DOMAIN split(s) |-> u32_from(split(s)[i])]]
    ELSE [ok |-> FALSE, inst |-> <<>>]

-----------------------------------------------------------------------------
Done == at = "end"

(* The parser accepts exactly what table_instance_format writes: a string  *)
(* it takes is written back as it was, so two keys never name one row, and *)
(* every row a writer can name is found again.  In particular no overflow  *)
(* of a component and no leading zero slips through.                       *)
ParseExact ==
  Done =>
    /\ rc = "OK" => table_instance_format(inst) = dotted
    /\ rc = "INVAL" => ~\E s \in SeqOf(0 .. MaxSubid, TABLE_ROW_SUBID_MAX) :
                           s # <<>> /\ table_instance_format(s) = dotted

(* "the same keys the C side skips" (table.rs): within the key limit the   *)
(* Rust parser and the C parser agree on every string and every row.       *)
ParsersAgree ==
  (Done /\ Len(dotted) + 2 <= STORAGE_KEY_MAX) =>
    parse_instance(dotted) = [ok |-> rc = "OK", inst |-> IF rc = "OK" THEN inst ELSE <<>>]

(* "Both halves therefore reject the same keys" (table.rs): for a column   *)
(* name of any length without a dot in it, and any row, at the limit and   *)
(* one beyond it.                                                          *)
SameKeys ==
  (Done /\ rc = "OK") =>
    \A collen \in 0 .. STORAGE_KEY_MAX + 1 : table_cell_key(collen, inst) <=> cell_key(collen, inst)
=============================================================================
