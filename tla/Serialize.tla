----------------------------- MODULE Serialize -----------------------------
(* The bytes a bytecode file is made of: src/runtime/src/serialize.rs.      *)
(*                                                                          *)
(* A byte is a number below 256 and the groups of a varint are the code's   *)
(* seven bits; only the word is narrowed, from 64 bits to U64, which leaves *)
(* the last group one bit as 64 does. A string is a name, and Utf8 gives    *)
(* its bytes. A double is its own eight bytes, most significant first.      *)
EXTENDS Integers, Sequences, SequencesExt

CONSTANTS
  U16, U32, U64,  \* the widths of the code's integers, in bits
  Utf8            \* the bytes of each string there is

GROUP == 128

-----------------------------------------------------------------------------
\* Writer. What a write appends.

write_u32_le(v) == [i \in 1..4 |-> (v \div 256^(i - 1)) % 256]

write_f64(x) == Reverse(x)

\* One group per byte, low groups first; the high bit says that more follow.
RECURSIVE write_uvarint(_)
write_uvarint(v) ==
  IF v < GROUP THEN <<v>>
  ELSE <<GROUP + (v % GROUP)>> \o write_uvarint(v \div GROUP)

\* Stops when nothing but sign is left, whatever sign the last group shows.
Settled_AnySign(v, byte) == v \in {0, -1}

\* The same for a signed value, with an arithmetic shift, until what is left is
\* only the sign that the last group shows already.
Settled(v, byte) == v = IF byte < GROUP \div 2 THEN 0 ELSE -1

RECURSIVE write_ivarint(_)
write_ivarint(v) ==
  LET byte == v % GROUP
      left == v \div GROUP
  IN IF Settled(left, byte) THEN <<byte>> ELSE <<GROUP + byte>> \o write_ivarint(left)

write_bytes(data) == write_uvarint(Len(data)) \o data

write_str(s) == write_bytes(Utf8[s])

-----------------------------------------------------------------------------
\* Reader. It holds the bytes that are left, the values read so far, the last
\* one last, and the first error. The `?` after every read is OnOk: an error
\* stands, and nothing is read after it.

NoError == "none"

Reader(bytes) == [rest |-> bytes, got |-> <<>>, err |-> NoError]

OnOk(r, next) == IF r.err = NoError THEN next ELSE r

Fail(r, err) == [r EXCEPT !.err = err]

Took(r, n, value) == [r EXCEPT !.rest = SubSeq(@, n + 1, Len(@)), !.got = Append(@, value)]

\* What there is, when there is less.
read_raw_Short(r, n) ==
  LET k == IF Len(r.rest) < n THEN Len(r.rest) ELSE n
  IN OnOk(r, IF k = 0 /\ n > 0 THEN Fail(r, "UnexpectedEof")
             ELSE Took(r, k, SubSeq(r.rest, 1, k)))

\* take, read_raw: the next n bytes, or nothing.
read_raw(r, n) ==
  OnOk(r, IF Len(r.rest) < n THEN Fail(r, "UnexpectedEof")
          ELSE Took(r, n, SubSeq(r.rest, 1, n)))

\* The last n values read become one.
Pack(r, n, Make(_)) ==
  LET keep == Len(r.got) - n
  IN OnOk(r, [r EXCEPT !.got = Append(SubSeq(@, 1, keep), Make(SubSeq(@, keep + 1, Len(@))))])

read_u8(r) == Pack(read_raw(r, 1), 1, LAMBDA g : g[1][1])

read_u32_le(r) ==
  Pack(read_raw(r, 4), 1,
       LAMBDA g : FoldLeft(LAMBDA acc, b : acc * 256 + b, 0, Reverse(g[1])))

read_f64(r) == Pack(read_raw(r, 8), 1, LAMBDA g : Reverse(g[1]))

\* Reads groups from byte n + 1 on; result holds the groups before it. End gives
\* the value once the last group, which is byte n, is in.
RECURSIVE Groups(_, _, _)
Groups(r, n, result) ==
  IF n = Len(r.rest) THEN Fail(r, "UnexpectedEof")
  ELSE LET byte == r.rest[n + 1]
           sum == (result + (byte % GROUP) * GROUP^n) % 2^U64
       IN IF 7 * n >= U64 THEN Fail(r, "VarintOverflow")
          ELSE IF byte >= GROUP THEN Groups(r, n + 1, sum)
          ELSE Took(r, n + 1, [sum |-> sum, shift |-> 7 * (n + 1), last |-> byte])

read_uvarint(r) == Pack(OnOk(r, Groups(r, 0, 0)), 1, LAMBDA g : g[1].sum)

\* The sign is extended when the last group shows it and there is room, and the
\* word is read as a signed one.
SignExtended(v) ==
  LET word == IF v.shift < U64 /\ v.last >= GROUP \div 2
              THEN v.sum + 2^U64 - 2^v.shift
              ELSE v.sum
  IN IF word >= 2^(U64 - 1) THEN word - 2^U64 ELSE word

read_ivarint(r) == Pack(OnOk(r, Groups(r, 0, 0)), 1, LAMBDA g : SignExtended(g[1]))

read_bytes(r) ==
  LET counted == read_uvarint(r)
  IN OnOk(counted, Pack(read_raw(counted, Last(counted.got)), 2, LAMBDA g : g[2]))

read_str(r) ==
  LET raw == read_bytes(r)
  IN OnOk(raw, IF \E s \in DOMAIN Utf8 : Utf8[s] = Last(raw.got)
               THEN Pack(raw, 1, LAMBDA g : CHOOSE s \in DOMAIN Utf8 : Utf8[s] = g[1])
               ELSE Fail(raw, "InvalidUtf8"))

\* `for _ in 0..count`: a count, then that many rows, read into one sequence.
Counted(r, Row(_)) ==
  LET counted == read_uvarint(r)
      n == Last(counted.got)
  IN OnOk(counted,
          Pack(FoldLeft(LAMBDA acc, i : OnOk(acc, Row(acc)), counted, [i \in 1..n |-> i]),
               n + 1, LAMBDA g : Tail(g)))
=============================================================================
