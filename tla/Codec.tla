------------------------------- MODULE Codec -------------------------------
(* Modules and their wire format: src/runtime/src/module.rs and codec.rs.   *)
(*                                                                          *)
(* An instruction is its name and the sequence of its operands. Indices     *)
(* count from zero as in the code, so row i of a table is table[i + 1].     *)
(* natives is the native table of the runtime that writes or reads.         *)
EXTENDS Serialize

-----------------------------------------------------------------------------
\* module.rs

NoIndex == -1

TypeDef_new(name, field_count) == [name |-> name, field_count |-> field_count, field_names |-> <<>>]

TypeDef_named(name, names) ==
  [name |-> name, field_count |-> Len(names) % 2^U16, field_names |-> names]

EnumDef(ty, name, variants) == [ty |-> ty, name |-> name, variants |-> variants]

DispatchEntry(ty, selector, func) == [ty |-> ty, selector |-> selector, func |-> func]

with_types(functions, types) ==
  [functions |-> functions, types |-> types, enums |-> <<>>,
   dispatch |-> <<>>, dispatch_index |-> <<>>,
   global_count |-> 0, entry |-> NoIndex, init |-> NoIndex]

\* The table, and for each type the rows that are about it, in table order.
IndexOf(rows) ==
  [ty \in {rows[i].ty : i \in DOMAIN rows} |->
     SelectSeq([i \in DOMAIN rows |-> i - 1], LAMBDA i : rows[i + 1].ty = ty)]

set_dispatch(m, rows) == [m EXCEPT !.dispatch = rows, !.dispatch_index = IndexOf(rows)]

FirstWith(table, Test(_)) ==
  LET at == {i \in DOMAIN table : Test(table[i])}
  IN IF at = {} THEN NoIndex ELSE (CHOOSE i \in at : \A j \in at : i <= j) - 1

function_index(m, name) == FirstWith(m.functions, LAMBDA f : f.name = name)

OrElse(index, other) == IF index # NoIndex THEN index ELSE other

entry_index(m) == OrElse(m.entry, function_index(m, "main"))

init_index(m) == OrElse(m.init, function_index(m, "<init>"))

dispatch_target(m, ty, selector) ==
  IF ty \notin DOMAIN m.dispatch_index THEN NoIndex
  ELSE LET own == m.dispatch_index[ty]
           at == FirstWith(own, LAMBDA i : m.dispatch[i + 1].selector = selector)
       IN IF at = NoIndex THEN NoIndex ELSE m.dispatch[own[at + 1] + 1].func

-----------------------------------------------------------------------------
\* The format.

MAGIC == <<84, 72, 69, 82, 65>>
VERSION == 3
SUPPORTED_VERSIONS == {2, 3}

FUNCTIONS == 1
CONSTANTS_ == 2
TYPES == 3
DISPATCH == 4
GLOBALS == 5
ENTRY == 6
SYMBOLS == 7
ENUMS == 8

\* mod op: an opcode is the place of its instruction in this list.
Opcodes ==
  <<"ConstInt", "ConstDouble", "ConstBool", "ConstUnit", "ConstStr", "Load", "Store",
    "AddI64", "SubI64", "MulI64", "DivI64", "ModI64", "NegI64",
    "AddF64", "SubF64", "MulF64", "DivF64", "NegF64",
    "EqI64", "NeI64", "LtI64", "LeI64", "GtI64", "GeI64",
    "EqF64", "NeF64", "LtF64", "LeF64", "GtF64", "GeF64",
    "Not", "I64ToF64", "F64ToI64", "Pop", "Dup", "Call", "CallNative",
    "EnumNew", "EnumTag", "EnumGet", "ListNew", "Jump", "JumpIfTrue", "JumpIfFalse", "Return",
    "StructNew", "FieldGet", "FieldSet", "ClosureNew", "CallIndirect", "CallVirtual",
    "ListGet", "ListSet", "AndI64", "OrI64", "XorI64", "BNotI64", "ShlI64", "ShrI64", "UShrI64",
    "ListLen", "GlobalGet", "GlobalSet">>

native_name(natives, index) == natives[index + 1]

native_index(natives, name) == FirstWith(natives, LAMBDA n : n = name)

-----------------------------------------------------------------------------
\* Encoding.

\* StringPool: a string is stored once, in the order of its first use.
intern(pool, s) == IF \E i \in DOMAIN pool : pool[i] = s THEN pool ELSE Append(pool, s)

PoolIndex(pool, s) == FirstWith(pool, LAMBDA t : t = s)

\* The strings an instruction refers to.
StringsOf(i, natives) ==
  CASE i.op \in {"ConstStr", "CallVirtual"} -> <<i.args[1]>>
    [] i.op = "CallNative" -> <<native_name(natives, i.args[1])>>
    [] OTHER -> <<>>

Each(table, F(_)) == FlattenSeq([i \in DOMAIN table |-> F(table[i])])

\* The first pass of encode_module: every string the module refers to.
PoolOf(m, natives) ==
  FoldLeft(intern, <<>>,
    Each(m.types, LAMBDA t : <<t.name>> \o t.field_names)
    \o Each(m.enums, LAMBDA e : <<e.name>> \o e.variants)
    \o Each(m.functions, LAMBDA f : Each(f.code, LAMBDA i : StringsOf(i, natives)))
    \o Each(m.dispatch, LAMBDA e : <<e.selector>>))

\* Encoding panics at a native the writing runtime does not have.
Encodable(m, natives) ==
  \A f \in DOMAIN m.functions : \A k \in DOMAIN m.functions[f].code :
    LET i == m.functions[f].code[k] IN i.op = "CallNative" => i.args[1] < Len(natives)

\* encode_instr: what is written for each operand of an instruction.
Written(op) ==
  CASE op = "ConstInt" -> <<"ivarint">>
    [] op = "ConstDouble" -> <<"f64">>
    [] op = "ConstBool" -> <<"bool">>
    [] op = "ConstStr" -> <<"str">>
    [] op = "CallNative" -> <<"native", "uvarint">>
    [] op = "CallVirtual" -> <<"str", "uvarint">>
    [] op = "EnumNew" -> <<"uvarint", "uvarint", "uvarint">>
    [] op \in {"Call", "ClosureNew"} -> <<"uvarint", "uvarint">>
    [] op \in {"Load", "Store", "GlobalGet", "GlobalSet", "EnumGet", "StructNew", "FieldGet",
               "FieldSet", "ListNew", "CallIndirect", "Jump", "JumpIfTrue", "JumpIfFalse"}
         -> <<"uvarint">>
    [] OTHER -> <<>>

WriteAs(kind, v, pool, natives) ==
  CASE kind = "ivarint" -> write_ivarint(v)
    [] kind = "f64" -> write_f64(v)
    [] kind = "bool" -> IF v THEN <<1>> ELSE <<0>>
    [] kind = "str" -> write_uvarint(PoolIndex(pool, v))
    [] kind = "native" -> write_uvarint(PoolIndex(pool, native_name(natives, v)))
    [] kind = "uvarint" -> write_uvarint(v)

encode_instr(i, pool, natives) ==
  <<CHOOSE tag \in DOMAIN Opcodes : Opcodes[tag] = i.op>>
  \o FlattenSeq([k \in DOMAIN i.args |-> WriteAs(Written(i.op)[k], i.args[k], pool, natives)])

encode_function(f, pool, natives) ==
  write_uvarint(f.param_count) \o write_uvarint(f.local_count) \o write_uvarint(Len(f.code))
  \o Each(f.code, LAMBDA i : encode_instr(i, pool, natives))

\* A table is its length and its rows.
Table(rows, Row(_)) == write_uvarint(Len(rows)) \o Each(rows, Row)

TypeRow(t, pool) ==
  write_uvarint(PoolIndex(pool, t.name)) \o write_uvarint(t.field_count)
  \o Table(t.field_names, LAMBDA n : write_uvarint(PoolIndex(pool, n)))

EnumRow(e, pool) ==
  write_uvarint(e.ty) \o write_uvarint(PoolIndex(pool, e.name))
  \o Table(e.variants, LAMBDA n : write_uvarint(PoolIndex(pool, n)))

DispatchRow(e, pool) ==
  write_uvarint(e.ty) \o write_uvarint(PoolIndex(pool, e.selector)) \o write_uvarint(e.func)

Section(id, payload) == <<[id |-> id, payload |-> payload]>>

Unless(skip, s) == IF skip THEN <<>> ELSE s

\* Only the entry points that are set are written.
EntrySection_AsSet(m) ==
  Unless(m.entry = NoIndex /\ m.init = NoIndex,
         Section(ENTRY, write_uvarint(m.entry + 1) \o write_uvarint(m.init + 1)))

\* A module that does not set its entry points gets those its names give.
EntrySection(m) ==
  LET entry == OrElse(m.entry, function_index(m, "main"))
      init == OrElse(m.init, function_index(m, "<init>"))
  IN Unless(entry = NoIndex /\ init = NoIndex,
            Section(ENTRY, write_uvarint(entry + 1) \o write_uvarint(init + 1)))

TableSections(m, natives) ==
  LET pool == PoolOf(m, natives)
  IN Section(CONSTANTS_, Table(pool, LAMBDA s : write_str(s)))
     \o Section(TYPES, Table(m.types, LAMBDA t : TypeRow(t, pool)))
     \o Unless(m.enums = <<>>, Section(ENUMS, Table(m.enums, LAMBDA e : EnumRow(e, pool))))
     \o Section(FUNCTIONS, Table(m.functions, LAMBDA f : encode_function(f, pool, natives)))
     \o Section(SYMBOLS, Table(m.functions, LAMBDA f : write_str(f.name)))
     \o Unless(m.dispatch = <<>>,
               Section(DISPATCH, Table(m.dispatch, LAMBDA e : DispatchRow(e, pool))))
     \o Unless(m.global_count = 0, Section(GLOBALS, write_uvarint(m.global_count)))

\* Entry goes ahead of the functions it points to.
Sections_EntryFirst(m, natives) == EntrySection(m) \o TableSections(m, natives)

\* In the order they are written.
Sections(m, natives) == TableSections(m, natives) \o EntrySection(m)

write_section(s) == <<s.id>> \o write_uvarint(Len(s.payload)) \o s.payload

FileOf(version, sections) == MAGIC \o write_u32_le(version) \o Each(sections, write_section)

encode_module(m, natives) == FileOf(VERSION, Sections(m, natives))

-----------------------------------------------------------------------------
\* Decoding. A cast to a narrower integer drops the high bits.

As(bits, v) == v % 2^bits

\* The last value read is a pool index; it becomes the string.
FromPool(r, pool) ==
  OnOk(r, IF Last(r.got) < Len(pool)
          THEN Pack(r, 1, LAMBDA g : pool[g[1] + 1])
          ELSE Fail(r, "ConstIndexOutOfRange"))

read_interned(r, pool) == FromPool(read_uvarint(r), pool)

\* decode_instr: how each operand of an instruction is read.
ReadAs(op) ==
  CASE op = "ConstInt" -> <<"ivarint">>
    [] op = "ConstDouble" -> <<"f64">>
    [] op = "ConstBool" -> <<"bool">>
    [] op = "ConstStr" -> <<"str">>
    [] op \in {"Load", "Store", "EnumGet", "FieldGet", "FieldSet"} -> <<"u16">>
    [] op \in {"GlobalGet", "GlobalSet", "StructNew", "ListNew"} -> <<"u32">>
    [] op = "CallIndirect" -> <<"u8">>
    [] op \in {"Call", "ClosureNew"} -> <<"u32", "u8">>
    [] op = "CallNative" -> <<"native", "u8">>
    [] op = "CallVirtual" -> <<"str", "u8">>
    [] op = "EnumNew" -> <<"u32", "u16", "u8">>
    [] op \in {"Jump", "JumpIfTrue", "JumpIfFalse"} -> <<"usize">>
    [] OTHER -> <<>>

\* A native is found by its name in the table of the runtime that loads.
NativeFor(r, natives) ==
  OnOk(r, IF native_index(natives, Last(r.got)) = NoIndex
          THEN Fail(r, "UnknownNative")
          ELSE Pack(r, 1, LAMBDA g : native_index(natives, g[1])))

ReadOperand(r, kind, pool, natives) ==
  CASE kind = "ivarint" -> read_ivarint(r)
    [] kind = "f64" -> read_f64(r)
    [] kind = "bool" -> Pack(read_u8(r), 1, LAMBDA g : g[1] # 0)
    [] kind = "str" -> read_interned(r, pool)
    [] kind = "native" -> NativeFor(read_interned(r, pool), natives)
    [] kind = "u8" -> Pack(read_uvarint(r), 1, LAMBDA g : As(8, g[1]))
    [] kind = "u16" -> Pack(read_uvarint(r), 1, LAMBDA g : As(U16, g[1]))
    [] kind = "u32" -> Pack(read_uvarint(r), 1, LAMBDA g : As(U32, g[1]))
    [] kind = "usize" -> read_uvarint(r)

decode_instr(r, pool, natives) ==
  LET coded == read_u8(r)
      op == Opcodes[Last(coded.got)]
      operands == ReadAs(op)
  IN OnOk(coded,
       IF Last(coded.got) \notin DOMAIN Opcodes THEN Fail(coded, "UnknownOpcode")
       ELSE Pack(FoldLeft(LAMBDA acc, kind : OnOk(acc, ReadOperand(acc, kind, pool, natives)),
                          coded, operands),
                 Len(operands) + 1, LAMBDA g : [op |-> op, args |-> Tail(g)]))

decode_function(r, pool, natives) ==
  Pack(Counted(read_uvarint(read_uvarint(r)), LAMBDA q : decode_instr(q, pool, natives)), 3,
       LAMBDA g : [name |-> "", param_count |-> As(U16, g[1]), local_count |-> As(U16, g[2]),
                   code |-> g[3]])

decode_pool(payload) == Counted(Reader(payload), read_str)

decode_symbols(payload) == Counted(Reader(payload), read_str)

decode_functions(payload, pool, natives) ==
  Counted(Reader(payload), LAMBDA r : decode_function(r, pool, natives))

\* v2 stops at the field count. A type without names keeps its field count, one
\* with names takes it from them.
decode_types(payload, pool, version) ==
  LET Bare(r) == read_uvarint(read_interned(r, pool))
      Named(r) == Counted(Bare(r), LAMBDA q : read_interned(q, pool))
      Row(r) == IF version < 3
                THEN Pack(Bare(r), 2, LAMBDA g : TypeDef_new(g[1], As(U16, g[2])))
                ELSE Pack(Named(r), 3, LAMBDA g : IF g[3] = <<>>
                                                  THEN TypeDef_new(g[1], As(U16, g[2]))
                                                  ELSE TypeDef_named(g[1], g[3]))
  IN Counted(Reader(payload), Row)

decode_enums(payload, pool) ==
  Counted(Reader(payload),
          LAMBDA r : Pack(Counted(read_interned(read_uvarint(r), pool),
                                  LAMBDA q : read_interned(q, pool)),
                          3, LAMBDA g : EnumDef(As(U32, g[1]), g[2], g[3])))

decode_dispatch(payload, pool) ==
  Counted(Reader(payload),
          LAMBDA r : Pack(read_uvarint(read_interned(read_uvarint(r), pool)), 3,
                          LAMBDA g : DispatchEntry(As(U32, g[1]), g[2], As(U32, g[3]))))

\* Stored as index + 1, zero for none.
decode_opt_index(raw) == IF raw = 0 THEN NoIndex ELSE As(U32, raw - 1)

decode_entry(payload) == read_uvarint(read_uvarint(Reader(payload)))

\* The payloads by section id. Order does not matter, a repeated section
\* replaces the first, and one the runtime does not know is only passed over.
RECURSIVE Payloads(_, _)
Payloads(r, found) ==
  LET head == read_uvarint(read_u8(r))
      s == read_raw(head, Last(head.got))
  IN IF r.err # NoError \/ r.rest = <<>> THEN [r EXCEPT !.got = found]
     ELSE Payloads([s EXCEPT !.got = <<>>],
                   IF s.err # NoError THEN found
                   ELSE [id \in DOMAIN found \cup {s.got[1]} |->
                           IF id = s.got[1] THEN s.got[3] ELSE found[id]])

Placeholder(i) == "fn#" \o ToString(i)

Loaded(err, m) == [err |-> err, module |-> m]
Refused(err) == Loaded(err, with_types(<<>>, <<>>))

\* The sections are decoded in this order, and the first error is the answer.
DecodeSections(found, version, natives) ==
  LET Or(id, Decode(_)) ==   \* an absent section is an empty one
        IF id \in DOMAIN found THEN Decode(found[id]) ELSE [Reader(<<>>) EXCEPT !.got = <<<<>>>>]
      Value(r) == IF r.err = NoError THEN Last(r.got) ELSE <<>>
      pool == Or(CONSTANTS_, decode_pool)
      types == Or(TYPES, LAMBDA p : decode_types(p, Value(pool), version))
      bodies == Or(FUNCTIONS, LAMBDA p : decode_functions(p, Value(pool), natives))
      symbols == Or(SYMBOLS, decode_symbols)
      enums == Or(ENUMS, LAMBDA p : decode_enums(p, Value(pool)))
      rows == Or(DISPATCH, LAMBDA p : decode_dispatch(p, Value(pool)))
      globals == Or(GLOBALS, LAMBDA p : read_uvarint(Reader(p)))
      entry == Or(ENTRY, decode_entry)
      bad == SelectSeq(<<pool, types, bodies, symbols, enums, rows, globals, entry>>,
                       LAMBDA r : r.err # NoError)
      named == [i \in DOMAIN Value(bodies) |->
                  [Value(bodies)[i] EXCEPT !.name =
                     IF i \in DOMAIN Value(symbols) THEN Value(symbols)[i] ELSE Placeholder(i - 1)]]
      tables == [with_types(named, Value(types)) EXCEPT
                   !.enums = Value(enums),
                   !.global_count = IF GLOBALS \in DOMAIN found THEN As(U32, Value(globals)) ELSE @,
                   !.entry = IF ENTRY \in DOMAIN found THEN decode_opt_index(entry.got[1]) ELSE @,
                   !.init = IF ENTRY \in DOMAIN found THEN decode_opt_index(entry.got[2]) ELSE @]
  IN IF bad # <<>> THEN Refused(bad[1].err)
     ELSE Loaded(NoError, set_dispatch(tables, Value(rows)))

decode_module(bytes, natives) ==
  LET magic == read_raw(Reader(bytes), Len(MAGIC))
      header == read_u32_le(magic)
      version == Last(header.got)
      sections == Payloads([header EXCEPT !.got = <<>>], <<>>)
  IN IF magic.err = NoError /\ magic.got[1] # MAGIC THEN Refused("BadMagic")
     ELSE IF header.err # NoError THEN Refused(header.err)
     ELSE IF version \notin SUPPORTED_VERSIONS THEN Refused("UnsupportedVersion")
     ELSE IF sections.err # NoError THEN Refused(sections.err)
     ELSE DecodeSections(sections.got, version, natives)
=============================================================================
