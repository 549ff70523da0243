----------------------------- MODULE MCBytecode -----------------------------
(* Instances of Bytecode. Each job explores one side of it.                 *)
EXTENDS Bytecode

Instr(op, args) == [op |-> op, args |-> args]

Names ==
  [s \in {"", "main", "<init>", "f", "Point", "x", "eq", "print", "sleep"} |->
     CASE s = "" -> <<>>
       [] s = "main" -> <<109, 110>>
       [] s = "<init>" -> <<60>>
       [] s = "f" -> <<102>>
       [] s = "Point" -> <<80, 116>>
       [] s = "x" -> <<120>>
       [] s = "eq" -> <<101, 113>>
       [] s = "print" -> <<112>>
       [] s = "sleep" -> <<195, 169>>]

ThisRuntime == <<"print", "sleep">>
LaterRuntime == <<"eq", "sleep", "print">>
SmallRuntime == <<"print">>

Fn(name, params) == [name |-> name, param_count |-> params]

NoTables == [types |-> <<>>, enums |-> <<>>, dispatch |-> <<>>, globals |-> 0,
             entry |-> NoIndex, init |-> NoIndex]

\* Labels bound before and after their jumps, several jumps to one, slots below
\* and above the parameters.
Assemble ==
  [functions |-> <<Fn("f", 1)>>, calls |-> 5, labels |-> 2,
   instrs |-> {Instr("Pop", <<>>)}, slots |-> {0, 2}, jumps |-> {"Jump", "JumpIfFalse"},
   tables |-> {NoTables}, writers |-> {}, tears |-> FALSE,
   natives |-> {ThisRuntime}, entries |-> {Default}]

\* Longer listings of nothing but labels and jumps, which may cross.
Cross == [Assemble EXCEPT !.calls = 7, !.instrs = {}, !.slots = {}]

\* Every instruction, with its operands at both ends of their widths and at the
\* edges of a varint's groups, in code made by hand.
Edge(bits) == {n \in {0, 1, 127, 128, 255, 2^bits - 1} : n < 2^bits}
Ints == {s * n + d : s \in {-1, 1}, n \in {0, 63, 64, 127, 128, 8191, 8192, 16382}, d \in {-1, 0, 1}}
        \cup {-16384}
OneOperand ==
  {Instr("ConstInt", <<n>>) : n \in Ints}
  \cup {Instr("ConstDouble", <<x>>) : x \in {<<0, 0, 0, 0, 0, 0, 0, 0>>, <<63, 240, 0, 0, 0, 0, 0, 1>>}}
  \cup {Instr("ConstBool", <<b>>) : b \in BOOLEAN}
  \cup {Instr("ConstStr", <<s>>) : s \in {"", "x"}}
  \cup {Instr(op, <<n>>) : op \in {"Load", "Store", "EnumGet", "FieldGet", "FieldSet"}, n \in Edge(U16)}
  \cup {Instr(op, <<n>>) : op \in {"GlobalGet", "GlobalSet", "StructNew", "ListNew"}, n \in Edge(U32)}
  \cup {Instr(op, <<n>>) : op \in Jumps, n \in Edge(U64)}
  \cup {Instr("CallIndirect", <<n>>) : n \in Edge(8)}
MoreOperands ==
  {Instr(op, <<n, k>>) : op \in {"Call", "ClosureNew"}, n \in Edge(U32), k \in Edge(8)}
  \cup {Instr("CallNative", <<n, k>>) : n \in {0, 1, 2}, k \in Edge(8)}
  \cup {Instr("CallVirtual", <<"eq", k>>) : k \in Edge(8)}
  \cup {Instr("EnumNew", <<n, t, k>>) : n \in Edge(U32), t \in Edge(U16), k \in Edge(8)}
Plain == {Instr(Opcodes[t], <<>>) : t \in {k \in DOMAIN Opcodes : Written(Opcodes[k]) = <<>>}}

Operands ==
  [functions |-> <<Fn("main", 1)>>, calls |-> 1, labels |-> 0,
   instrs |-> OneOperand \cup MoreOperands \cup Plain, slots |-> {}, jumps |-> {},
   tables |-> {NoTables}, writers |-> {"v2", "stripped"}, tears |-> FALSE,
   natives |-> {ThisRuntime, LaterRuntime, SmallRuntime}, entries |-> {Default}]

\* Every table, empty and not; two rows for one type and selector.
Tables ==
  {[types |-> types, enums |-> enums, dispatch |-> rows, globals |-> globals,
    entry |-> NoIndex, init |-> NoIndex] :
     types \in {<<TypeDef_new("Point", 2), TypeDef_named("f", <<"x", "eq">>)>>},
     enums \in {<<>>, <<EnumDef(3, "Point", <<"x", "print">>)>>},
     rows \in {<<>>, <<DispatchEntry(1, "x", 1), DispatchEntry(2^(U32 - 1), "eq", 2),
                       DispatchEntry(1, "eq", 0), DispatchEntry(1, "eq", 1)>>},
     globals \in {0, 2}}

Format ==
  [functions |-> <<Fn("<init>", 0), Fn("main", 1), Fn("f", 2)>>, calls |-> 1, labels |-> 0,
   instrs |-> {Instr("StructNew", <<1>>), Instr("Call", <<2, 2>>)}, slots |-> {}, jumps |-> {},
   tables |-> {NoTables} \cup Tables \cup {[t EXCEPT !.entry = 1, !.init = 0] : t \in Tables},
   writers |-> Writers \ {"this"}, tears |-> TRUE,
   natives |-> {ThisRuntime}, entries |-> {Default, "f", "main"}]

\* A library has no main; a program may have one that takes too much.
Library ==
  [Format EXCEPT !.functions = <<Fn("f", 0), Fn("f", 1)>>, !.tears = FALSE,
                 !.tables = {NoTables, [NoTables EXCEPT !.entry = 1]}]
WideMain == [Library EXCEPT !.functions = <<Fn("main", 2)>>, !.tables = {NoTables}]

AllJobs == {Assemble, Cross, Operands, Format, Library, WideMain}
TornJobs == {Format}
LastSlot == {[Assemble EXCEPT !.slots = {MaxU16}, !.calls = 1]}
=============================================================================
