------------------------------ MODULE Bytecode ------------------------------
(* A program from the assembler to its start: functions are built, linked   *)
(* into a module, written to a .thera-bc file, loaded, perhaps by another   *)
(* runtime, and started (src/runtime/src/codec.rs and main.rs).             *)
(*                                                                          *)
(* The file is written in place, so a crash leaves a part of it. Files come *)
(* from other writers too: an older format, a build without names, a newer  *)
(* runtime with a section this one does not know.                           *)
EXTENDS FnBuilder, Codec

CONSTANT Natives   \* the native table of the runtime that writes

VARIABLES
  module, file, loaded, boot,
  asked,     \* the entry asked for
  saved,     \* who wrote file, and whether all of it
  natives    \* the native table of the runtime that loads

codeVars == <<module, file, loaded, boot, asked, saved, natives>>
vars == <<builderVars, codeVars>>

Writers == {"this", "v2", "stripped", "newer", "reordered"}
Default == "default entry"
Started(status, entry, args, init) == [status |-> status, entry |-> entry, args |-> args, init |-> init]
Stopped(status) == Started(status, NoIndex, 0, NoIndex)

Init ==
  /\ BuilderInit
  /\ module = with_types(<<>>, <<>>)
  /\ file = <<>>
  /\ loaded = Refused("not loaded")
  /\ boot = Stopped("not started") /\ asked = Default
  /\ saved = [writer |-> "none", whole |-> FALSE]
  /\ natives = <<>>

-----------------------------------------------------------------------------
Goes(from, to) == doing = from /\ doing' = to /\ UNCHANGED <<job, fn, functions, calls, listings>>

Build == BuilderNext /\ UNCHANGED codeVars

\* The rest of the module is put in place around the functions.
Link(t) ==
  /\ Goes("link", "save")
  /\ module' = set_dispatch([with_types(functions, t.types) EXCEPT
                               !.enums = t.enums, !.global_count = t.globals,
                               !.entry = t.entry, !.init = t.init], t.dispatch)
  /\ UNCHANGED <<file, loaded, boot, asked, saved, natives>>

\* The Types section without names, as v2 had it.
V2Sections(m) ==
  LET old == [m EXCEPT !.enums = <<>>,
                       !.types = [i \in DOMAIN m.types |->
                                    TypeDef_new(m.types[i].name, m.types[i].field_count)]]
      pool == PoolOf(old, Natives)
      Row(t) == write_uvarint(PoolIndex(pool, t.name)) \o write_uvarint(t.field_count)
  IN [s \in DOMAIN Sections(old, Natives) |->
        IF Sections(old, Natives)[s].id = TYPES
        THEN [id |-> TYPES, payload |-> Table(old.types, Row)]
        ELSE Sections(old, Natives)[s]]

\* Files that other writers make of the same module.
OtherFile(w, m) ==
  LET s == Sections(m, Natives)
  IN CASE w = "v2" -> FileOf(2, V2Sections(m))
       [] w = "stripped" -> FileOf(VERSION, SelectSeq(s, LAMBDA x : x.id # SYMBOLS))
       [] w = "newer" -> FileOf(VERSION, Section(ENUMS + 1, <<7, 7>>) \o s)
       [] w = "reordered" -> FileOf(VERSION, Reverse(s))

\* std::fs::write truncates the file and fills it; a crash leaves a prefix.
write_module_to_file ==
  /\ Goes("save", "load") /\ Encodable(module, Natives)
  /\ LET bytes == encode_module(module, Natives)
     IN \E n \in (IF job.tears THEN 0..Len(bytes) ELSE {Len(bytes)}) :
          /\ file' = SubSeq(bytes, 1, n)
          /\ saved' = [writer |-> "this", whole |-> n = Len(bytes)]
  /\ UNCHANGED <<module, loaded, boot, asked, natives>>

WritePanics == Goes("save", "panic") /\ ~Encodable(module, Natives) /\ UNCHANGED codeVars

OtherWriter(w) ==
  /\ Goes("save", "load") /\ Encodable(module, Natives)
  /\ file' = OtherFile(w, module)
  /\ saved' = [writer |-> w, whole |-> TRUE]
  /\ UNCHANGED <<module, loaded, boot, asked, natives>>

read_module_from_file(table) ==
  /\ Goes("load", "start")
  /\ natives' = table
  /\ loaded' = decode_module(file, table)
  /\ UNCHANGED <<module, file, boot, asked, saved>>

\* cmd_run: an entry that is named is found by name, main by the Entry section.
\* It takes the program's arguments or none; the globals are initialised first.
cmd_run(result, name) ==
  LET m == result.module
      entry == IF name = Default THEN entry_index(m) ELSE function_index(m, name)
  IN IF result.err # NoError THEN Stopped("cannot load")
     ELSE IF entry = NoIndex THEN Stopped("no entry")
     ELSE IF entry >= Len(m.functions) THEN Stopped("panic")
     ELSE LET params == m.functions[entry + 1].param_count
          IN IF params > 1 THEN Stopped("arity")
             ELSE Started("run", entry, params, init_index(m))

Start(name) ==
  /\ Goes("start", "end")
  /\ boot' = cmd_run(loaded, name) /\ asked' = name
  /\ UNCHANGED <<module, file, loaded, saved, natives>>

Next ==
  \/ Build
  \/ \E t \in job.tables : Link(t)
  \/ write_module_to_file \/ WritePanics
  \/ \E w \in job.writers : OtherWriter(w)
  \/ \E table \in job.natives : read_module_from_file(table)
  \/ \E name \in job.entries : Start(name)

Spec == Init /\ [][Next]_vars

-----------------------------------------------------------------------------
TypeOK ==
  /\ doing \in {"build", "panic", "link", "save", "load", "start", "end"}
  /\ fn.local_count \in fn.param_count..MaxU16
  /\ \A k \in DOMAIN fn.fixups : fn.fixups[k].at \in DOMAIN fn.code
  /\ \A k \in DOMAIN file : file[k] \in 0..255
  /\ saved.writer \in Writers \cup {"none"}
  /\ boot.status \in {"not started", "cannot load", "no entry", "panic", "arity", "run"}

HasLoaded == doing \in {"start", "end"}

\* What is left of a module of which only some sections are there, in a given
\* format, for a runtime with other native numbers.
Seen(m, ids, version, table) ==
  LET Only(id, rows) == IF id \in ids THEN rows ELSE <<>>
      Bare(t) == IF version < 3 THEN TypeDef_new(t.name, t.field_count) ELSE t
      Native(i) == IF i.op = "CallNative"
                   THEN [i EXCEPT !.args[1] = native_index(table, native_name(Natives, @))]
                   ELSE i
      Body(f, i) == [f EXCEPT !.name = IF SYMBOLS \in ids THEN @ ELSE Placeholder(i),
                              !.code = [k \in DOMAIN f.code |-> Native(f.code[k])]]
  IN set_dispatch(
       [m EXCEPT !.functions = Only(FUNCTIONS, [i \in DOMAIN @ |-> Body(@[i], i - 1)]),
                 !.types = Only(TYPES, [i \in DOMAIN @ |-> Bare(@[i])]),
                 !.enums = IF version < 3 THEN <<>> ELSE Only(ENUMS, @),
                 !.global_count = IF GLOBALS \in ids THEN @ ELSE 0,
                 !.entry = IF ENTRY \in ids THEN entry_index(m) ELSE NoIndex,
                 !.init = IF ENTRY \in ids THEN init_index(m) ELSE NoIndex],
       Only(DISPATCH, m.dispatch))

IdsOf(sections) == {sections[k].id : k \in DOMAIN sections}

Unprovided(m, table) ==
  \E f \in DOMAIN m.functions : \E k \in DOMAIN m.functions[f].code :
    LET i == m.functions[f].code[k]
    IN i.op = "CallNative" /\ native_index(table, native_name(Natives, i.args[1])) = NoIndex

\* decode_module(encode_module(m)) is m with its entry points filled in, for
\* every instruction and operand at the edges of its width; "Accepting both keeps
\* v2 .thera-bc loadable" without the names (codec.rs:67), a file without symbols
\* gets placeholders, an unknown section and another order change nothing, and a
\* native is the one of that name or the file is refused.
LoadsWhatWasSaved ==
  HasLoaded /\ saved.whole =>
    IF Unprovided(module, natives) THEN loaded = Refused("UnknownNative")
    ELSE loaded = Loaded(NoError,
                    Seen(module,
                         1..8 \ (IF saved.writer = "stripped" THEN {SYMBOLS} ELSE {}),
                         IF saved.writer = "v2" THEN 2 ELSE VERSION, natives))

\* A file that a crash cut short is refused, or it is cut between two sections
\* and every table is there as it was written or not at all, the ones written
\* first being there.
TornIsPrefix ==
  HasLoaded /\ ~saved.whole /\ ~Unprovided(module, natives) =>
    \/ loaded = Refused("UnexpectedEof")
    \/ \E k \in 0..Len(Sections(module, Natives)) :
         loaded = Loaded(NoError, Seen(module, IdsOf(SubSeq(Sections(module, Natives), 1, k)),
                                       VERSION, natives))

\* Sections are written after the ones their indices point into: whatever is left
\* of a file, no entry, dispatch row, call, closure or constructor that was
\* loaded refers to a function or a type that was not.  "First match wins, as in
\* the table itself" (module.rs:253): the dispatch index built on loading answers
\* as a scan of the whole table would.
IndicesResolve ==
  HasLoaded =>
    LET m == loaded.module
        funcs == 0..Len(m.functions) - 1
    IN /\ {m.entry, m.init} \subseteq funcs \cup {NoIndex}
       /\ \A k \in DOMAIN m.dispatch :
            LET row == m.dispatch[k]
                first == FirstWith(m.dispatch, LAMBDA r : r.ty = row.ty /\ r.selector = row.selector)
            IN /\ row.func \in funcs
               /\ dispatch_target(m, row.ty, row.selector) = m.dispatch[first + 1].func
       /\ \A f \in DOMAIN m.functions : \A k \in DOMAIN m.functions[f].code :
            LET i == m.functions[f].code[k]
            IN /\ i.op \in {"Call", "ClosureNew"} /\ i.args[1] < Len(module.functions)
                    => i.args[1] \in funcs
               /\ i.op = "StructNew" /\ i.args[1] < Len(module.types)
                    => i.args[1] < Len(m.types)

\* Entry "lets the runtime find the entry without function names" (codec.rs:82):
\* what runs is what the program that was linked would run, with the same
\* arguments, from whichever file it was loaded, and if the whole file is there
\* it does run. A part of a file may fail to start, never start elsewhere.
StartsTheEntry ==
  doing = "end" /\ asked = Default =>
    LET meant == cmd_run(Loaded(NoError, module), Default)
    IN /\ boot.status = "run" => boot.entry = meant.entry /\ boot.args = meant.args
       /\ saved.whole /\ loaded.err = NoError => boot = meant

\* A file that a crash cut short does not start: not so, the sections after
\* Symbols may be missing without a trace.
TornNeverStarts == boot.status = "run" => saved.whole
=============================================================================
