------------------------------ MODULE Sockets ------------------------------
(***************************************************************************)
(* Sockets (src/runtime/src/interp/natives.rs, the socket natives, as      *)
(* src/sdk/std/net/net.thera calls them): the registry of open sockets,    *)
(* and natives that try their system call, park on the handle's readiness  *)
(* when it would block, and run again when they are woken.                 *)
(*                                                                         *)
(* What Scheduler shows of the driver is taken over here: an event of a    *)
(* handle wakes every fiber parked on it (Poll).                           *)
(*                                                                         *)
(* The kernel is external.  A connection has two ends, each with a bounded *)
(* receive buffer; readiness is edge-triggered.  Both ends belong to this  *)
(* program, as in its own tests and in a server that calls itself.  What a *)
(* buffer holds are cells: a byte, or part of a TLS record (see Tls).      *)
(* Bytes are numbered, per direction, in the order they are written.       *)
(***************************************************************************)
EXTENDS Naturals, Sequences, FiniteSets

CONSTANTS
  Fibers,
  SOCK_BUF,    \* the cells a socket's receive buffer holds
  MaxBytes,    \* more than the bytes a direction may carry
  WriteSizes,  \* the lengths given to write (an empty write returns at once)
  ReadSizes,   \* the limits given to read
  Programs,    \* what a program does (see MayUse), whether its client may trust the
               \* server's certificate, and bounds: how far each side calls write,
               \* the connections, the handles, the fibers in natives
  NoFiber

ASSUME SocketsAssumption ==
  /\ SOCK_BUF \in Nat \ {0}
  /\ MaxBytes \in Nat /\ WriteSizes \subseteq Nat \ {0} /\ ReadSizes \subseteq Nat
  /\ \A p \in Programs : /\ p.does \in {"accept", "plain", "tls"}
                          /\ p.trusts \subseteq BOOLEAN
                          /\ p.writes \in [{"client", "server"} -> 0 .. MaxBytes]
                          /\ p.conns \subseteq Nat \ {0} /\ p.handles \in Nat /\ p.fibers \in Nat
  /\ NoFiber \notin Fibers

Conns == UNION {p.conns : p \in Programs}
Ends == Conns \X {"client", "server"}
NoEnd == <<0, "none">>

Peer(e) == <<e[1], IF e[2] = "client" THEN "server" ELSE "client">>

VARIABLES
  program,         \* this program, chosen once
  sockets,         \* SOCKETS: the open handles, and what each names
  NEXT_SOCKET_ID,
  call,            \* the native each fiber is inside
  turn,            \* the fiber inside a native that takes several steps
  ready,           \* the handles with an event in the poller
  conn,            \* kernel: the state of each connection
  backlog,         \* kernel: the connections waiting to be accepted
  up,              \* kernel: the ends that are open
  rx,              \* kernel: what each end has received and not read
  reset,           \* kernel: the ends with a pending error
  sent,            \* how many bytes each end's writers were told are written
  got,             \* what each end's readers were given
  eof              \* the ends whose reader was told the stream has ended

Handles == 1 .. program.handles

regVars == <<sockets, NEXT_SOCKET_ID>>
fiberVars == <<call, turn>>
kernelVars == <<ready, conn, backlog, up, rx, reset>>
seenVars == <<sent, got, eof>>
socketVars == <<program, regVars, fiberVars, kernelVars, seenVars>>

Idle == [op |-> "none", h |-> 0, n |-> 0, at |-> "idle"]
Native(op, h, n) == [op |-> op, h |-> h, n |-> n, at |-> "woken"]

Listener == [kind |-> "listener", end |-> NoEnd]
Stream(e) == [kind |-> "stream", end |-> e]

\* A program that speaks TLS starts here with a connection made and accepted
\* (handles 2 and 3; the listener, 1, closed again).
SocketsInit ==
  /\ program \in Programs
  /\ LET tls == program.does = "tls" IN
       /\ sockets = IF tls THEN [h \in {2, 3} |->
                                   Stream(<<1, IF h = 2 THEN "client" ELSE "server">>)]
                           ELSE [h \in {} |-> Listener]
       /\ NEXT_SOCKET_ID = IF tls THEN 4 ELSE 1
       /\ conn = [c \in Conns |-> IF tls /\ c = 1 THEN "open" ELSE "free"]
       /\ up = IF tls THEN {e \in Ends : e[1] = 1} ELSE {}
  /\ call = [f \in Fibers |-> Idle] /\ turn = NoFiber
  /\ ready = {} /\ backlog = <<>>
  /\ rx = [e \in Ends |-> <<>>] /\ reset = {}
  /\ sent = [e \in Ends |-> 0] /\ got = [e \in Ends |-> <<>>] /\ eof = {}

-----------------------------------------------------------------------------
(* The kernel's side of a socket.                                          *)

Byte(b) == [t |-> "plain", d |-> b, last |-> TRUE]
Bytes(from, n) == [i \in 1 .. n |-> Byte(from + i)]

\* The bytes of user data among cells; a plain reader of records gets none.
IsData(cell) == cell.t \in {"plain", "data"} /\ cell.last
Payload(cells) == LET d == SelectSeq(cells, IsData) IN [i \in DOMAIN d |-> d[i].d]

HandlesOf(e) == {h \in DOMAIN sockets : sockets[h].end = e}
Listeners == {h \in DOMAIN sockets : sockets[h].kind = "listener"}

Room(e) == SOCK_BUF - Len(rx[Peer(e)])
Broken(e) == e \in reset \/ Peer(e) \notin up
AtEof(e) == rx[e] = <<>> /\ Broken(e)

\* A write of cells that fits reaches the peer and makes it readable.
Send(e, cells) ==
  /\ rx' = [rx EXCEPT ![Peer(e)] = @ \o cells]
  /\ ready' = ready \cup HandlesOf(Peer(e))

\* A read of n cells makes the peer writable if it found the buffer full.
Receive(e, n) ==
  /\ rx' = [rx EXCEPT ![e] = SubSeq(@, n + 1, Len(@))]
  /\ ready' = ready \cup (IF Len(rx[e]) = SOCK_BUF THEN HandlesOf(Peer(e)) ELSE {})

\* A connect in progress reaches the listener, or finds none.
ConnectLands(c) ==
  /\ turn = NoFiber /\ conn[c] = "connecting"
  /\ IF Listeners # {}
     THEN /\ conn' = [conn EXCEPT ![c] = "queued"]
          /\ backlog' = Append(backlog, c)
          /\ up' = up \cup {<<c, "server">>}
          /\ UNCHANGED reset
     ELSE /\ conn' = [conn EXCEPT ![c] = "refused"]
          /\ reset' = reset \cup {<<c, "client">>}
          /\ UNCHANGED <<backlog, up>>
  /\ ready' = ready \cup HandlesOf(<<c, "client">>) \cup Listeners
  /\ UNCHANGED <<program, regVars, fiberVars, rx, seenVars>>

\* A fiber parked on h, once h has been woken.
Woken(g, h) ==
  IF call[g].h = h /\ call[g].at = "parked" THEN [call[g] EXCEPT !.at = "woken"] ELSE call[g]

\* mio's poll and the driver's wake_poll_waiters.
Poll(h) ==
  /\ turn = NoFiber /\ h \in ready
  /\ ready' = ready \ {h}
  /\ call' = [g \in Fibers |-> Woken(g, h)]
  /\ UNCHANGED <<program, regVars, turn, conn, backlog, up, rx, reset, seenVars>>

-----------------------------------------------------------------------------
(* How a native runs: called by an idle fiber, or again after a wake.      *)

Runs(f, c) ==
  /\ turn = NoFiber /\ call[f] \in {Idle, c}
  /\ Cardinality({g \in Fibers \ {f} : call[g] # Idle}) < program.fibers
Returns(f) == call' = [call EXCEPT ![f] = Idle]

\* park_ready: the native runs again when the handle is woken.
Parks(f, c) == call' = [call EXCEPT ![f] = [c EXCEPT !.at = "parked"]]

\* The kinds with_socket may find; a closed handle or a wrong kind is an error.
Is(h, kind) == h \in DOMAIN sockets /\ sockets[h].kind = kind
End(h) == sockets[h].end

Fails(f) == Returns(f) /\ UNCHANGED <<program, regVars, turn, kernelVars, seenVars>>
Blocks(f, c) == Parks(f, c) /\ UNCHANGED <<program, regVars, turn, kernelVars, seenVars>>

FreshId == NEXT_SOCKET_ID <= program.handles /\ NEXT_SOCKET_ID' = NEXT_SOCKET_ID + 1

\* register_socket: a fresh handle, known to the poller.  Events that are due
\* are reported at once.
Register(sock, due) ==
  /\ FreshId
  /\ sockets' = [h \in DOMAIN sockets \cup {NEXT_SOCKET_ID} |->
                   IF h = NEXT_SOCKET_ID THEN sock ELSE sockets[h]]
  /\ ready' = ready \cup (IF due THEN {NEXT_SOCKET_ID} ELSE {})

\* The poller refuses the socket: its number is spent, and nothing is filed.
RegisterFails == FreshId /\ UNCHANGED sockets

\* The end e stops: its peer sees the end of the stream, or a reset if e had
\* not read everything.
Stopped(e) ==
  /\ up' = up \ {e}
  /\ rx' = [rx EXCEPT ![e] = <<>>]
  /\ reset' = (reset \ {e}) \cup (IF rx[e] # <<>> THEN {Peer(e)} ELSE {})

\* The listener stops: what it had not accepted is reset.
Unlistened ==
  LET clients == {<<backlog[i], "client">> : i \in DOMAIN backlog} IN
  /\ backlog' = <<>>
  /\ up' = up \ {Peer(e) : e \in clients}
  /\ reset' = reset \cup clients
  /\ UNCHANGED rx

NewlyReadable(h) ==
  IF sockets[h].kind = "listener"
  THEN UNION {HandlesOf(<<backlog[i], "client">>) : i \in DOMAIN backlog}
  ELSE HandlesOf(Peer(End(h)))

CloseEntry_NoWake(f, h) ==
  /\ sockets' = [g \in DOMAIN sockets \ {h} |-> sockets[g]]
  /\ ready' = (ready \cup NewlyReadable(h)) \ {h}
  /\ IF sockets[h].kind = "listener" THEN Unlistened
     ELSE Stopped(End(h)) /\ UNCHANGED backlog
  /\ Returns(f)
  /\ UNCHANGED <<program, NEXT_SOCKET_ID, conn, sent, got>>

\* close_socket_entry: forget the handle, close the descriptor, and wake the
\* fibers parked on it, which the poller no longer will.
CloseEntry(f, h) ==
  /\ sockets' = [g \in DOMAIN sockets \ {h} |-> sockets[g]]
  /\ ready' = (ready \cup NewlyReadable(h)) \ {h}
  /\ IF sockets[h].kind = "listener" THEN Unlistened
     ELSE Stopped(End(h)) /\ UNCHANGED backlog
  /\ call' = [g \in Fibers |-> IF g = f THEN Idle ELSE Woken(g, h)]
  /\ UNCHANGED <<program, NEXT_SOCKET_ID, conn, sent, got>>

-----------------------------------------------------------------------------
(* The natives.                                                            *)

\* One address: binding it twice is an error, which changes nothing.
SocketListen(f) ==
  /\ Runs(f, Idle) /\ program.does # "tls" /\ Listeners = {}
  /\ Register(Listener, FALSE) \/ (RegisterFails /\ UNCHANGED ready)
  /\ UNCHANGED <<program, fiberVars, conn, backlog, up, rx, reset, seenVars>>

\* accept(2) may fail and leave the connection queued.  An accepted stream that
\* cannot be registered is dropped, and its peer sees the end of the stream.
SocketAccept(f, h) ==
  LET c == Native("accept", h, 0) e == <<Head(backlog), "server">> IN
  /\ Runs(f, c)
  /\ \/ call[f] = c /\ Fails(f)
     \/ Is(h, "listener") /\ backlog = <<>> /\ Blocks(f, c)
     \/ /\ Is(h, "listener") /\ backlog # <<>>
        /\ backlog' = Tail(backlog)
        /\ conn' = [conn EXCEPT ![e[1]] = "open"]
        /\ \/ Register(Stream(e), TRUE) /\ UNCHANGED <<up, rx, reset>>
           \/ RegisterFails /\ Stopped(e) /\ ready' = ready \cup HandlesOf(Peer(e))
        /\ Returns(f)
        /\ UNCHANGED <<program, turn, seenVars>>

\* net.connect_addr: start the connect, then wait for it with connect_finish.  A
\* stream that cannot be registered is dropped with its connect under way.
SocketConnect(f, c) ==
  /\ Runs(f, Idle) /\ program.does # "tls" /\ conn[c] = "free"
  /\ conn' = [conn EXCEPT ![c] = "connecting"]
  /\ \/ /\ Register(Stream(<<c, "client">>), FALSE)
        /\ up' = up \cup {<<c, "client">>}
        /\ call' = [call EXCEPT ![f] = Native("connect_finish", NEXT_SOCKET_ID, 0)]
     \/ RegisterFails /\ UNCHANGED <<ready, up, call>>
  /\ UNCHANGED <<program, turn, backlog, rx, reset, seenVars>>

\* A failed connect is reported by take_error, and connect_addr closes.
SocketConnectFinish(f) ==
  LET c == call[f] h == call[f].h IN
  /\ turn = NoFiber /\ c.op = "connect_finish" /\ c.at = "woken"
  /\ IF End(h) \in reset THEN CloseEntry(f, h) /\ UNCHANGED <<turn, eof>>
     ELSE IF conn[End(h)[1]] = "connecting" THEN Blocks(f, c)
     ELSE Fails(f)

\* An "accept" program makes connections and uses none.
MayUse == program.does # "accept"
MayWrite(f, h, n) ==
  /\ MayUse
  /\ call[f] = Idle /\ h \in DOMAIN sockets /\ End(h) # NoEnd =>
       sent[End(h)] + n <= program.writes[End(h)[2]]

Connecting(h) == \E g \in Fibers : call[g].op = "connect_finish" /\ call[g].h = h

TakesPlain_AnyKind(h) == Is(h, "stream") \/ Is(h, "tls")

\* The plain read and write refuse a listener and a stream with a session.
TakesPlain(h) == Is(h, "stream")

\* A read of nothing returns before the handle is looked at.
SocketRead(f, h, max) ==
  LET c == Native("read", h, max) IN
  /\ Runs(f, c) /\ MayUse /\ ~Connecting(h)
  /\ IF max = 0 THEN Fails(f)
     ELSE IF ~TakesPlain(h) THEN call[f] = c /\ Fails(f)
     ELSE LET e == End(h)
              n == IF Len(rx[e]) < max THEN Len(rx[e]) ELSE max IN
          IF n > 0
          THEN /\ Receive(e, n)
               /\ got' = [got EXCEPT ![e] = @ \o Payload(SubSeq(rx[e], 1, n))]
               /\ Returns(f)
               /\ UNCHANGED <<program, regVars, turn, conn, backlog, up, reset, sent, eof>>
          ELSE IF e \in reset
          THEN /\ reset' = reset \ {e} /\ Returns(f)
               /\ UNCHANGED <<program, regVars, turn, ready, conn, backlog, up, rx, seenVars>>
          ELSE IF AtEof(e)
          THEN /\ eof' = eof \cup {e} /\ Returns(f)
               /\ UNCHANGED <<program, regVars, turn, kernelVars, sent, got>>
          ELSE Blocks(f, c)

\* What a write of n bytes achieves on an end that has stopped listening: an
\* error, or, the first time, nothing at all and an error later.
WriteBroken(f, e, n) ==
  \/ /\ reset' = reset \ {e}
     /\ UNCHANGED <<sent, ready>>
  \/ /\ e \notin reset
     /\ reset' = reset \cup {e} /\ sent' = [sent EXCEPT ![e] = @ + n]
     /\ ready' = ready \cup HandlesOf(e)

\* A count is returned, and io.write_all goes on from there.
SocketWrite(f, h, n) ==
  LET c == Native("write", h, n) IN
  /\ Runs(f, c) /\ MayWrite(f, h, n) /\ ~Connecting(h)
  /\ IF ~TakesPlain(h) THEN call[f] = c /\ Fails(f)
     ELSE LET e == End(h)
              k == IF Room(e) < n THEN Room(e) ELSE n IN
          IF Broken(e)
          THEN /\ WriteBroken(f, e, n) /\ Returns(f)
               /\ UNCHANGED <<program, regVars, turn, conn, backlog, up, rx, got, eof>>
          ELSE IF k = 0 THEN Blocks(f, c)
          ELSE /\ Send(e, Bytes(sent[e], k))
               /\ sent' = [sent EXCEPT ![e] = @ + k]
               /\ Returns(f)
               /\ UNCHANGED <<program, regVars, turn, conn, backlog, up, reset, got, eof>>

SocketClose(f, h) ==
  /\ Runs(f, Idle) /\ h \in DOMAIN sockets /\ ~Connecting(h)
  /\ CloseEntry(f, h)
  /\ UNCHANGED <<turn, eof>>
=============================================================================
