-------------------------------- MODULE Tls --------------------------------
(***************************************************************************)
(* TLS over a socket (src/runtime/src/interp/tls.rs and the TLS natives of *)
(* natives.rs, as net.thera calls them).  A session is put over a stream   *)
(* in place, under the same handle, and each native pumps records between  *)
(* the session and the socket until it is done or would block.  The steps  *)
(* of a pump are actions; the fiber in turn takes them without a break.    *)
(*                                                                         *)
(* The TLS library is external.  A record is two cells on the wire, so it  *)
(* can arrive in part; a data record carries one byte; each flight of the  *)
(* handshake is one record.                                                *)
(***************************************************************************)
EXTENDS Sockets, SequencesExt

CONSTANT
  OUT_CAP    \* the cells of ciphertext the library queues before it refuses more

ASSUME TlsAssumption == OUT_CAP \in Nat \ {0}

VARIABLES
  session,   \* the sessions of the ends that have one
  trusted,   \* does the client trust the server's certificate?
  usable,    \* the ends the program holds as a TlsStream
  final,     \* how many bytes each end had sent when it announced its end
  mixed      \* the connections on which plain bytes met records (see Met)

tlsVars == <<session, trusted, usable, final, mixed>>
vars == <<socketVars, tlsVars>>

NotFinal == MaxBytes

\* A session: the handshake record it waits for, the cells to be sent, whether it
\* has part of a record, the plaintext to be read, and how far it is closed.
NewSession(want, out) ==
  [want |-> want, out |-> out, part |-> FALSE, plain |-> <<>>, failed |-> FALSE,
   notified |-> FALSE, ended |-> FALSE, closing |-> FALSE]
NoSession == NewSession("none", <<>>)

Record(t, d) == <<[t |-> t, d |-> d, last |-> FALSE], [t |-> t, d |-> d, last |-> TRUE]>>

Init ==
  /\ SocketsInit
  /\ session = [e \in Ends |-> NoSession]
  /\ trusted \in program.trusts /\ usable = {}
  /\ final = [e \in Ends |-> NotFinal] /\ mixed = {}

-----------------------------------------------------------------------------
(* The library: what it does with the cells it is given.                   *)

is_handshaking(s) == s.want # "none"

\* process_new_packets: a record counts once all of it is there, in its place;
\* anything else is a protocol error.  After a failure, or the peer's
\* close_notify, the rest is ignored.
Absorb(s, cell) ==
  LET t == [s EXCEPT !.part = FALSE]
      Whole(type) == s.part /\ cell.last /\ cell.t = type IN
  CASE s.failed \/ s.notified -> s
    [] ~s.part /\ ~cell.last -> [s EXCEPT !.part = TRUE]
    [] Whole("data") /\ ~is_handshaking(s) -> [t EXCEPT !.plain = Append(@, cell.d)]
    [] Whole("close") -> [t EXCEPT !.notified = TRUE]
    [] Whole("hello") /\ s.want = "hello" ->
         [t EXCEPT !.want = "finished", !.out = @ \o Record("certificate", 0)]
    [] Whole("certificate") /\ s.want = "certificate" /\ trusted ->
         [t EXCEPT !.want = "none", !.out = @ \o Record("finished", 0)]
    [] Whole("finished") /\ s.want = "finished" -> [t EXCEPT !.want = "none"]
    [] OTHER -> [t EXCEPT !.failed = TRUE,
                          !.out = @ \o (IF cell.t = "alert" THEN <<>> ELSE Record("alert", 0))]

Fed(s, cells) == FoldLeft(Absorb, s, cells)

\* What the session's reader answers without WouldBlock: plaintext, or one of
\* the two ways a stream ends.
has_plaintext(s) == s.plain # <<>> \/ s.notified \/ s.ended

-----------------------------------------------------------------------------
(* Natives that put a session over a stream.                               *)

\* The session goes with the descriptor.
Dropped(h) == IF Is(h, "tls") THEN [session EXCEPT ![End(h)] = NoSession] ELSE session

Wrapped(h) == [sockets EXCEPT ![h].kind = "tls"]
First(e) == IF e[2] = "client" THEN NewSession("certificate", Record("hello", 0))
                               ELSE NewSession("hello", <<>>)

Overlaid(e) == \E h \in HandlesOf(e) : Is(h, "tls")

\* Records a plain stream has read, plain bytes it has sent to a session, and
\* plain bytes not read when a session was put over the stream.
Met ==
  {e[1] : e \in {d \in Ends :
     \/ ~Overlaid(d) /\ \E i \in 1 .. Len(rx[d]) - Len(rx'[d]) : rx[d][i].t # "plain"
     \/ ~Overlaid(Peer(d)) /\ Overlaid(d) /\ Len(rx'[d]) > Len(rx[d])}}
LeftPlain(e) == {c \in {e[1]} : \E i \in DOMAIN rx[e] : rx[e][i].t = "plain"}

\* tls_connect and tls_accept, then the handshake.  When the configuration is
\* refused, or the handle is not a plain stream, net.thera closes the handle.
TlsWrap(f, h) ==
  /\ Runs(f, Idle) /\ program.does = "tls" /\ h \in DOMAIN sockets
  /\ \/ /\ Is(h, "stream")
        /\ sockets' = Wrapped(h)
        /\ session' = [session EXCEPT ![End(h)] = First(End(h))]
        /\ call' = [call EXCEPT ![f] = Native("tls_handshake", h, 0)]
        /\ mixed' = mixed \cup LeftPlain(End(h))
        /\ UNCHANGED <<program, NEXT_SOCKET_ID, turn, kernelVars, seenVars, trusted, usable, final>>
     \/ /\ CloseEntry(f, h)
        /\ session' = Dropped(h)
        /\ UNCHANGED <<turn, eof, trusted, usable, final, mixed>>

-----------------------------------------------------------------------------
(* The pump.                                                               *)

\* A native with a session starts pumping; without one, with_tls is an error.
Starts(f, c, at) ==
  /\ Runs(f, c)
  /\ IF Is(c.h, "tls")
     THEN /\ call' = [call EXCEPT ![f] = [c EXCEPT !.at = at]] /\ turn' = f
          /\ UNCHANGED <<program, regVars, kernelVars, seenVars>>
     ELSE call[f] = c /\ Fails(f)

TlsHandshake(f) ==
  /\ call[f].op = "tls_handshake"
  /\ Starts(f, [call[f] EXCEPT !.at = "woken"], "drain")
  /\ UNCHANGED tlsVars

TlsRead(f, h, max) ==
  /\ h \in DOMAIN sockets => End(h) \in usable
  /\ IF max = 0 THEN Runs(f, Native("tls_read", h, max)) /\ Fails(f)
     ELSE Starts(f, Native("tls_read", h, max), "reader")
  /\ UNCHANGED tlsVars

TlsWrite(f, h, n) ==
  /\ h \in DOMAIN sockets => End(h) \in usable
  /\ MayWrite(f, h, n)
  /\ Starts(f, Native("tls_write", h, n), "drain")
  /\ UNCHANGED tlsVars

\* The first step of close: one close_notify per session.
TlsClose(f, h) ==
  /\ h \in DOMAIN sockets => End(h) \in usable
  /\ Starts(f, Native("tls_close", h, 0), "drain")
  /\ IF Is(h, "tls") /\ ~session[End(h)].closing
     THEN /\ session' = [session EXCEPT ![End(h)].closing = TRUE,
                                        ![End(h)].out = @ \o Record("close", 0)]
          /\ final' = [final EXCEPT ![End(h)] = sent[End(h)]]
          /\ UNCHANGED <<trusted, usable, mixed>>
     ELSE UNCHANGED tlsVars

\* The end of a pump: the native returns, parks, or goes on at another step.
Goes(f, at) ==
  /\ call' = [call EXCEPT ![f] = IF at = "done" THEN Idle ELSE [@ EXCEPT !.at = at]]
  /\ turn' = IF at \in {"done", "parked"} THEN NoFiber ELSE f
  /\ UNCHANGED <<program, regVars, conn, backlog, up>>

OnError_KeepsHandle(op) == IF op = "tls_close" THEN "drop" ELSE "done"

\* Where a failed native goes: after a failed handshake net.thera closes.
OnError(op) == IF op \in {"tls_handshake", "tls_close"} THEN "drop" ELSE "done"

OnDrained_Resend(f, s, empty) ==
  LET op == call[f].op IN
  CASE call[f].at = "flush" -> IF empty THEN "done" ELSE "parked"
    [] op = "tls_write" -> "feed"
    [] ~empty -> "parked"
    [] op = "tls_close" -> "drop"
    [] op = "tls_handshake" /\ ~is_handshaking(s) -> "done"
    [] OTHER -> "fill"

\* Where drain leads: the queue is empty, or the socket took no more.
OnDrained(f, s, empty) ==
  LET op == call[f].op IN
  CASE call[f].at = "flush" -> "done"
    [] op = "tls_write" -> "feed"
    [] ~empty -> "parked"
    [] op = "tls_close" -> "drop"
    [] op = "tls_handshake" /\ ~is_handshaking(s) -> "done"
    [] OTHER -> "fill"

\* A write returns how much the session took.
Told(e, taken) == [sent EXCEPT ![e] = @ + taken]

\* A handshake that is done leaves the program with a TlsStream.
Completed(f, to) ==
  usable \cup {e \in {End(call[f].h)} : call[f].op = "tls_handshake" /\ to = "done"}

\* drain, and in write also the flush after the feed.
PumpDrain(f) ==
  LET e == End(call[f].h) s == session[e] op == call[f].op
      k == IF Room(e) < Len(s.out) THEN Room(e) ELSE Len(s.out)
      rest == SubSeq(s.out, k + 1, Len(s.out))
      to == OnDrained(f, s, rest = <<>>)
  IN
  /\ turn = f /\ call[f].at \in {"drain", "flush"}
  /\ IF s.out # <<>> /\ Broken(e)
     THEN \/ /\ Goes(f, OnError(op))
             /\ reset' = reset \ {e}
             /\ UNCHANGED <<ready, rx, seenVars, tlsVars>>
          \/ /\ e \notin reset
             /\ Goes(f, OnDrained(f, s, TRUE))
             /\ reset' = reset \cup {e} /\ ready' = ready \cup HandlesOf(e)
             /\ session' = [session EXCEPT ![e].out = <<>>]
             /\ usable' = Completed(f, OnDrained(f, s, TRUE))
             /\ sent' = IF call[f].at = "flush" THEN Told(e, call[f].n) ELSE sent
             /\ UNCHANGED <<rx, got, eof, trusted, final, mixed>>
     ELSE /\ Goes(f, to)
          /\ IF k > 0 THEN Send(e, SubSeq(s.out, 1, k)) ELSE UNCHANGED <<rx, ready>>
          /\ session' = [session EXCEPT ![e].out = rest]
          /\ usable' = Completed(f, to)
          /\ sent' = IF op = "tls_write" /\ to = "done" THEN Told(e, call[f].n) ELSE sent
          /\ UNCHANGED <<reset, got, eof, trusted, final, mixed>>

OnFed_NoFlush(op) == IF op = "tls_read" THEN "reader" ELSE "fill"

\* Both loops begin again: a read looks for plaintext, a handshake sends its reply.
OnFed(op) == IF op = "tls_read" THEN "reader" ELSE "drain"

\* fill: what the socket has goes to the library, in part or whole.
PumpFill(f) ==
  LET e == End(call[f].h) s == session[e] op == call[f].op IN
  /\ turn = f /\ call[f].at = "fill"
  /\ \/ /\ rx[e] = <<>> /\ ~Broken(e)
        /\ Goes(f, "parked")
        /\ UNCHANGED <<ready, rx, reset, seenVars, tlsVars>>
     \/ /\ rx[e] = <<>> /\ e \in reset
        /\ Goes(f, OnError(op))
        /\ reset' = reset \ {e}
        /\ UNCHANGED <<ready, rx, seenVars, tlsVars>>
     \/ /\ AtEof(e) /\ e \notin reset
        /\ IF op = "tls_handshake"
           THEN Goes(f, "drop") /\ UNCHANGED session
           ELSE Goes(f, "reader") /\ session' = [session EXCEPT ![e].ended = TRUE]
        /\ UNCHANGED <<ready, rx, reset, seenVars, trusted, usable, final, mixed>>
     \/ \E n \in 1 .. Len(rx[e]) :
          LET t == Fed(s, SubSeq(rx[e], 1, n)) IN
          /\ Receive(e, n)
          /\ session' = [session EXCEPT ![e] = t]
          /\ Goes(f, IF t.failed THEN "alert" ELSE OnFed(op))
          /\ UNCHANGED <<reset, seenVars, trusted, usable, final, mixed>>

\* fill's error path: the alert is sent if the socket takes it.
PumpAlert(f) ==
  LET e == End(call[f].h) s == session[e]
      k == IF Room(e) < Len(s.out) THEN Room(e) ELSE Len(s.out) IN
  /\ turn = f /\ call[f].at = "alert"
  /\ Goes(f, OnError(call[f].op))
  /\ IF Broken(e) \/ k = 0 THEN UNCHANGED <<rx, ready, session>>
     ELSE /\ Send(e, SubSeq(s.out, 1, k))
          /\ session' = [session EXCEPT ![e].out = SubSeq(@, k + 1, Len(@))]
  /\ UNCHANGED <<reset, seenVars, trusted, usable, final, mixed>>

CleanEnd_AnyEof(s) == s.notified \/ s.ended

\* rustls grades an EOF: after a close_notify it is a clean one.
CleanEnd(s) == s.notified

\* The head of read's loop: plaintext, a clean end, a truncation, or go on.
PumpReader(f) ==
  LET e == End(call[f].h) s == session[e]
      n == IF Len(s.plain) < call[f].n THEN Len(s.plain) ELSE call[f].n IN
  /\ turn = f /\ call[f].at = "reader"
  /\ IF n > 0
     THEN /\ got' = [got EXCEPT ![e] = @ \o SubSeq(s.plain, 1, n)]
          /\ session' = [session EXCEPT ![e].plain = SubSeq(@, n + 1, Len(@))]
          /\ UNCHANGED eof
     ELSE /\ eof' = IF CleanEnd(s) THEN eof \cup {e} ELSE eof
          /\ UNCHANGED <<got, session>>
  /\ Goes(f, IF has_plaintext(s) THEN "done" ELSE "drain")
  /\ UNCHANGED <<ready, rx, reset, sent, trusted, usable, final, mixed>>

Records(from, n) == FlattenSeq([i \in 1 .. n |-> Record("data", from + i)])

\* write's feed: what the queue has room for is taken, once.
PumpFeed(f) ==
  LET e == End(call[f].h) s == session[e]
      room == IF Len(s.out) < OUT_CAP THEN OUT_CAP - Len(s.out) ELSE 0
      taken == IF room < call[f].n THEN room ELSE call[f].n IN
  /\ turn = f /\ call[f].at = "feed"
  /\ IF taken = 0
     THEN /\ Goes(f, IF s.out # <<>> THEN "parked" ELSE "done")
          /\ UNCHANGED session
     ELSE /\ call' = [call EXCEPT ![f].at = "flush", ![f].n = taken]
          /\ session' = [session EXCEPT ![e].out = @ \o Records(sent[e], taken)]
          /\ UNCHANGED <<program, regVars, turn, conn, backlog, up>>
  /\ UNCHANGED <<ready, rx, reset, seenVars, trusted, usable, final, mixed>>

\* close_socket_entry after tls_close, or after a failed handshake.
PumpDrop(f) ==
  /\ turn = f /\ call[f].at = "drop"
  /\ CloseEntry(f, call[f].h)
  /\ session' = Dropped(call[f].h)
  /\ turn' = NoFiber
  /\ UNCHANGED <<eof, trusted, usable, final, mixed>>

Pump(f) ==
  \/ PumpDrain(f) \/ PumpFill(f) \/ PumpAlert(f) \/ PumpReader(f) \/ PumpFeed(f) \/ PumpDrop(f)

-----------------------------------------------------------------------------
(* Select, and the whole.                                                  *)

\* socket_is_ready: would a read say something?
socket_is_ready(h) ==
  \/ h \notin DOMAIN sockets
  \/ /\ sockets[h].kind # "listener"
     /\ \/ rx[End(h)] # <<>> \/ Broken(End(h))
        \/ sockets[h].kind = "tls" /\ has_plaintext(session[End(h)])

\* fiber.select over one stream: ask, and park if it has nothing.
Select(f, h) ==
  LET c == Native("select", h, 0) IN
  /\ Runs(f, c) /\ MayUse /\ ~Connecting(h)
  /\ Is(h, "stream") \/ Is(h, "tls") \/ call[f] = c
  /\ IF socket_is_ready(h) THEN call[f] = c /\ Fails(f) ELSE Blocks(f, c)

Plain(f) ==
  \/ SocketListen(f) \/ SocketConnectFinish(f)
  \/ \E c \in program.conns : SocketConnect(f, c)
  \/ \E h \in Handles :
       \/ SocketAccept(f, h) \/ Select(f, h)
       \/ \E n \in ReadSizes : SocketRead(f, h, n)
       \/ \E n \in WriteSizes : SocketWrite(f, h, n)

Secure(f) ==
  \/ TlsHandshake(f)
  \/ \E h \in Handles :
       \/ SocketClose(f, h) /\ session' = Dropped(h) /\ UNCHANGED <<trusted, usable, final, mixed>>
       \/ TlsWrap(f, h) \/ TlsClose(f, h)
       \/ \E n \in ReadSizes : TlsRead(f, h, n)
       \/ \E n \in WriteSizes : TlsWrite(f, h, n)

Kernel == (\E c \in program.conns : ConnectLands(c)) \/ (\E h \in Handles : Poll(h))

Next ==
  \/ \E f \in Fibers : \/ Plain(f) /\ mixed' = mixed \cup Met /\ UNCHANGED <<session, trusted, usable, final>>
                       \/ Secure(f) \/ Pump(f)
  \/ Kernel /\ UNCHANGED tlsVars

Spec == Init /\ [][Next]_vars

-----------------------------------------------------------------------------
(* Properties.                                                             *)

Cells == [t : {"plain", "data", "hello", "certificate", "finished", "close", "alert"},
          d : 0 .. MaxBytes, last : BOOLEAN]
Ops == {"none", "accept", "connect_finish", "read", "write", "select",
        "tls_handshake", "tls_read", "tls_write", "tls_close"}
Steps == {"idle", "parked", "woken", "drain", "fill", "alert", "reader", "feed", "flush", "drop"}

\* The shape of the state.
TypeOK ==
  /\ DOMAIN sockets \subseteq 1 .. NEXT_SOCKET_ID - 1
  /\ \A h \in DOMAIN sockets : sockets[h].kind \in {"listener", "stream", "tls"}
  /\ call \in [Fibers -> [op : Ops, h : Nat, n : Nat, at : Steps]]
  /\ turn \in Fibers \cup {NoFiber}
  /\ ready \subseteq DOMAIN sockets /\ up \subseteq Ends /\ reset \subseteq Ends
  /\ \A e \in Ends : Len(rx[e]) <= SOCK_BUF
  /\ \A e \in Ends : Range(rx[e]) \subseteq Cells /\ Range(session[e].out) \subseteq Cells
  /\ usable \subseteq Ends /\ eof \subseteq Ends

Parked(f) == call[f].at = "parked"

\* A parked native, run again now, would block again.
WouldBlock(c) ==
  /\ c.h \in DOMAIN sockets
  /\ LET e == End(c.h) s == session[e] IN
     CASE c.op = "accept" -> backlog = <<>>
       [] c.op = "connect_finish" -> conn[e[1]] = "connecting"
       [] c.op = "read" -> rx[e] = <<>> /\ ~Broken(e)
       [] c.op = "write" -> Room(e) = 0 /\ ~Broken(e)
       [] c.op = "select" -> ~socket_is_ready(c.h)
       [] c.op = "tls_write" -> Len(s.out) >= OUT_CAP /\ Room(e) = 0 /\ ~Broken(e)
       [] OTHER -> /\ ~Broken(e)
                   /\ c.op = "tls_read" => ~has_plaintext(s)
                   /\ IF s.out # <<>> THEN Room(e) = 0 ELSE c.op # "tls_close" /\ rx[e] = <<>>

\* natives.rs:2942 "Every native must attempt its syscall before parking.  That
\* is what makes a dropped edge harmless": a fiber is parked on a handle only
\* while it has nothing to do there, or the event that will wake it is on its
\* way -- whatever other fibers read, write, wrap or close in the meantime.
NoLostReadiness ==
  turn = NoFiber => \A f \in Fibers : Parked(f) => call[f].h \in ready \/ WouldBlock(call[f])

Upto(n) == [i \in 1 .. n |-> i]

\* natives.rs:2945 "Every native must be idempotent across the retry": while a
\* connection is whole, what one end's writers were told is written is, in
\* order and once, what the other end's readers were given, followed by what is
\* on the way: decrypted, received, or queued in the writer's session.
BytesConserved ==
  turn = NoFiber => \A e \in up : e[1] \notin mixed /\ Peer(e) \in up /\ final[Peer(e)] = NotFinal =>
    got[e] \o session[e].plain \o Payload(rx[e]) \o Payload(session[Peer(e)].out)
      = Upto(sent[Peer(e)])

\* tls.rs:70 "a silently accepted truncation is an attack surface": readers are
\* told of the end of a TLS stream only after every byte its writer had sent
\* when it announced the end, and a plain stream ends only with its peer.  (A read
\* of zero bytes returns as little at any time, natives.rs:3180 and 3545; it tells
\* its caller nothing and is not counted as an end.)
EofIsComplete ==
  \A e \in eof :
    IF e \in usable THEN got[e] = Upto(final[Peer(e)]) ELSE Peer(e) \notin up

\* natives.rs:3021 "reading or writing the raw fd under a live TLS session would
\* ... desync the record stream": a session meets a protocol error only where the
\* certificate is not trusted, or where the program mixed plain bytes and records
\* before the session was there.  Plain reads and writes of the same handle,
\* called or parked before the session or called after, and records that come or
\* go in parts and by several fibers, never bring it out of step.
SessionsInStep ==
  \A e \in Ends : session[e].failed => ~trusted \/ e[1] \in mixed

\* Nothing happens any more unless the program calls something.
Quiet == ready = {} /\ \A f \in Fibers : call[f].at \in {"idle", "parked"}
Waits(e, ops) == \E f \in Fibers : Parked(f) /\ call[f].op \in ops /\ call[f].h \in HandlesOf(e)

\* tls.rs:132 "Flush before testing", and tls.rs:174 "waiting for a reply we
\* haven't asked for is a deadlock": no end is left waiting in its handshake
\* while its peer waits too, or has come through; and a writer that waits for
\* room and a reader at the other end that waits for data do not both go on
\* waiting -- unless the reader cannot send what its own session has queued,
\* which it does first (tls.rs:176).
PeersMeet ==
  Quiet => \A e \in up \ {d \in up : d[1] \in mixed} :
    /\ Waits(e, {"tls_handshake"}) =>
         Peer(e) \notin usable /\ ~Waits(Peer(e), {"tls_handshake"})
    /\ Waits(e, {"write", "tls_write"}) /\ Waits(Peer(e), {"read", "tls_read"}) =>
         session[Peer(e)].out # <<>> /\ Room(Peer(e)) = 0

In(f, op, h) == call[f].op = op /\ call[f].h = h

\* net.thera:306 "on failure it is closed", and connect_addr's close: an open
\* descriptor is waiting to be accepted, or has one handle, and that is one the
\* program holds.  What an error leaves behind is nobody's: neither a connect
\* that was refused, nor a session whose handshake did not succeed, nor an
\* accepted stream without a registration stays open once the call is over.
NoneLeaked ==
  \A e \in up :
    \/ HandlesOf(e) = {} /\ \E i \in DOMAIN backlog : e = <<backlog[i], "server">>
    \/ \E h \in HandlesOf(e) :
         /\ HandlesOf(e) = {h}
         /\ conn[e[1]] = "refused" => \E f \in Fibers : In(f, "connect_finish", h)
         /\ Is(h, "tls") /\ e \notin usable => \E f \in Fibers : In(f, "tls_handshake", h)

\* net.thera:45 and 286: one fiber may read a stream while another writes it, and
\* a TlsStream is used like a TcpStream.  Two ends that both write and both have
\* a reader do not stop with records received and not read.
NoStandoff ==
  Quiet => \A e \in up : ~(\A x \in {e, Peer(e)} : Waits(x, {"read", "tls_read"}) /\ rx[x] # <<>>)
=============================================================================
