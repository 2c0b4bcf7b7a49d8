--------------------------------- MODULE Tunnel ---------------------------------
(***************************************************************************)
(* One connection from the dial to the packets: the FakeTLS hello or the   *)
(* SOCKS5 negotiation, the obfuscated stream with its two keystreams, the  *)
(* records of FakeTLS, and the transport that cuts packets out of the      *)
(* bytes.  A read takes what it needs byte by byte from the connection and *)
(* may run into its deadline between any two; what it has read is then     *)
(* gone, and the next call goes on where it stopped.                       *)
(*                                                                         *)
(* The far side (external) sends packets of any length, cut into records   *)
(* and mixed with empty and ChangeCipherSpec records as it likes.  A unit  *)
(* on the wire is a byte of a head or of a record header, or a word of a   *)
(* body; a data unit carries its position k in the stream, which is the    *)
(* position of the keystream that decrypts it.                             *)
(***************************************************************************)
EXTENDS Framing, FiniteSets

CONSTANTS
  Routes,       \* pairs of a kind of connection and a transport
  Credentials,  \* whether a SOCKS5 target has them: a set of BOOLEAN
  Bodies,       \* by transport: lengths in bytes the far side sends, padding included
  Cuts,         \* lengths of the records it makes of them
  Garbage,      \* lengths that bytes which are no length may say
  MaxPackets, MaxSends, MaxExtras  \* bounds on the far side and the writes

Kinds == {"obf", "tls", "socks"}

ASSUME TunnelAssumption ==
  /\ Routes \subseteq Kinds \X Transports /\ Credentials \subseteq BOOLEAN
  /\ \A t \in Transports : Bodies[t] \subseteq Nat /\ Bodies[t] = Lengths(t, Bodies[t])
  /\ Cuts \subseteq Nat \ {0}
  /\ Garbage \subseteq Nat /\ {MaxPackets, MaxSends, MaxExtras} \subseteq Nat

VARIABLES
  kind, tr,     \* the route
  auth,         \* needsAuth
  admits,       \* the far side knows the secret, or has let the client in
  pc,           \* step of the set-up, then "up" or "failed"
  stage,        \* stage of the error that ended the attempt
  up,           \* what the client has written
  wire,         \* units on their way to the client
  pending,      \* stream units the far side has not yet cut into records
  packets,      \* lengths of the packets the far side has sent
  extras,       \* records it has sent for no data
  rec,          \* locals of tlsConn.Read: the record being read
  buf,          \* tlsConn.buf
  dec,          \* keystream positions used by obfConn.dec
  phase,        \* piece decode is reading: "idle", "first", "ext", "body"
  head, size,   \* the head's bytes so far, the length it says
  have,         \* the part of the piece that has come
  delivered,    \* history: what recvRaw returned
  torn          \* history: a read gave up inside a packet

route == <<kind, tr, auth>>
setup == <<pc, stage>>
far == <<wire, pending, packets, extras>>
decoder == <<phase, head, size, have, delivered, torn>>
reader == <<rec, buf, dec, decoder>>
vars == <<route, admits, setup, up, far, reader>>

NoRecord == [at |-> "type", type |-> "none", left |-> 0, got |-> <<>>]

Init ==
  /\ \E r \in Routes : kind = r[1] /\ tr = r[2]
  /\ auth \in (IF kind = "socks" THEN Credentials ELSE {FALSE})
  /\ admits \in (CASE kind = "socks" -> {FALSE} [] kind = "tls" -> BOOLEAN [] OTHER -> {TRUE})
  /\ pc = (CASE kind = "socks" -> "greet" [] kind = "tls" -> "hail" [] OTHER -> "header")
  /\ stage = "none" /\ up = <<>>
  /\ wire = <<>> /\ pending = <<>> /\ packets = <<>> /\ extras = 0
  /\ rec = NoRecord /\ buf = <<>> /\ dec = 0
  /\ phase = "idle" /\ head = <<>> /\ size = 0 /\ have = <<>>
  /\ delivered = <<>> /\ torn = FALSE

Wrote(mark) == \E i \in DOMAIN up : up[i] = mark

-----------------------------------------------------------------------------
(* Setting up: socks5Connect, fakeTLSHandshake, newObfConn.  Whatever goes  *)
(* wrong ends the attempt, so these reads are taken in one step each.       *)

Fail(s) == pc' = "failed" /\ stage' = s

Proceed(to) == pc' = to /\ UNCHANGED stage

Greet ==
  /\ pc = "greet"
  /\ up' = Append(up, IF auth THEN "greeting2" ELSE "greeting0")
  /\ Proceed("method")
  /\ UNCHANGED <<route, admits, far, reader>>

Hail ==
  /\ pc = "hail"
  /\ up' = Append(up, "hello")
  /\ Proceed("hello")
  /\ UNCHANGED <<route, admits, far, reader>>

SetupUnit(of) == wire # <<>> /\ Head(wire).of = of

(* The server may choose user and password although they were not offered, *)
(* or nothing although they were: the code follows it either way.          *)
ReadMethod ==
  /\ pc = "method" /\ SetupUnit("method")
  /\ wire' = Tail(wire)
  /\ CASE Head(wire).val = 0 -> UNCHANGED up /\ Proceed("request")
       [] Head(wire).val = 2 -> up' = Append(up, "auth") /\ Proceed("auth")
       [] OTHER -> UNCHANGED up /\ Fail("handshake")
  /\ UNCHANGED <<route, admits, pending, packets, extras, reader>>

ReadAuth ==
  /\ pc = "auth" /\ SetupUnit("auth")
  /\ wire' = Tail(wire)
  /\ IF Head(wire).val = 0 THEN Proceed("request") ELSE Fail("handshake")
  /\ UNCHANGED <<route, admits, up, pending, packets, extras, reader>>

WriteRequest ==
  /\ pc = "request"
  /\ up' = Append(up, "request")
  /\ Proceed("reply")
  /\ UNCHANGED <<route, admits, far, reader>>

(* Mutant: the length byte of a name is taken for a part of the name. *)
Skip_LengthByte(type, rest) ==
  CASE type = "v4" -> 4 + 2 [] type = "v6" -> 16 + 2 [] type = "name" -> rest[1].val + 2

(* The bytes of the reply behind its head, by the type of the address; the  *)
(* first byte of a name says how long it is.                               *)
Skip(type, rest) ==
  CASE type = "v4" -> 4 + 2 [] type = "v6" -> 16 + 2 [] type = "name" -> 1 + rest[1].val + 2

ReadReply ==
  /\ pc = "reply" /\ SetupUnit("reply")
  /\ LET reply == Head(wire)
         rest == Tail(wire)
     IN  IF reply.val # 0 \/ reply.type = "other"
         THEN wire' = rest /\ Fail("protocol")
         ELSE /\ rest # <<>> /\ Len(rest) >= Skip(reply.type, rest)
              /\ wire' = SubSeq(rest, Skip(reply.type, rest) + 1, Len(rest))
              /\ Proceed("up")
  /\ UNCHANGED <<route, admits, up, pending, packets, extras, reader>>

(* readServerHello takes records up to the first with application data;    *)
(* verifyServerHello checks their order and a digest of all of them, which *)
(* only who knows the secret can compute.                                  *)
EndsHello(i) == wire[i].val \notin {"hs", "ccs"} \/ (i = 1 /\ wire[i].val # "hs")

(* Mutant: the digest is not compared. *)
Verified_NoDigest(rs) ==
  /\ Len(rs) >= 2 /\ rs[1].val = "hs" /\ rs[Len(rs)].val = "app"
  /\ \A i \in 2..Len(rs) : rs[i].val \in {"ccs", "app"}

Verified(rs) ==
  /\ Len(rs) >= 2 /\ rs[1].val = "hs" /\ rs[Len(rs)].val = "app"
  /\ \A i \in 2..Len(rs) : rs[i].val \in {"ccs", "app"}
  /\ \A i \in 1..Len(rs) : rs[i].signed = Len(rs)

ReadHello ==
  /\ pc = "hello"
  /\ \E n \in DOMAIN wire :
       /\ EndsHello(n) /\ \A i \in 1..(n - 1) : ~EndsHello(i)
       /\ wire' = SubSeq(wire, n + 1, Len(wire))
       /\ IF Verified(SubSeq(wire, 1, n)) THEN Proceed("header") ELSE Fail("handshake")
  /\ UNCHANGED <<route, admits, up, pending, packets, extras, reader>>

(* A write fails, the deadline passes or the far side closes.               *)
SetupFails ==
  /\ pc \notin {"up", "failed"}
  /\ Fail(IF pc \in {"request", "reply", "header"} THEN "protocol" ELSE "handshake")
  /\ UNCHANGED <<route, admits, up, far, reader>>

(* tlsConn.Write puts a ChangeCipherSpec record before its first data, and  *)
(* newObfConn the tag, in a header that sets both keystreams.               *)
WriteHeader ==
  /\ pc = "header"
  /\ up' = up \o (IF kind = "tls" THEN <<"ccs", "tag">> ELSE <<"tag">>)
  /\ Proceed("up")
  /\ UNCHANGED <<route, admits, far, reader>>

Writes == Cardinality({i \in DOMAIN up : up[i] = "packet"})

(* Mutant: tagFirst is not cleared. *)
Send_TagAgain ==
  /\ pc = "up" /\ phase = "idle" /\ Writes < MaxSends
  /\ up' = up \o (IF kind = "socks" THEN <<"tag", "packet">> ELSE <<"packet">>)
  /\ UNCHANGED <<route, admits, setup, far, reader>>

(* sendRaw: without obfuscation the tag goes out with the first packet.    *)
Send ==
  /\ pc = "up" /\ phase = "idle" /\ Writes < MaxSends
  /\ up' = up \o (IF kind = "socks" /\ ~Wrote("tag") THEN <<"tag", "packet">> ELSE <<"packet">>)
  /\ UNCHANGED <<route, admits, setup, far, reader>>

-----------------------------------------------------------------------------
(* The far side.                                                           *)

Put(units) == wire' = wire \o units /\ UNCHANGED <<route, setup, up, reader>>

ServerMethod(m) ==
  /\ pc = "method" /\ wire = <<>>
  /\ Put(<<[of |-> "method", val |-> m]>>)
  /\ admits' = (m = 0)
  /\ UNCHANGED <<pending, packets, extras>>

ServerAuth(ok) ==
  /\ pc = "auth" /\ wire = <<>>
  /\ Put(<<[of |-> "auth", val |-> IF ok THEN 0 ELSE 1]>>)
  /\ admits' = ok
  /\ UNCHANGED <<pending, packets, extras>>

Bytes(n) == [i \in 1..n |-> [of |-> "address", val |-> 0]]

(* The address the proxy says it is bound to, and the port.                 *)
BoundTo(type, n) ==
  (CASE type = "v4" -> Bytes(4) [] type = "v6" -> Bytes(16)
     [] type = "name" -> <<[of |-> "address", val |-> n]>> \o Bytes(n)
     [] OTHER -> <<>>) \o Bytes(2)

ServerReply(code, type, n) ==
  /\ pc = "reply" /\ wire = <<>>
  /\ Put(<<[of |-> "reply", val |-> code, type |-> type]>> \o BoundTo(type, n))
  /\ UNCHANGED <<admits, pending, packets, extras>>

Hellos == {<<"hs", "ccs", "app">>, <<"hs", "app">>, <<"hs", "ccs", "app", "app">>,
           <<"hs", "hs", "app">>, <<"app">>, <<"hs", "alert">>}

ServerHello(shape) ==
  /\ pc = "hello" /\ wire = <<>>
  /\ Put([i \in 1..Len(shape) |-> [of |-> "record", val |-> shape[i],
                                    signed |-> IF admits THEN Len(shape) ELSE 0]])
  /\ UNCHANGED <<admits, pending, packets, extras>>

(* The stream: the units of packet i begin at position from + 1.           *)
BodyUnits(len) == (len + 3) \div 4
UnitsOf(len) == Len(Encode(tr, len)) + BodyUnits(len)

Before(i) == LET upTo[j \in 0..Len(packets)] == IF j = 0 THEN 0 ELSE upTo[j - 1] + UnitsOf(packets[j])
             IN  upTo[i]

Packet(len) ==
  LET h == Encode(tr, len)
  IN  [j \in 1..UnitsOf(len) |->
         [of |-> "data", k |-> Before(Len(packets)) + j, pkt |-> Len(packets) + 1, part |-> j,
          val |-> IF j <= Len(h) THEN h[j] ELSE 0]]

ServerSends(len) ==
  /\ Wrote("packet") /\ Len(packets) < MaxPackets
  /\ packets' = Append(packets, len)
  /\ IF kind = "tls" THEN pending' = pending \o Packet(len) /\ UNCHANGED wire
                     ELSE wire' = wire \o Packet(len) /\ UNCHANGED pending
  /\ UNCHANGED <<route, admits, setup, up, reader, extras>>

Record(type, units) ==
  <<[of |-> "type", val |-> type], [of |-> "len", val |-> Len(units)]>> \o units

ServerCuts(n) ==
  /\ pending # <<>> /\ n \in Cuts
  /\ LET m == IF n < Len(pending) THEN n ELSE Len(pending)
     IN  /\ Put(Record("app", SubSeq(pending, 1, m)))
         /\ pending' = SubSeq(pending, m + 1, Len(pending))
  /\ UNCHANGED <<admits, packets, extras>>

ServerFills(type) ==
  /\ kind = "tls" /\ pc = "up" /\ extras < MaxExtras
  /\ extras' = extras + 1
  /\ Put(Record(type, IF type = "app" THEN <<>> ELSE <<[of |-> "pad"]>>))
  /\ UNCHANGED <<admits, pending, packets>>

-----------------------------------------------------------------------------
(* Reading: transport.decode over obfConn.ReadFull over tlsConn.Read.      *)

Recv ==
  /\ pc = "up" /\ phase = "idle"
  /\ phase' = "first"
  /\ UNCHANGED <<route, admits, setup, up, far, rec, buf, dec, head, size, have, delivered, torn>>

Reading == pc = "up" /\ phase # "idle"

(* Mutant: the padding is waited for although the length counts it. *)
Need_PaddingTwice ==
  CASE phase = "first" -> FirstRead(tr) [] phase = "ext" -> ExtRead
    [] OTHER -> BodyUnits(size) + (IF tr = "padded" THEN 1 ELSE 0)

(* How much the read in progress asks for.                                 *)
Need == CASE phase = "first" -> FirstRead(tr) [] phase = "ext" -> ExtRead [] OTHER -> BodyUnits(size)

(* recvRaw returns: the next call starts with a new head.                  *)
Return(lost) ==
  /\ phase' = "idle" /\ head' = <<>> /\ size' = 0 /\ have' = <<>>
  /\ torn' = (torn \/ lost)

(* The call gives up with what it holds; nothing is lost if that is nothing. *)
Abandon(midRecord) ==
  /\ Return(phase # "first" \/ have # <<>> \/ midRecord)
  /\ rec' = NoRecord
  /\ UNCHANGED <<buf, dec, delivered>>

(* A piece decrypts if each of its bytes meets its place in the keystream.  *)
Clear(piece) == \A i \in DOMAIN piece :
                  piece[i].of = "data" /\ (kind # "socks" => piece[i].k = dec + i)

(* Bytes from to from + n - 1 of one packet.                               *)
Consecutive(piece, from) ==
  Clear(piece) /\ \A i \in DOMAIN piece : piece[i].part = from + i - 1 /\ piece[i].pkt = piece[1].pkt

Values(piece) == [i \in DOMAIN piece |-> piece[i].val]

(* The head is complete: the body follows, or an error.                    *)
Sized(len) ==
  IF Accepted(len)
  THEN phase' = "body" /\ size' = len /\ head' = <<>> /\ have' = <<>> /\ UNCHANGED torn
  ELSE Return(TRUE)

Extended(first) == phase' = "ext" /\ head' = first /\ have' = <<>> /\ UNCHANGED <<size, torn>>

(* Bytes that are no head, or do not decrypt, may say any length.          *)
HeadDone(piece) ==
  IF Consecutive(piece, Len(head) + 1)
  THEN LET h == head \o Values(piece)
       IN  IF phase = "first" /\ NeedsExt(tr, h) THEN Extended(h) ELSE Sized(Decode(tr, h))
  ELSE \/ \E n \in Garbage : Sized(n)
       \/ phase = "first" /\ tr = "abridged" /\ Extended(<<Long>>)

(* What recvRaw returns: packet n if the words of the body are its own.    *)
Received(piece) ==
  LET words == SubSeq(piece, 1, BodyUnits(Stripped(tr, size)))
      n == words[1].pkt
  IN  IF /\ Clear(piece) /\ words # <<>>
         /\ Consecutive(words, Len(Encode(tr, packets[n])) + 1)
         /\ Len(words) = BodyUnits(Stripped(tr, packets[n]))
      THEN n ELSE 0

BodyDone(piece) ==
  /\ delivered' = Append(delivered, Received(piece))
  /\ Return(FALSE)

(* Mutant: what a record holds beyond the piece being read is dropped. *)
Take_DropsRest ==
  /\ Reading
  /\ LET from == IF kind = "tls" THEN buf ELSE wire
         piece == Append(have, Head(from))
     IN  /\ from # <<>>
         /\ IF kind = "tls" THEN buf' = (IF Len(piece) < Need THEN Tail(buf) ELSE <<>>) /\ UNCHANGED wire
                            ELSE wire' = Tail(wire) /\ UNCHANGED buf
         /\ IF Len(piece) < Need
            THEN have' = piece /\ UNCHANGED <<dec, phase, head, size, delivered, torn>>
            ELSE /\ dec' = IF kind = "socks" THEN dec ELSE dec + Need
                 /\ IF phase = "body" THEN BodyDone(piece)
                    ELSE HeadDone(piece) /\ UNCHANGED delivered
  /\ UNCHANGED <<route, admits, setup, up, pending, packets, extras, rec>>

(* io.ReadFull takes a byte; with the last one the piece is decrypted.     *)
Take ==
  /\ Reading
  /\ LET from == IF kind = "tls" THEN buf ELSE wire
         piece == Append(have, Head(from))
     IN  /\ from # <<>>
         /\ IF kind = "tls" THEN buf' = Tail(buf) /\ UNCHANGED wire
                            ELSE wire' = Tail(wire) /\ UNCHANGED buf
         /\ IF Len(piece) < Need
            THEN have' = piece /\ UNCHANGED <<dec, phase, head, size, delivered, torn>>
            ELSE /\ dec' = IF kind = "socks" THEN dec ELSE dec + Need
                 /\ IF phase = "body" THEN BodyDone(piece)
                    ELSE HeadDone(piece) /\ UNCHANGED delivered
  /\ UNCHANGED <<route, admits, setup, up, pending, packets, extras, rec>>

(* A record is complete: data is kept, ChangeCipherSpec skipped, anything  *)
(* else an error.                                                          *)
RecordDone(type, got) ==
  IF type \in {"app", "ccs"}
  THEN /\ rec' = NoRecord
       /\ buf' = IF type = "app" THEN got ELSE buf
       /\ UNCHANGED <<dec, decoder>>
  ELSE Abandon(FALSE)

(* A byte of a record header, or of the payload, is read.                  *)
ReadRecord ==
  /\ Reading /\ kind = "tls" /\ buf = <<>> /\ wire # <<>>
  /\ wire' = Tail(wire)
  /\ LET u == Head(wire)
     IN  CASE rec.at = "type" ->
                /\ \E type \in (IF u.of = "type" THEN {u.val} ELSE {"app", "ccs", "alert"}) :
                     rec' = [rec EXCEPT !.at = "len", !.type = type]
                /\ UNCHANGED <<buf, dec, decoder>>
           [] rec.at = "len" ->
                \E n \in (IF u.of = "len" THEN {u.val} ELSE Garbage) :
                  IF n = 0 THEN RecordDone(rec.type, <<>>)
                  ELSE rec' = [rec EXCEPT !.at = "body", !.left = n] /\ UNCHANGED <<buf, dec, decoder>>
           [] OTHER ->
                IF rec.left = 1 THEN RecordDone(rec.type, Append(rec.got, u))
                ELSE /\ rec' = [rec EXCEPT !.left = @ - 1, !.got = Append(@, u)]
                     /\ UNCHANGED <<buf, dec, decoder>>
  /\ UNCHANGED <<route, admits, setup, up, pending, packets, extras>>

(* The deadline of the call passes.                                        *)
TimeOut ==
  /\ Reading /\ buf = <<>>
  /\ Abandon(rec.at # "type")
  /\ UNCHANGED <<route, admits, setup, up, far>>

(* A failed attempt closes the connection.                                 *)
Ended == pc = "failed" /\ UNCHANGED vars

-----------------------------------------------------------------------------

SetUp == \/ Greet \/ Hail \/ ReadMethod \/ ReadAuth \/ WriteRequest \/ ReadReply \/ ReadHello
         \/ SetupFails \/ WriteHeader

FarSide ==
  \/ \E m \in {0, 2, 255} : ServerMethod(m)
  \/ \E ok \in BOOLEAN : ServerAuth(ok)
  \/ \E code \in {0, 1}, type \in {"v4", "v6", "name", "other"}, n \in {0, 3} : ServerReply(code, type, n)
  \/ \E shape \in Hellos : ServerHello(shape)
  \/ \E len \in Bodies[tr] : ServerSends(len)
  \/ \E n \in Cuts : ServerCuts(n)
  \/ \E type \in {"app", "ccs", "alert"} : ServerFills(type)

ReadByte == Take \/ ReadRecord

Next == \/ SetUp \/ FarSide \/ Send \/ Recv \/ ReadByte \/ TimeOut \/ Ended

Spec == Init /\ [][Next]_vars

(* The far side flushes what it has sent; the client keeps calling, and a   *)
(* byte that stays there is read by one of the calls, each of which sets    *)
(* its deadline ahead.                                                     *)
FairSpec == /\ Spec
            /\ WF_vars(Recv) /\ SF_vars(ReadByte)
            /\ WF_vars(\E n \in Cuts : ServerCuts(n))

-----------------------------------------------------------------------------

(* What has come of the stream and was not yet decoded, in the order in     *)
(* which it will be read, and how much of its first n units is data.       *)
Line == have \o buf \o rec.got \o wire \o pending
DataUpTo(n) == Cardinality({i \in 1..n : Line[i].of = "data"})

(* Where the piece being read begins in its packet.                        *)
PieceStart == IF phase = "ext" THEN FirstRead(tr)
              ELSE IF phase = "body" THEN Len(Encode(tr, packets[Len(delivered) + 1])) ELSE 0

(* The position in the stream up to which everything is decoded.           *)
Decoded == Before(Len(delivered)) + PieceStart

(* As long as no read has given up inside a packet, both ends agree where  *)
(* they are: nothing of the negotiation is left in front of the stream, the *)
(* keystream is at the first byte not yet decrypted, the transport at the   *)
(* piece of the packet that comes next, and from there on every unit of the *)
(* stream comes, in its order.                                             *)
InStep ==
  pc = "up" /\ ~torn =>
    /\ \A i \in DOMAIN wire : wire[i].of \in {"data", "type", "len", "pad"}
    /\ kind # "socks" => dec = Decoded
    /\ \A i \in DOMAIN Line : Line[i].of = "data" => Line[i].k = Decoded + DataUpTo(i)
    /\ Before(Len(packets)) = Decoded + DataUpTo(Len(Line))

(* A failure in the handshake stage ends the probe, one in the protocol     *)
(* stage leads to the next datacentre: the first means that the proxy was   *)
(* not yet asked for Telegram, the second that it had let the client in, by *)
(* the credentials or by proving to know the secret.                       *)
BlameIsRight ==
  /\ stage = "handshake" => ~Wrote("request") /\ ~Wrote("tag")
  /\ stage = "protocol" => admits

(* The tag goes out once, before the first packet, and nothing of the       *)
(* stream is shown to a far side that has not let the client in.            *)
TagOnce ==
  /\ \A i, j \in DOMAIN up : up[i] = "tag" /\ up[j] = "tag" => i = j
  /\ \A i \in DOMAIN up : up[i] = "packet" => \E j \in 1..(i - 1) : up[j] = "tag"
  /\ Wrote("tag") => admits

(* A packet that was sent is returned by a call in the end, unless a read   *)
(* gave up inside a packet: client and far side never wait for each other   *)
(* over a byte one expects and the other does not send.                    *)
PacketsArrive == \A i \in 1..MaxPackets : Len(packets) >= i ~> torn \/ Len(delivered) >= i

-----------------------------------------------------------------------------
(* The tunnel implements the channel of packets.                           *)
Channel == INSTANCE PacketChannel WITH sent <- Len(packets)

ImplementsChannel == Channel!Spec
=============================================================================
