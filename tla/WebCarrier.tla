----------------------------- MODULE WebCarrier -----------------------------
(***************************************************************************)
(* One relay session of internal/webproxy: Dial, Write, Read, pump and     *)
(* Close of the carrier, the send and receive of its two transports,       *)
(* httpCarrier and wsCarrier, and the relay they talk to.                  *)
(*                                                                         *)
(* The carrier is used by one goroutine, so at most one HTTP exchange is   *)
(* awaited; but an exchange the client gave up on may still reach the      *)
(* relay later, or have reached it with the answer lost.  Bytes are        *)
(* counted in units: one DATA frame carries one unit.  The relay is not    *)
(* part of the repository: it commits the uplink batches in sequence (the  *)
(* comment in https.go:33-34), answers the downlink from the cursor, sends *)
(* only what its credit allows, and may refuse with 503.  Over a WebSocket *)
(* it packs its frames into messages and cuts these into fragments where   *)
(* it likes.                                                               *)
(***************************************************************************)
EXTENDS Integers, SequencesExt, FiniteSets

CONSTANTS MaxWrites,  \* by mode, bound: calls of Write
          MaxOut,     \* by mode, bound: frames the relay sends down
          MaxBusy,    \* by mode, bound: 503 answers, or pings on the WebSocket
          MaxFaults,  \* bound: exchanges that fail on the network, sessions dropped
          Tries,      \* attempts of httpCarrier.send
          Window,     \* the stream's initial credit at the relay
          GrantMin    \* windowGrantMin

ASSUME CarrierAssumption ==
  /\ {MaxWrites, MaxOut, MaxBusy} \subseteq [{"https", "ws"} -> Nat] /\ MaxFaults \in Nat
  /\ Tries \in Nat \ {0} /\ Window \in Nat \ {0}
  /\ GrantMin \in 1..Window

VARIABLES
  pc,       \* where the carrier's caller is
  ex,       \* the exchange it waits for, with its continuation
  answer,   \* the answer that reached the client
  inbox,    \* frames pump has still to file away
  token,    \* Carrier.session is set
  opened, closed, eof, readBuf, debt,      \* fields of Carrier
  upSeq, cursor,                           \* fields of httpCarrier
  mode,     \* Carrier.transport: "none", "https" or "ws"
  sock,     \* the WebSocket: both directions, what is broken in them
  message,  \* local of wsCarrier.receive: the fragments so far
  torn,     \* history: a receive gave up inside a message
  expired,  \* the carrier's deadline has passed
  wire,     \* requests on their way to the relay
  relay,    \* the relay: session, committed sequence, stream state
  faults, busy,                            \* what the bounds limit
  written, acked, got,                     \* history: Write, Write ok, Read
  lost, released                           \* history: a send failed; DELETE was sent

client == <<opened, closed, eof, readBuf, debt, upSeq, cursor, token>>
history == <<written, acked, got, lost, released>>
socket == <<mode, sock, message, torn>>
vars == <<pc, ex, answer, inbox, client, expired, wire, relay, faults, busy, history, socket>>

Frame(k, v) == [kind |-> k, val |-> v]

Idle == [cont |-> "none", req |-> [kind |-> "none"], tries |-> 0]
NoAnswer == [status |-> "none"]

Init ==
  /\ pc = "bridge" /\ ex = Idle /\ answer = NoAnswer /\ inbox = <<>>
  /\ token = FALSE /\ opened = FALSE /\ closed = FALSE /\ eof = FALSE
  /\ readBuf = <<>> /\ debt = 0 /\ upSeq = 0 /\ cursor = 0
  /\ mode = "none" /\ message = <<>> /\ torn = FALSE
  /\ sock = [up |-> <<>>, down |-> <<>>, fails |-> FALSE, garbled |-> FALSE]
  /\ expired = FALSE /\ wire = {} /\ faults = 0 /\ busy = 0
  /\ relay = [session |-> "none", seq |-> 0, open |-> FALSE, up |-> <<>>,
              out |-> <<>>, pushed |-> 0, credit |-> Window, gap |-> FALSE]
  /\ written = 0 /\ acked = {} /\ got = <<>> /\ lost = FALSE /\ released = FALSE

-----------------------------------------------------------------------------
(* Dial: the bridge page, then the session, then the transport.             *)

FetchBridge(ok) ==
  /\ pc = "bridge"
  /\ pc' = IF ok THEN "session" ELSE "failed"
  /\ UNCHANGED <<ex, answer, inbox, client, expired, wire, relay, faults, busy, history, socket>>

(* createSession: the relay may have created a session whose answer is lost *)
(* or not a single WELCOME; the token is kept as soon as its header is read. *)
CreateSession(outcome) ==
  /\ pc = "session"
  /\ outcome \in {"refused", "lost", "malformed", "welcome"}
  /\ relay' = IF outcome = "refused" THEN relay ELSE [relay EXCEPT !.session = "open"]
  /\ token' = (outcome \in {"malformed", "welcome"})
  /\ pc' = IF outcome = "welcome" THEN "transport" ELSE "failed"
  /\ UNCHANGED <<ex, answer, inbox, opened, closed, eof, readBuf, debt, upSeq, cursor,
                 expired, wire, faults, busy, history, socket>>

(* The mode of the page or of the session answer picks the transport; an    *)
(* unknown one ends Dial with an error.                                     *)
ChooseTransport(m) ==
  /\ pc = "transport"
  /\ mode' = m
  /\ pc' = CASE m = "https" -> "idle" [] m = "ws" -> "upgrade" [] OTHER -> "failed"
  /\ UNCHANGED <<ex, answer, inbox, client, expired, wire, relay, faults, busy, history,
                 sock, message, torn>>

(* dialWebSocket: the connection, the upgrade and what the relay echoes.    *)
Upgrade(ok) ==
  /\ pc = "upgrade"
  /\ pc' = IF ok THEN "idle" ELSE "failed"
  /\ UNCHANGED <<ex, answer, inbox, client, expired, wire, relay, faults, busy, history, socket>>

-----------------------------------------------------------------------------
(* Mutant: deleteSession uses requestContext like every other request. *)
AwaitInTime(cont, req, tries) ==
  /\ ex' = [cont |-> cont, req |-> req, tries |-> tries]
  /\ answer' = NoAnswer
  /\ wire' = IF expired THEN wire ELSE wire \cup {req}
  /\ pc' = "wait"

(* Mutant: the requests have no deadline. *)
AwaitForever(cont, req, tries) ==
  /\ ex' = [cont |-> cont, req |-> req, tries |-> tries]
  /\ answer' = NoAnswer
  /\ wire' = wire \cup {req}
  /\ pc' = "wait"

(* An exchange: newAPIRequest and client.Do.  Past the deadline nothing is  *)
(* sent any more, except by deleteSession, whose context is its own.        *)
Await(cont, req, tries) ==
  /\ ex' = [cont |-> cont, req |-> req, tries |-> tries]
  /\ answer' = NoAnswer
  /\ wire' = IF expired /\ req.kind # "delete" THEN wire ELSE wire \cup {req}
  /\ pc' = "wait"

UpRequest(n, batch) == [kind |-> "up", seq |-> n, frames |-> batch]
DownRequest == [kind |-> "down", cursor |-> cursor]

(* httpCarrier.send: the sequence number advances once per batch.           *)
SendHTTPS(cont, batch) == /\ upSeq' = upSeq + 1
                          /\ Await(cont, UpRequest(upSeq + 1, batch), 1)

(* wsCarrier.send: one message, without number or answer.                  *)
SendSocket(cont, batch) ==
  /\ ex' = [cont |-> cont, req |-> [kind |-> "message", frames |-> batch], tries |-> 1]
  /\ answer' = NoAnswer
  /\ pc' = "wait"
  /\ UNCHANGED <<wire, upSeq>>

Send(cont, batch) == IF mode = "ws" THEN SendSocket(cont, batch) ELSE SendHTTPS(cont, batch)

(* takeWindowGrant(0): the debt is cleared whether or not it is delivered. *)
Grant == IF debt > 0 THEN <<Frame("WINDOW", debt)>> ELSE <<>>

(* Write of one chunk: OPEN on first use, the grant due, the data. *)
Write ==
  /\ pc = "idle" /\ ~closed
  /\ written < MaxWrites[mode]
  /\ written' = written + 1
  /\ opened' = TRUE
  /\ debt' = 0
  /\ Send("write", (IF opened THEN <<>> ELSE <<Frame("OPEN", 0)>>)
                     \o Grant \o <<Frame("DATA", written + 1)>>)
  /\ UNCHANGED <<inbox, token, closed, eof, readBuf, cursor, expired, relay,
                 faults, busy, acked, got, lost, released, socket>>

-----------------------------------------------------------------------------
(* Read: what is buffered, else the end of the stream, else a pump.         *)

Read ==
  /\ pc = "idle"
  /\ pc' = "reading"
  /\ UNCHANGED <<ex, answer, inbox, client, expired, wire, relay, faults, busy, history, socket>>

(* Mutant: the grant is held back until the debt exceeds the minimum. *)
ReadBufferedLate(n) ==
  /\ pc = "reading" /\ n \in 1..Len(readBuf)
  /\ got' = got \o SubSeq(readBuf, 1, n)
  /\ readBuf' = SubSeq(readBuf, n + 1, Len(readBuf))
  /\ IF debt + n > GrantMin /\ ~closed
       THEN /\ debt' = 0
            /\ Send("grant", <<Frame("WINDOW", debt + n)>>)
       ELSE /\ debt' = debt + n
            /\ pc' = "idle"
            /\ UNCHANGED <<ex, answer, wire, upSeq>>
  /\ UNCHANGED <<inbox, token, opened, closed, eof, cursor, expired, relay,
                 faults, busy, written, acked, lost, released, socket>>

ReadBuffered(n) ==
  /\ pc = "reading" /\ n \in 1..Len(readBuf)
  /\ got' = got \o SubSeq(readBuf, 1, n)
  /\ readBuf' = SubSeq(readBuf, n + 1, Len(readBuf))
  /\ IF debt + n >= GrantMin
       THEN /\ debt' = 0
            /\ IF closed THEN pc' = "idle" /\ UNCHANGED <<ex, answer, wire, upSeq>>
                         ELSE Send("grant", <<Frame("WINDOW", debt + n)>>)
       ELSE /\ debt' = debt + n
            /\ pc' = "idle"
            /\ UNCHANGED <<ex, answer, wire, upSeq>>
  /\ UNCHANGED <<inbox, token, opened, closed, eof, cursor, expired, relay,
                 faults, busy, written, acked, lost, released, socket>>

ReadEnds ==      \* io.EOF or net.ErrClosed
  /\ pc = "reading" /\ readBuf = <<>> /\ (eof \/ closed)
  /\ pc' = "idle"
  /\ UNCHANGED <<ex, answer, inbox, client, expired, wire, relay, faults, busy, history, socket>>

Pump ==
  /\ pc = "reading" /\ readBuf = <<>> /\ ~eof /\ ~closed
  /\ IF mode = "ws" THEN pc' = "receiving" /\ UNCHANGED <<ex, answer, wire>>
                    ELSE Await("down", DownRequest, 1)
  /\ UNCHANGED <<inbox, client, expired, relay, faults, busy, history, socket>>

FilePing ==      \* answered at once, in the middle of the batch
  /\ pc = "frames" /\ inbox # <<>> /\ Head(inbox).kind = "PING"
  /\ inbox' = Tail(inbox)
  /\ Send("pong", <<Frame("PONG", 0)>>)
  /\ UNCHANGED <<token, opened, closed, eof, readBuf, debt, cursor, expired, relay,
                 faults, busy, history, socket>>

FileFrame ==
  /\ pc = "frames" /\ inbox # <<>> /\ Head(inbox).kind # "PING"
  /\ LET f == Head(inbox) IN
       /\ readBuf' = IF f.kind = "DATA" THEN Append(readBuf, f.val) ELSE readBuf
       /\ eof' = (eof \/ f.kind \in {"CLOSE", "BYE"})
       /\ inbox' = IF f.kind = "BYE" THEN <<>> ELSE Tail(inbox)
       /\ pc' = IF f.kind = "BYE" THEN "idle" ELSE "frames"   \* BYE: an error
  /\ UNCHANGED <<ex, answer, token, opened, closed, debt, upSeq, cursor, expired,
                 wire, relay, faults, busy, history, socket>>

PumpDone ==
  /\ pc = "frames" /\ inbox = <<>>
  /\ pc' = "reading"
  /\ UNCHANGED <<ex, answer, inbox, client, expired, wire, relay, faults, busy, history, socket>>

-----------------------------------------------------------------------------
(* Close: CLOSE for an opened stream, then the session is deleted.          *)

Close ==
  /\ pc = "idle" /\ ~closed
  /\ IF opened
       THEN Send("close", <<Frame("CLOSE", 0)>>)
       ELSE pc' = "closing" /\ UNCHANGED <<ex, answer, wire, upSeq>>
  /\ UNCHANGED <<inbox, token, opened, closed, eof, readBuf, debt, cursor, expired,
                 relay, faults, busy, history, socket>>

(* wsCarrier.close drops what has not been read; httpCarrier.close nothing. *)
DeleteSession ==
  /\ pc = "closing"
  /\ closed' = TRUE
  /\ released' = TRUE
  /\ sock' = [sock EXCEPT !.down = <<>>]
  /\ Await("delete", [kind |-> "delete"], 1)
  /\ UNCHANGED <<inbox, token, opened, eof, readBuf, debt, upSeq, cursor, expired,
                 relay, faults, busy, written, acked, got, lost, mode, message, torn>>

-----------------------------------------------------------------------------
(* The end of an exchange.                                                  *)

(* Where the caller continues: a control frame returns to what it served. *)
Resume == CASE ex.cont = "pong" -> "frames"
            [] ex.cont = "close" -> "closing"
            [] OTHER -> "idle"

Settled == ex' = Idle /\ answer' = NoAnswer

(* A send that failed is an error for Write and ignored by sendControl. *)
SendFails == /\ lost' = TRUE
             /\ pc' = Resume

SendDone ==
  /\ pc = "wait" /\ ex.req.kind = "up" /\ answer.status = "ok"
  /\ acked' = IF ex.cont = "write" THEN acked \cup {written} ELSE acked
  /\ pc' = Resume
  /\ Settled
  /\ UNCHANGED <<inbox, client, expired, wire, relay, faults, busy,
                 written, got, lost, released, socket>>

SendRefused ==
  /\ pc = "wait" /\ ex.req.kind = "up" /\ answer.status \in {"gap", "gone"}
  /\ SendFails
  /\ Settled
  /\ UNCHANGED <<inbox, client, expired, wire, relay, faults, busy,
                 written, acked, got, released, socket>>

(* Mutant: a refused batch is taken for a committed one. *)
BusyAccepted ==
  /\ pc = "wait" /\ ex.req.kind = "up" /\ answer.status = "busy"
  /\ acked' = IF ex.cont = "write" THEN acked \cup {written} ELSE acked
  /\ pc' = Resume
  /\ Settled
  /\ UNCHANGED <<inbox, client, expired, wire, relay, faults, busy,
                 written, got, lost, released, socket>>

(* 503: the identical body again, after sleepRetry; the fourth refusal, or  *)
(* the deadline, ends the attempts with upSeq already advanced.             *)
SendBusy ==
  /\ pc = "wait" /\ ex.req.kind = "up" /\ answer.status = "busy"
  /\ IF ex.tries < Tries /\ ~expired
       THEN Await(ex.cont, ex.req, ex.tries + 1) /\ UNCHANGED lost
       ELSE SendFails /\ Settled /\ UNCHANGED wire
  /\ UNCHANGED <<inbox, client, expired, relay, faults, busy, written, acked, got, released, socket>>

(* receive: the cursor moves with the body that was read. *)
ReceiveDone ==
  /\ pc = "wait" /\ ex.req.kind = "down" /\ answer.status = "ok"
  /\ cursor' = answer.cursor
  /\ eof' = (eof \/ answer.lane)       \* X-Lane-Closed
  /\ inbox' = answer.frames
  /\ pc' = "frames"
  /\ Settled
  /\ UNCHANGED <<token, opened, closed, readBuf, debt, upSeq, expired,
                 wire, relay, faults, busy, history, socket>>

ReceiveBusy ==   \* 503: an empty body after the pause
  /\ pc = "wait" /\ ex.req.kind = "down" /\ answer.status = "busy"
  /\ pc' = IF expired THEN "idle" ELSE "reading"
  /\ Settled
  /\ UNCHANGED <<inbox, client, expired, wire, relay, faults, busy, history, socket>>

ReceiveRefused ==
  /\ pc = "wait" /\ ex.req.kind = "down" /\ answer.status = "gone"
  /\ pc' = "idle"
  /\ Settled
  /\ UNCHANGED <<inbox, client, expired, wire, relay, faults, busy, history, socket>>

DeleteDone ==
  /\ pc = "wait" /\ ex.req.kind = "delete" /\ answer.status = "ok"
  /\ pc' = "idle"
  /\ Settled
  /\ UNCHANGED <<inbox, client, expired, wire, relay, faults, busy, history, socket>>

(* The request's context is over: the carrier's deadline passed (deleteSession *)
(* has a context of its own), or the request was never sent.                 *)
TimeUp == \/ expired /\ ex.req.kind # "delete"
          \/ ex.req \notin wire /\ answer = NoAnswer

(* Mutant: the cursor is taken from the header before the body is read.  *)
GiveUpMovesCursor(arrives) ==
  /\ pc = "wait" /\ ex.req.kind # "message"
  /\ TimeUp \/ faults < MaxFaults
  /\ faults' = IF TimeUp THEN faults ELSE faults + 1
  /\ wire' = IF arrives THEN wire ELSE wire \ {ex.req}
  /\ cursor' = IF answer.status = "ok" /\ ex.req.kind = "down" THEN answer.cursor ELSE cursor
  /\ IF ex.req.kind = "up" THEN SendFails ELSE pc' = "idle" /\ UNCHANGED lost
  /\ Settled
  /\ UNCHANGED <<inbox, token, opened, closed, eof, readBuf, debt, upSeq,
                 expired, relay, busy, written, acked, got, released, socket>>

(* client.Do fails or times out: the request may be lost, still be on its   *)
(* way (arrives), or have been answered in vain.                            *)
GiveUp(arrives) ==
  /\ pc = "wait" /\ ex.req.kind # "message"
  /\ TimeUp \/ faults < MaxFaults
  /\ faults' = IF TimeUp THEN faults ELSE faults + 1
  /\ wire' = IF arrives THEN wire ELSE wire \ {ex.req}
  /\ IF ex.req.kind = "up" THEN SendFails ELSE pc' = "idle" /\ UNCHANGED lost
  /\ Settled
  /\ UNCHANGED <<inbox, client, expired, relay, busy,
                 written, acked, got, released, socket>>

DeadlinePasses ==
  /\ ~expired /\ pc \notin {"bridge", "session", "transport", "upgrade", "failed"}
  /\ expired' = TRUE
  /\ UNCHANGED <<pc, ex, answer, inbox, client, wire, relay, faults, busy, history, socket>>

-----------------------------------------------------------------------------
(* wsCarrier: the messages of both directions share one TLS connection.     *)

(* writeMessage returns as soon as the connection has taken the message.    *)
SocketWrites ==
  /\ pc = "wait" /\ ex.req.kind = "message" /\ ~expired /\ ~sock.fails
  /\ sock' = [sock EXCEPT !.up = Append(@, ex.req.frames)]
  /\ acked' = IF ex.cont = "write" THEN acked \cup {written} ELSE acked
  /\ pc' = Resume /\ Settled
  /\ UNCHANGED <<inbox, client, expired, wire, relay, faults, busy,
                 written, got, lost, released, mode, message, torn>>

(* A TLS connection on which a write has timed out takes no other.          *)
SocketWriteFails ==
  /\ pc = "wait" /\ ex.req.kind = "message"
  /\ expired \/ sock.fails \/ faults < MaxFaults
  /\ faults' = IF expired \/ sock.fails THEN faults ELSE faults + 1
  /\ sock' = [sock EXCEPT !.fails = TRUE]
  /\ SendFails /\ Settled
  /\ UNCHANGED <<inbox, client, expired, wire, relay, busy,
                 written, acked, got, released, mode, message, torn>>

(* receive returns an error: the fragments it holds are gone.               *)
ReceiveFails == /\ pc' = "idle" /\ message' = <<>>
                /\ torn' = (torn \/ message # <<>>)
                /\ UNCHANGED inbox

(* The last fragment: decodeFrames fails if the bytes do not begin a frame. *)
MessageDone(fragments) ==
  /\ message' = <<>>
  /\ IF fragments[1].begins
     THEN /\ inbox' = FlattenSeq([i \in DOMAIN fragments |-> fragments[i].frames])
          /\ pc' = "frames"
          /\ UNCHANGED torn
     ELSE pc' = "idle" /\ torn' = TRUE /\ UNCHANGED inbox

(* Mutant: a ping resets the message being collected.                       *)
SocketReads_PingResets ==
  /\ pc = "receiving" /\ sock.down # <<>> /\ ~sock.garbled
  /\ LET f == Head(sock.down)
         pongs == f.op = "ping" /\ ~expired /\ ~sock.fails
     IN  /\ sock' = [sock EXCEPT !.down = Tail(@), !.fails = @ \/ (f.op = "ping" /\ ~pongs)]
         /\ CASE pongs -> message' = <<>> /\ UNCHANGED <<pc, torn, inbox>>
              [] f.op = "data" /\ ~f.final -> message' = Append(message, f) /\ UNCHANGED <<pc, torn, inbox>>
              [] f.op = "data" /\ f.final -> MessageDone(Append(message, f))
              [] OTHER -> ReceiveFails
  /\ UNCHANGED <<ex, answer, client, expired, wire, relay, faults, busy, history, mode>>

(* One turn of receive's loop: a ping is answered at once, in the middle of *)
(* a message; Close, text and a pong that cannot be sent are errors;        *)
(* anything else counts as data, whatever it continues.                     *)
SocketReads ==
  /\ pc = "receiving" /\ sock.down # <<>> /\ ~sock.garbled
  /\ LET f == Head(sock.down)
         pongs == f.op = "ping" /\ ~expired /\ ~sock.fails
     IN  /\ sock' = [sock EXCEPT !.down = Tail(@), !.fails = @ \/ (f.op = "ping" /\ ~pongs)]
         /\ CASE pongs -> UNCHANGED <<pc, message, torn, inbox>>
              [] f.op = "data" /\ ~f.final -> message' = Append(message, f) /\ UNCHANGED <<pc, torn, inbox>>
              [] f.op = "data" /\ f.final -> MessageDone(Append(message, f))
              [] OTHER -> ReceiveFails
  /\ UNCHANGED <<ex, answer, client, expired, wire, relay, faults, busy, history, mode>>

(* readFrame begins in the middle of a frame: whatever the bytes say.  One  *)
(* unit that nobody sent is the bound.                                      *)
SocketReadsGarbage(luck) ==
  /\ pc = "receiving" /\ sock.down # <<>> /\ sock.garbled
  /\ sock' = [sock EXCEPT !.down = Tail(@)]
  /\ luck => 0 \notin ToSet(got \o readBuf)
  /\ IF luck THEN pc' = "frames" /\ inbox' = <<Frame("DATA", 0)>> /\ UNCHANGED <<message, torn>>
             ELSE ReceiveFails
  /\ UNCHANGED <<ex, answer, client, expired, wire, relay, faults, busy, history, mode>>

(* The deadline passes or the connection fails, between two WebSocket       *)
(* frames or inside one, of which the part read is gone.                    *)
SocketTimeOut(inFrame) ==
  /\ pc = "receiving" /\ (inFrame => sock.down # <<>>)
  /\ expired \/ faults < MaxFaults
  /\ faults' = IF expired THEN faults ELSE faults + 1
  /\ pc' = "idle" /\ message' = <<>>
  /\ torn' = (torn \/ inFrame \/ message # <<>>)
  /\ sock' = [sock EXCEPT !.garbled = @ \/ inFrame]
  /\ UNCHANGED <<ex, answer, inbox, client, expired, wire, relay, busy, history, mode>>

-----------------------------------------------------------------------------
(* The relay.                                                               *)

Reply(req, a) ==
  /\ wire' = wire \ {req}
  /\ answer' = IF pc = "wait" /\ ex.req = req THEN a ELSE answer
  /\ UNCHANGED <<pc, ex, inbox, client, expired, faults, history, socket>>

Status(s) == [status |-> s]

(* What the DATA frames carry, in order.                                    *)
UnitsOf(frames) ==
  LET upTo[i \in 0..Len(frames)] ==
        IF i = 0 THEN <<>>
        ELSE IF frames[i].kind = "DATA" THEN Append(upTo[i - 1], frames[i].val) ELSE upTo[i - 1]
  IN  upTo[Len(frames)]
CreditOf(frames) == LET w == {k \in 1..Len(frames) : frames[k].kind = "WINDOW"}
                    IN  IF w = {} THEN 0 ELSE frames[CHOOSE k \in w : TRUE].val
Has(frames, k) == \E i \in 1..Len(frames) : frames[i].kind = k

After(frames) == [relay EXCEPT !.open = (@ \/ Has(frames, "OPEN")) /\ ~Has(frames, "CLOSE"),
                               !.up = @ \o UnitsOf(frames),
                               !.credit = @ + CreditOf(frames)]

RelayCommits(req) ==
  /\ req.kind = "up" /\ relay.session = "open" /\ req.seq = relay.seq + 1
  /\ relay' = [After(req.frames) EXCEPT !.seq = req.seq]
  /\ Reply(req, Status("ok")) /\ UNCHANGED busy

RelayRepeats(req) ==   \* already committed
  /\ req.kind = "up" /\ relay.session = "open" /\ req.seq <= relay.seq
  /\ Reply(req, Status("ok")) /\ UNCHANGED <<relay, busy>>

RelaySeesGap(req) ==
  /\ req.kind = "up" /\ relay.session = "open" /\ req.seq > relay.seq + 1
  /\ relay' = [relay EXCEPT !.gap = TRUE]
  /\ Reply(req, Status("gap")) /\ UNCHANGED busy

RelayBusy(req) ==
  /\ req.kind \in {"up", "down"} /\ relay.session = "open" /\ busy < MaxBusy[mode]
  /\ busy' = busy + 1
  /\ Reply(req, Status("busy")) /\ UNCHANGED relay

RelayGone(req) ==
  /\ req.kind \in {"up", "down"} /\ relay.session # "open"
  /\ Reply(req, Status("gone")) /\ UNCHANGED <<relay, busy>>

RelayDelivers(req) ==  \* everything after the cursor, or the first frame of it
  /\ req.kind = "down" /\ relay.session = "open"
  /\ \E k \in {Len(relay.out)} \cup (({req.cursor + 1}) \cap (1..Len(relay.out))) :
       Reply(req, [status |-> "ok", cursor |-> k,
                   frames |-> SubSeq(relay.out, req.cursor + 1, k),
                   lane |-> k = Len(relay.out) /\ Has(relay.out, "CLOSE")])
  /\ UNCHANGED <<relay, busy>>

RelayDeletes(req) ==
  /\ req.kind = "delete"
  /\ relay' = [relay EXCEPT !.session = "deleted", !.open = FALSE]
  /\ Reply(req, Status("ok")) /\ UNCHANGED busy

(* The relay drops the session on its own: a restart, or its idle limit. *)
RelayForgets ==
  /\ relay.session = "open" /\ faults < MaxFaults
  /\ faults' = faults + 1
  /\ relay' = [relay EXCEPT !.session = "deleted", !.open = FALSE]
  /\ UNCHANGED <<pc, ex, answer, inbox, client, expired, wire, busy, history, socket>>

(* Data as far as the credit goes; PING, CLOSE or BYE at any time. *)
RelayProduces(kind) ==
  /\ relay.open /\ Len(relay.out) < MaxOut[mode]
  /\ ~Has(relay.out, "CLOSE") /\ ~Has(relay.out, "BYE")
  /\ kind = "DATA" => relay.credit > 0
  /\ relay' = [relay EXCEPT
       !.out = Append(@, Frame(kind, IF kind = "DATA" THEN Len(UnitsOf(relay.out)) + 1 ELSE 0)),
       !.credit = IF kind = "DATA" THEN @ - 1 ELSE @]
  /\ UNCHANGED <<pc, ex, answer, inbox, client, expired, wire, faults, busy, history, socket>>

(* The relay on a WebSocket. *)
RelayTakes ==
  /\ sock.up # <<>> /\ relay.session = "open"
  /\ relay' = After(Head(sock.up))
  /\ sock' = [sock EXCEPT !.up = Tail(@)]
  /\ UNCHANGED <<pc, ex, answer, inbox, client, expired, wire, faults, busy, history,
                 mode, message, torn>>

Fragment(from, to, final, begins) ==
  [op |-> "data", final |-> final, begins |-> begins, frames |-> SubSeq(relay.out, from + 1, to)]

(* A message with the frames up to to, in one piece or cut behind cut       *)
(* frames, or within the one that follows them.  It arrives when the client *)
(* looks for it, if the session was dropped meanwhile too.                  *)
RelayPushes(cut, to, within) ==
  /\ pc = "receiving"
  /\ relay.pushed <= cut /\ cut <= to /\ relay.pushed < to /\ to <= Len(relay.out)
  /\ within => cut < to
  /\ cut = relay.pushed => within
  /\ sock' = [sock EXCEPT !.down = @ \o
       (IF cut = to THEN <<Fragment(relay.pushed, to, TRUE, TRUE)>>
        ELSE <<Fragment(relay.pushed, cut, FALSE, TRUE), Fragment(cut, to, TRUE, ~within)>>)]
  /\ relay' = [relay EXCEPT !.pushed = to]
  /\ UNCHANGED <<pc, ex, answer, inbox, client, expired, wire, faults, busy, history,
                 mode, message, torn>>

(* Control frames go between messages or fragments.                         *)
RelayInserts(op, i) ==
  /\ pc = "receiving" /\ i \in {Len(sock.down), Len(sock.down) + 1} \ {0}
  /\ CASE op = "ping" -> busy < MaxBusy[mode] /\ busy' = busy + 1 /\ UNCHANGED faults
       [] op = "text" -> faults < MaxFaults /\ faults' = faults + 1 /\ UNCHANGED busy
       [] OTHER -> /\ relay.session # "open" /\ sock.down = <<>>
                   /\ UNCHANGED <<faults, busy>>
  /\ sock' = [sock EXCEPT !.down = InsertAt(@, i, [op |-> op])]
  /\ UNCHANGED <<pc, ex, answer, inbox, client, expired, wire, relay, history,
                 mode, message, torn>>

-----------------------------------------------------------------------------
Dial == \/ \E ok \in BOOLEAN : FetchBridge(ok) \/ Upgrade(ok)
        \/ \E m \in {"none", "https", "ws"} : ChooseTransport(m)
        \/ \E o \in {"refused", "lost", "malformed", "welcome"} : CreateSession(o)

Call == Write \/ Read \/ Close

Step == \/ \E n \in 1..Len(readBuf) : ReadBuffered(n)
        \/ ReadEnds \/ Pump \/ FilePing \/ FileFrame \/ PumpDone
        \/ DeleteSession
        \/ SendDone \/ SendRefused \/ SendBusy
        \/ ReceiveDone \/ ReceiveBusy \/ ReceiveRefused \/ DeleteDone
        \/ \E arrives \in BOOLEAN : GiveUp(arrives)
        \/ SocketWrites \/ SocketWriteFails \/ SocketReads
        \/ \E b \in BOOLEAN : SocketReadsGarbage(b) \/ SocketTimeOut(b)

RelayHandles == \E req \in wire :
                  \/ RelayCommits(req) \/ RelayRepeats(req) \/ RelaySeesGap(req)
                  \/ RelayBusy(req) \/ RelayGone(req)
                  \/ RelayDelivers(req) \/ RelayDeletes(req)

Next == \/ Dial \/ Call \/ Step
        \/ RelayHandles \/ RelayForgets \/ RelayTakes
        \/ \E cut, to \in 0..Len(relay.out), within \in BOOLEAN : RelayPushes(cut, to, within)
        \/ \E op \in {"ping", "text", "close"}, i \in 1..(Len(sock.down) + 1) : RelayInserts(op, i)
        \/ \E k \in {"DATA", "PING", "CLOSE", "BYE"} : RelayProduces(k)
        \/ DeadlinePasses

(* The carrier's own code runs to the end of the call, the network or the   *)
(* relay answers or the request times out, and the deadline that            *)
(* attemptWebProxy sets does pass.  Nobody has to call anything.            *)
Fairness == WF_vars(Dial) /\ WF_vars(Step) /\ WF_vars(RelayHandles) /\ WF_vars(DeadlinePasses)

Spec == Init /\ [][Next]_vars
FairSpec == Spec /\ Fairness

Exchanging == pc = "wait"

(* Data the relay has sent and the caller has not read. *)
Outstanding == Len(UnitsOf(relay.out)) - Len(got)

(* What a WebSocket has taken and the relay has not. *)
Total(ns) == LET upTo[i \in 0..Len(ns)] == IF i = 0 THEN 0 ELSE upTo[i - 1] + ns[i]
             IN  upTo[Len(ns)]
CreditInFlight == Total([k \in DOMAIN sock.up |-> CreditOf(sock.up[k])])
UnitsInFlight == Total([k \in DOMAIN sock.up |-> Len(UnitsOf(sock.up[k]))])

(* Flow control: the relay is never granted more than the caller consumed,  *)
(* and as long as no send failed none of the credit disappears; and a       *)
(* reader that has consumed everything never leaves the relay without any,  *)
(* so the two do not wait for each other: a grant held back below           *)
(* windowGrantMin must not be the last of the credit.                       *)
CreditConserved ==
  LET credit == relay.credit + CreditInFlight
  IN  /\ credit + Outstanding + debt <= Window
      /\ ~Exchanging /\ ~lost /\ ~closed => credit + Outstanding + debt = Window
      /\ pc \in {"reading", "receiving"} /\ ~closed /\ readBuf = <<>> /\ Outstanding = 0 /\ ~lost
           => credit > 0

(* A Write that returned success is at the relay, or in order on its way to *)
(* it over the WebSocket, whatever was repeated, refused, lost or delayed   *)
(* in between; and the relay sees a gap in the uplink sequence only if one  *)
(* of our sends failed, so a refused batch is repeated under its number.    *)
UplinkInOrder == /\ \A m \in acked : m <= Len(relay.up) + UnitsInFlight
                 /\ relay.gap => lost

(* The end of the stream loses nothing: once eof is set, by CLOSE, by BYE   *)
(* (which is also an error) or by X-Lane-Closed, everything the relay sent  *)
(* before it is read, buffered or about to be filed away.                   *)
NoTruncation ==
  eof /\ ~torn => got \o readBuf \o UnitsOf(inbox) = UnitsOf(relay.out)

(* Close over a working network ends the relay session, even when the       *)
(* carrier's deadline has passed and the CLOSE frame could not be sent.     *)
CloseReleases == closed /\ ~Exchanging /\ faults = 0 => relay.session = "deleted"

(* Every call ends: retries, polls and long-polls are all bounded by the    *)
(* deadline.                                                                *)
CallsEnd == pc \notin {"idle", "failed"} ~> pc \in {"idle", "failed"}

(* Dial included: no relay session whose token the client knew is left to   *)
(* expire when the client is done with it (carrier.go:404).  The code does  *)
(* not keep this: a failed Dial leaves one.                                 *)
NoSessionLeft == pc = "failed" /\ token => released

(* "It behaves like a connection, so the MTProto code can run over it       *)
(* unchanged" (carrier.go:69-70): what is read is what was sent, nothing    *)
(* left out.  The code does not keep this over a WebSocket: the fragments   *)
(* a receive held when it gave up are gone, and the rest of the message is  *)
(* taken for a message of its own.                                          *)
NothingSkipped == \A i \in DOMAIN got : got[i] = i

-----------------------------------------------------------------------------
(* The carrier implements the abstract connection. *)
Stream == INSTANCE ByteStream WITH
            received <- relay.up,
            sent <- UnitsOf(relay.out),
            read <- got

ImplementsStream == Stream!Spec
=============================================================================
