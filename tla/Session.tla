------------------------------- MODULE Session -------------------------------
(***************************************************************************)
(* What a full probe does on one connection once the auth key exists       *)
(* (fullHandshake after createAuthKey): a series of pings, the optional    *)
(* API calls, the hold.  One goroutine sends one message at a time and     *)
(* reads packets until it has its answer, an error or the deadline; the    *)
(* server (external) answers when and how it likes, in one packet or       *)
(* several, so answers to calls that gave up arrive in later calls.        *)
(* Message ids are positions in log; log is what a reader of both ends     *)
(* would have written down, and the code decides nothing with it.          *)
(***************************************************************************)
EXTENDS Naturals, Sequences, FiniteSets, SequencesExt

CONSTANTS
  Pings,           \* pings of the series (c.pings())
  HoldPings,       \* most pings a hold has time for, 0 without --hold
  Queries,         \* the API calls asked for: --inspect, --speedtest
  MaxPongReplies,  \* packets ping reads before it gives up (4)
  MaxRPCReplies,   \* maxRPCReplies (16)
  MaxFaults,       \* bound on what the server does unasked
  MaxQueue         \* bound on the packets under way

ASSUME PingsAssumption == Pings \in Nat \ {0}
ASSUME HoldAssumption == HoldPings \in Nat
ASSUME QueriesAssumption == Queries \subseteq {"nearest", "config", "speed"}
ASSUME RepliesAssumption == MaxPongReplies \in Nat \ {0} /\ MaxRPCReplies \in Nat \ {0}
ASSUME BoundsAssumption == MaxFaults \in Nat /\ MaxQueue \in Nat \ {0}

VARIABLES
  stage,     \* the call of fullHandshake under way
  pc,        \* "send" before sendRaw, "wait" in recvRaw
  round,     \* pings done in the stage, or the retry number of invoke
  seen,      \* packets read since the last send
  salt,      \* session.salt
  report,    \* what fullHandshake returns
  verdict,   \* "open", then "live" or "dead"
  line,      \* "up", "torn" in the middle of a packet, "closed" by the peer
  replies,   \* packets on their way to the client
  srvSalt,   \* the salt the server accepts
  faults,    \* what the server has done unasked
  log        \* every message sent, and what became of it

client == <<stage, pc, round, seen, salt, report, verdict>>
server == <<srvSalt, faults>>
vars == <<client, line, replies, server, log>>

-----------------------------------------------------------------------------
(* The stages of fullHandshake, in order.                                  *)

Rank == [ping |-> 1, nearest |-> 2, config |-> 3, speed |-> 4, hold |-> 5, done |-> 6]

Planned == Queries \cup {"ping", "done"} \cup (IF HoldPings > 0 THEN {"hold"} ELSE {})

Following == CHOOSE s \in Planned : /\ Rank[s] > Rank[stage]
                                    /\ \A t \in Planned : Rank[t] > Rank[stage] => Rank[s] <= Rank[t]

Pinging == stage \in {"ping", "hold"}
Cur == Len(log)

-----------------------------------------------------------------------------
(* Packets: one message, or a container of messages.                       *)

Entry(kind, id, s) == [kind |-> kind, id |-> id, salt |-> s]
Single(e) == [box |-> FALSE, es |-> <<e>>]
Box(es) == [box |-> TRUE, es |-> es]

TypeOfEntry == [kind: {"pong", "result", "odd", "rpcerror", "bareerror", "badsalt", "newsession", "noise", "forged"},
                id: Nat, salt: Nat]

ContainsPong_Strict(p, id) ==
  IF \E i \in DOMAIN p.es : p.es[i].kind = "pong" /\ p.es[i].id = id THEN "found"
  ELSE IF ~p.box THEN "error" ELSE "none"

ContainsPong(p, id) ==
  IF \E i \in DOMAIN p.es : p.es[i].kind = "pong" /\ p.es[i].id = id THEN "found"
  ELSE IF ~p.box /\ p.es[1].kind \in {"pong", "bareerror", "forged"} THEN "error"
  ELSE "none"

(* dispatch walks a packet up to the first message that decides the call:  *)
(* the answer to this message id, or any bad_server_salt.                  *)
Decides_AnyResult(e, id) == e.kind \in {"badsalt", "forged", "result", "odd"}

Decides(e, id) ==
  \/ e.kind \in {"badsalt", "forged"}
  \/ e.kind \in {"result", "odd", "rpcerror"} /\ e.id = id

Walked(p, id) ==
  LET hits == {i \in DOMAIN p.es : Decides(p.es[i], id)}
  IN  IF hits = {} THEN p.es ELSE SubSeq(p.es, 1, Min(hits))

Outcome(p, id) ==
  LET last == Last(Walked(p, id))
  IN  IF Decides(last, id)
      THEN CASE last.kind = "badsalt" -> "retry"
             [] last.kind \in {"forged", "rpcerror"} -> "error"
             [] OTHER -> last.kind
      ELSE "none"

(* bad_server_salt and new_session_created both replace session.salt.      *)
SaltAfter_NewSessionOnly(p, id) ==
  LET w == Walked(p, id)
      told == {i \in DOMAIN w : w[i].kind = "newsession"}
  IN  IF told = {} THEN salt ELSE w[Max(told)].salt

SaltAfter(p, id) ==
  LET w == Walked(p, id)
      told == {i \in DOMAIN w : w[i].kind \in {"badsalt", "newsession"}}
  IN  IF told = {} THEN salt ELSE w[Max(told)].salt

-----------------------------------------------------------------------------
(* How a call ends, and where fullHandshake goes from there.               *)

GoTo(s) ==
  /\ stage' = s
  /\ pc' = "send"
  /\ round' = 0
  /\ verdict' = IF s = "done" THEN "live" ELSE verdict

Die == verdict' = "dead" /\ pc' = "send" /\ UNCHANGED <<stage, round>>

SucceedPing ==
  /\ report' = IF stage = "ping" THEN [report EXCEPT !.received = @ + 1] ELSE report
  /\ IF stage = "ping" /\ round + 1 = Pings THEN GoTo(Following)
     ELSE round' = round + 1 /\ pc' = "send" /\ UNCHANGED <<stage, verdict>>

SucceedQuery ==
  /\ report' = [report EXCEPT !.got = @ \cup {stage}]
  /\ GoTo(Following)

Fail_SpeedFatal(r) ==
  /\ report' = IF stage = "hold" THEN [r EXCEPT !.lost = @ + 1] ELSE r
  /\ IF stage \in {"nearest", "speed"} \/ (stage = "ping" /\ round = 0) THEN Die ELSE GoTo(Following)

(* The first ping and help.getNearestDc are fatal, a later ping ends the   *)
(* series, any other failure leaves its field of the report empty.         *)
Fail(r) ==
  /\ report' = IF stage = "hold" THEN [r EXCEPT !.lost = @ + 1] ELSE r
  /\ IF stage = "nearest" \/ (stage = "ping" /\ round = 0) THEN Die ELSE GoTo(Following)

-----------------------------------------------------------------------------
(* The client.                                                             *)

Init ==
  /\ stage = "ping" /\ pc = "send" /\ round = 0 /\ seen = 0 /\ salt = 0
  /\ report = [sent |-> 0, received |-> 0, got |-> {}, lost |-> 0, kept |-> {}]
  /\ verdict = "open"
  /\ line = "up" /\ replies = <<>> /\ srvSalt = 0 /\ faults = 0 /\ log = <<>>

Counted_Never == report

(* pingSeries counts a ping before it is sent.                             *)
Counted == IF stage = "ping" THEN [report EXCEPT !.sent = @ + 1] ELSE report

(* encrypt and sendRaw: a new message id, the salt of the moment.          *)
Send ==
  /\ verdict = "open" /\ pc = "send"
  /\ stage = "hold" => round < HoldPings
  /\ report' = Counted
  /\ log' = Append(log, [stage |-> stage, salt |-> salt, fate |-> "open",
                          credited |-> FALSE, heard |-> FALSE])
  /\ pc' = "wait" /\ seen' = 0
  /\ UNCHANGED <<stage, round, salt, verdict, line, replies, server>>

(* The write fails on a closed connection, and the second copy of a query  *)
(* when the deadline of its call has passed.                               *)
SendFails ==
  /\ verdict = "open" /\ pc = "send"
  /\ line = "closed" \/ (~Pinging /\ round = 1)
  /\ stage = "hold" => round < HoldPings
  /\ Fail(Counted)
  /\ UNCHANGED <<seen, salt, line, replies, server, log>>

(* hold leaves its loop when the time is over, never before the first ping. *)
HoldOver ==
  /\ verdict = "open" /\ pc = "send" /\ stage = "hold" /\ round > 0
  /\ GoTo("done")
  /\ UNCHANGED <<seen, salt, report, line, replies, server, log>>

Waiting == verdict = "open" /\ pc = "wait"

Credit(own, heard) ==
  log' = [i \in DOMAIN log |-> [log[i] EXCEPT !.credited = @ \/ (own /\ i = Cur),
                                              !.heard = @ \/ i \in heard]]

(* One turn of the loop of ping.                                           *)
ReceivePong ==
  /\ Waiting /\ Pinging /\ line # "torn" /\ replies # <<>>
  /\ replies' = Tail(replies)
  /\ seen' = seen + 1
  /\ LET answer == ContainsPong(Head(replies), Cur)
     IN  /\ Credit(answer = "found", {})
         /\ CASE answer = "found" -> SucceedPing
              [] answer = "error" \/ (answer = "none" /\ seen + 1 = MaxPongReplies) -> Fail(report)
              [] OTHER -> UNCHANGED <<stage, pc, round, report, verdict>>
  /\ UNCHANGED <<salt, line, server>>

Retry ==
  IF round = 1 THEN Fail([report EXCEPT !.kept = @ \cup {Cur}])
  ELSE round' = 1 /\ pc' = "send" /\ UNCHANGED <<stage, verdict, report>>

Accepts(answer) == answer = "result" \/ (answer = "odd" /\ stage = "config")

ReceiveResult ==
  /\ Waiting /\ ~Pinging /\ line # "torn" /\ replies # <<>>
  /\ replies' = Tail(replies)
  /\ seen' = seen + 1
  /\ salt' = SaltAfter(Head(replies), Cur)
  /\ LET p == Head(replies)
         answer == Outcome(p, Cur)
     IN  /\ Credit(Accepts(answer), {e.id : e \in {x \in ToSet(Walked(p, Cur)) : x.kind = "badsalt"}})
         /\ CASE Accepts(answer) -> SucceedQuery
              [] answer = "retry" -> Retry
              [] answer = "none" /\ seen + 1 < MaxRPCReplies -> UNCHANGED <<stage, pc, round, report, verdict>>
              [] OTHER -> Fail(report)
  /\ UNCHANGED <<line, server>>

(* recvRaw fails: end of stream, or framing lost in an earlier call.       *)
ReceiveFails ==
  /\ Waiting
  /\ line = "torn" \/ (line = "closed" /\ replies = <<>>)
  /\ Fail(report)
  /\ UNCHANGED <<seen, salt, line, replies, server, log>>

TimeOut_QueriesOnly ==
  /\ Waiting /\ ~Pinging
  /\ \/ UNCHANGED <<line, replies>>
     \/ line # "torn" /\ replies # <<>> /\ line' = "torn" /\ replies' = Tail(replies)
  /\ Fail(report)
  /\ UNCHANGED <<seen, salt, server, log>>

(* The deadline of the call passes, perhaps in the middle of a packet: what *)
(* was read of it is gone, and the next call starts inside it.             *)
TimeOut ==
  /\ Waiting
  /\ \/ UNCHANGED <<line, replies>>
     \/ line # "torn" /\ replies # <<>> /\ line' = "torn" /\ replies' = Tail(replies)
  /\ Fail(report)
  /\ UNCHANGED <<seen, salt, server, log>>

Client == \/ Send \/ SendFails \/ HoldOver \/ ReceivePong \/ ReceiveResult
          \/ ReceiveFails \/ TimeOut

-----------------------------------------------------------------------------
(* The server behind the proxy, and the proxy: what the client must expect. *)

Answers(i) ==
  LET kinds == IF log[i].salt # srvSalt THEN {"badsalt"}
               ELSE IF log[i].stage \in {"ping", "hold"} THEN {"pong", "bareerror"}
               ELSE {"result", "odd", "rpcerror"}
  IN  {Entry(k, i, srvSalt) : k \in kinds}

Fate(e) == IF e.kind \in {"pong", "result", "odd"} THEN "served"
           ELSE IF e.kind = "badsalt" THEN "rejected" ELSE "refused"

Open == {i \in DOMAIN log : log[i].fate = "open"}

Room == verdict = "open" /\ line # "closed" /\ Len(replies) < MaxQueue

News == {Entry("noise", 0, srvSalt), Entry("newsession", 0, srvSalt)}

(* One message is answered, alone or behind a service message.             *)
Serve ==
  /\ Room
  /\ \E i \in Open : \E e \in Answers(i) :
       /\ \E p \in {Single(e)} \cup {Box(<<n, e>>) : n \in News} : replies' = Append(replies, p)
       /\ log' = [log EXCEPT ![i].fate = Fate(e)]
  /\ UNCHANGED <<client, line, server>>

(* Two messages are answered in one container, in either order.            *)
ServeTwo ==
  /\ Room
  /\ \E i, j \in Open : i # j /\ \E e \in Answers(i), f \in Answers(j) :
       /\ replies' = Append(replies, Box(<<e, f>>))
       /\ log' = [log EXCEPT ![i].fate = Fate(e), ![j].fate = Fate(f)]
  /\ UNCHANGED <<client, line, server>>

(* A service message nobody asked for, or a packet that does not decrypt.  *)
Push ==
  /\ Room /\ faults < MaxFaults
  /\ faults' = faults + 1
  /\ \E e \in News \cup {Entry("forged", 0, 0)} : replies' = Append(replies, Single(e))
  /\ UNCHANGED <<client, line, srvSalt, log>>

(* The server stops accepting the salt it accepted so far.                 *)
Rotate ==
  /\ verdict = "open" /\ faults < MaxFaults
  /\ faults' = faults + 1 /\ srvSalt' = srvSalt + 1
  /\ UNCHANGED <<client, line, replies, log>>

Close ==
  /\ verdict = "open" /\ line = "up"
  /\ line' = "closed"
  /\ replies' \in {replies, <<>>}
  /\ UNCHANGED <<client, server, log>>

Server == Serve \/ ServeTwo \/ Push \/ Rotate \/ Close

(* The probe returns and its deferred conn.Close ends the session.         *)
Returned == verdict # "open" /\ UNCHANGED vars

Next == Client \/ Server \/ Returned

Spec == Init /\ [][Next]_vars

(* Every read and write of the client has a deadline; the peer owes nothing. *)
FairSpec == Spec /\ WF_vars(Client)

-----------------------------------------------------------------------------

(* A call takes as its answer only what the server said to its own message: *)
(* the late pong of an abandoned ping and the late rpc_result of an        *)
(* abandoned query never pass for an answer of the next call.              *)
OwnAnswers == \A i \in DOMAIN log : log[i].credited => log[i].fate = "served"

(* The report is what happened: as many pongs as pings credited, a field   *)
(* for each query credited, and the session of a hold is lost exactly when *)
(* one of its pings could not be sent or was not credited.  A ping that was *)
(* not credited may still have been served: HoldLossExplained says when.   *)
CreditedIn(s) == {i \in DOMAIN log : log[i].stage = s /\ log[i].credited}

ReportHonest ==
  /\ report.received = Cardinality(CreditedIn("ping"))
  /\ report.received <= report.sent
  /\ \A q \in Queries : q \in report.got <=> CreditedIn(q) # {}
  /\ verdict = "live" /\ HoldPings > 0 =>
       IF report.lost = 0
       THEN CreditedIn("hold") # {} /\ \A i \in DOMAIN log : log[i].stage = "hold" => log[i].credited
       ELSE line = "closed" \/ \E i \in DOMAIN log : log[i].stage = "hold" /\ ~log[i].credited

(* On a line that is up and before the deadline, a packet ends a hold only *)
(* if it is an error, exhausts the budget of packets, or is the late pong  *)
(* of a ping the series had given up: a series with every pong received    *)
(* leaves nothing behind that a hold could trip over.                      *)
GivenUp == {i \in DOMAIN log : log[i].stage = "ping" /\ ~log[i].credited}

EndsHold(p) ==
  \/ seen + 1 = MaxPongReplies
  \/ ~p.box /\ p.es[1].kind \in {"bareerror", "forged"}
  \/ ~p.box /\ p.es[1].kind = "pong" /\ p.es[1].id \in GivenUp

HoldLossExplained ==
  [][report'.lost > report.lost /\ line = "up" /\ line' = "up" /\ replies' # replies
     => EndsHold(Head(replies))]_vars

(* A probe is live only after a pong of its own, and with nearestDc when it *)
(* was asked; it dies of its first ping or of nearestDc and of nothing else. *)
VerdictEarned ==
  /\ verdict = "live" => /\ CreditedIn("ping") # {}
                         /\ "nearest" \in Queries => "nearest" \in report.got
  /\ verdict = "dead" => \/ stage = "ping" /\ report.received = 0
                         \/ stage = "nearest" /\ report.received > 0

(* When the first copy of a query was itself rejected, the second carries a *)
(* newer salt, so the server does not reject it for the same reason.       *)
SecondCopyIsNewer ==
  [][Len(log') > Len(log) /\ ~Pinging /\ round = 1 /\ log[Cur].heard
     => log'[Cur'].salt > log[Cur].salt]_vars

(* The session ends whatever the peer does: every wait has a deadline.     *)
SessionEnds == <>(verdict # "open")

-----------------------------------------------------------------------------
(* What the repository says, and the code does not do.                     *)

(* probe.go:487-488: the optional stages "must not turn a live proxy dead". *)
LiveStaysLive == report.received > 0 => verdict # "dead"

(* audit.go:199-200: a hold "to catch proxies that drop or degrade", so one *)
(* whose ping was served is not ended by the pong of another               *)
(* (session.go:183-184).                                                   *)
HoldNotMistaken ==
  [][report'.lost > report.lost /\ line = "up" /\ replies' # replies /\ line' = "up"
     => ~(~Head(replies).box /\ Head(replies).es[1].kind = "pong" /\ log[Cur].fate = "served")]_vars

(* api.go:96: "server kept rejecting the salt": both copies were rejected. *)
KeptMeansBoth == \A i \in report.kept : log[i].fate = "rejected" /\ log[i - 1].fate = "rejected"

=============================================================================
