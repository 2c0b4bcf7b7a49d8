--------------------------- MODULE Session_proofs ---------------------------
(***************************************************************************)
(* Proofs about Session for every number of pings and hold pings, every    *)
(* set of API calls, every budget of replies, and whatever the server and  *)
(* the proxy do, in whatever order: a call credits only its own answer,    *)
(* the report is what happened, a verdict is earned, a retried query       *)
(* carries a newer salt, and what ends a hold can be told.                 *)
(***************************************************************************)
EXTENDS Session, FiniteSetTheorems, TLAPS

-----------------------------------------------------------------------------
(* The inductive invariant, in parts.                                      *)

PacketType == {p \in [box : BOOLEAN, es : Seq(TypeOfEntry)] : Len(p.es) \in 1..2}

LogType == [stage : Planned, salt : Nat, fate : {"open", "served", "rejected", "refused"},
            credited : BOOLEAN, heard : BOOLEAN]

ReportType == [sent : Nat, received : Nat, got : SUBSET Queries, lost : Nat, kept : SUBSET Nat]

StageTypes == /\ stage \in Planned /\ pc \in {"send", "wait"} /\ round \in Nat
              /\ report \in ReportType /\ verdict \in {"open", "live", "dead"}

Types ==
  /\ StageTypes
  /\ seen \in Nat /\ salt \in Nat /\ srvSalt \in Nat /\ faults \in Nat
  /\ line \in {"up", "torn", "closed"}
  /\ replies \in Seq(PacketType) /\ log \in Seq(LogType)

(* What an answer on its way says is true: an answer names a message the   *)
(* server took, a refusal of a salt one that carried an older salt.        *)
Vouched(e) ==
  /\ e.kind \in {"pong", "result", "odd"} => e.id \in DOMAIN log /\ log[e.id].fate = "served"
  /\ e.kind = "badsalt" => e.id \in DOMAIN log /\ log[e.id].salt < e.salt
  /\ e.kind \in {"badsalt", "newsession"} => e.salt <= srvSalt

Messages == \A k \in DOMAIN replies : \A i \in DOMAIN replies[k].es : Vouched(replies[k].es[i])

Salts == salt <= srvSalt /\ \A i \in DOMAIN log : log[i].salt <= srvSalt

(* The message whose answer is awaited is the last of the log, of this     *)
(* stage, and nothing was heard of it; a query is sent again only after a  *)
(* refusal, and if that was of this message, with the salt it told.        *)
Waits ==
  /\ Waiting => /\ log # <<>> /\ log[Cur].stage = stage
                /\ ~log[Cur].credited /\ ~log[Cur].heard
  /\ verdict = "open" /\ ~Pinging => round \in {0, 1}
  /\ verdict = "open" /\ pc = "send" /\ ~Pinging /\ round = 1 /\ log # <<>> /\ log[Cur].heard
       => log[Cur].salt < salt

(* Where fullHandshake is, and what it has by then.                        *)
Flow ==
  /\ stage = "done" <=> verdict = "live"
  /\ IF stage = "ping" THEN report.received = round ELSE report.received > 0
  /\ verdict = "dead" => (stage = "ping" /\ round = 0) \/ stage = "nearest"
  /\ "nearest" \in Queries /\ Rank[stage] > 2 => "nearest" \in report.got
  /\ report.received <= report.sent
  /\ Waiting /\ stage = "ping" => report.received < report.sent

Ahead == \A i \in DOMAIN log : Rank[log[i].stage] <= Rank[stage]

(* The report counts what the log credits.                                 *)
Tally ==
  /\ report.received = Cardinality(CreditedIn("ping"))
  /\ \A q \in Queries : q \in report.got <=> CreditedIn(q) # {}

HoldJudged ==
  IF report.lost = 0
  THEN CreditedIn("hold") # {} /\ \A i \in DOMAIN log : log[i].stage = "hold" => log[i].credited
  ELSE line = "closed" \/ \E i \in DOMAIN log : log[i].stage = "hold" /\ ~log[i].credited

Held ==
  /\ stage # "done" => report.lost = 0
  /\ stage = "hold" => /\ \A i \in DOMAIN log : log[i].stage = "hold" => log[i].credited \/ (Waiting /\ i = Cur)
                       /\ round > 0 => CreditedIn("hold") # {}
  /\ verdict = "live" /\ HoldPings > 0 => HoldJudged

Progress == Waits /\ Flow /\ Ahead /\ Tally /\ Held

IInv == Types /\ Messages /\ Salts /\ Progress /\ OwnAnswers

-----------------------------------------------------------------------------
(* The stages and the packets.                                             *)

LEMMA Ranks ==
  /\ Rank["ping"] = 1 /\ Rank["nearest"] = 2 /\ Rank["config"] = 3
  /\ Rank["speed"] = 4 /\ Rank["hold"] = 5 /\ Rank["done"] = 6
BY DEF Rank

LEMMA PlannedStages ==
  /\ Planned \subseteq {"ping", "nearest", "config", "speed", "hold", "done"}
  /\ "ping" \in Planned /\ "done" \in Planned /\ Queries \subseteq Planned
  /\ HoldPings > 0 => "hold" \in Planned
  /\ \A q \in Queries : q \notin {"ping", "hold", "done"}
  /\ \A s \in Planned : s \in Queries \/ s \in {"ping", "hold", "done"}
  /\ \A s \in Planned : Rank[s] \in 1..6
BY Ranks, QueriesAssumption DEF Planned

(* The stages come in order and none that is planned is left out.          *)
LEMMA FollowingIsNext ==
  ASSUME stage \in Planned, stage # "done"
  PROVE  /\ Following \in Planned /\ Rank[stage] < Rank[Following]
         /\ \A t \in Planned : Rank[t] > Rank[stage] => Rank[Following] <= Rank[t]
<1> DEFINE Later(s) == s \in Planned /\ Rank[s] > Rank[stage]
           Least(s) == Later(s) /\ \A t \in Planned : Rank[t] > Rank[stage] => Rank[s] <= Rank[t]
<1>1. Later("done")
  BY Ranks, PlannedStages
<1>2. CASE Later("nearest")
  <2>1. Least("nearest")
    BY <1>2, Ranks, PlannedStages
  <2> QED BY <2>1 DEF Following
<1>3. CASE ~Later("nearest") /\ Later("config")
  <2>1. Least("config")
    BY <1>3, Ranks, PlannedStages
  <2> QED BY <2>1 DEF Following
<1>4. CASE ~Later("nearest") /\ ~Later("config") /\ Later("speed")
  <2>1. Least("speed")
    BY <1>4, Ranks, PlannedStages
  <2> QED BY <2>1 DEF Following
<1>5. CASE ~Later("nearest") /\ ~Later("config") /\ ~Later("speed") /\ Later("hold")
  <2>1. Least("hold")
    BY <1>5, Ranks, PlannedStages
  <2> QED BY <2>1 DEF Following
<1>6. CASE ~Later("nearest") /\ ~Later("config") /\ ~Later("speed") /\ ~Later("hold")
  <2>1. Least("done")
    BY <1>1, <1>6, Ranks, PlannedStages
  <2> QED BY <2>1 DEF Following
<1> QED BY <1>2, <1>3, <1>4, <1>5, <1>6

(* What is reached by going on.                                            *)
LEMMA Onward ==
  ASSUME stage \in Planned, stage # "done", verdict = "open", GoTo(Following)
  PROVE  /\ stage' \in Planned /\ Rank[stage] < Rank[stage'] /\ stage' # "ping"
         /\ pc' = "send" /\ round' = 0 /\ verdict' \in {"open", "live"}
         /\ stage' = "done" <=> verdict' = "live"
         /\ "nearest" \in Queries /\ Rank[stage'] > 2 => Rank[stage] >= 2
         /\ HoldPings > 0 /\ stage' = "done" => stage = "hold"
<1>1. /\ stage' = Following /\ pc' = "send" /\ round' = 0
      /\ verdict' = IF Following = "done" THEN "live" ELSE verdict
  BY DEF GoTo
<1>2. /\ stage' \in Planned /\ Rank[stage] < Rank[stage']
      /\ \A t \in Planned : Rank[t] > Rank[stage] => Rank[stage'] <= Rank[t]
  BY <1>1, FollowingIsNext
<1> QED BY <1>1, <1>2, Ranks, PlannedStages

LEMMA PacketParts ==
  ASSUME Types, replies # <<>>
  PROVE  /\ Head(replies) \in PacketType /\ Tail(replies) \in Seq(PacketType)
         /\ Len(Head(replies).es) \in 1..2 /\ Head(replies).es \in Seq(TypeOfEntry)
         /\ Head(replies) = replies[1] /\ 1 \in DOMAIN replies
         /\ \A k \in DOMAIN Tail(replies) : k + 1 \in DOMAIN replies /\ Tail(replies)[k] = replies[k + 1]
BY DEF Types, PacketType

LEMMA MinIs ==
  ASSUME NEW S, NEW m \in S, \A j \in S : m <= j
  PROVE  Min(S) \in S /\ \A j \in S : Min(S) <= j
<1>1. \E x \in S : \A y \in S : x <= y
  OBVIOUS
<1> QED BY <1>1, Zenon DEF Min

LEMMA MaxIs ==
  ASSUME NEW S, NEW m \in S, \A j \in S : m >= j
  PROVE  Max(S) \in S /\ \A j \in S : Max(S) >= j
<1>1. \E x \in S : \A y \in S : x >= y
  OBVIOUS
<1> QED BY <1>1, Zenon DEF Max

LEMMA LeastOfTwo ==
  ASSUME NEW S \in SUBSET (1..2), S # {}
  PROVE  /\ Min(S) \in S /\ \A j \in S : Min(S) <= j
         /\ Max(S) \in S /\ \A j \in S : Max(S) >= j
<1>1. \A j \in S : 1 <= j /\ 2 >= j /\ (j = 1 \/ j = 2)
  OBVIOUS
<1>2. CASE 1 \in S /\ 2 \in S
  BY <1>1, <1>2, MinIs, MaxIs
<1>3. CASE 1 \notin S
  <2>1. 2 \in S /\ \A j \in S : 2 <= j
    BY <1>1, <1>3
  <2> QED BY <1>1, <2>1, MinIs, MaxIs
<1>4. CASE 2 \notin S
  <2>1. 1 \in S /\ \A j \in S : 1 >= j
    BY <1>1, <1>4
  <2> QED BY <1>1, <2>1, MinIs, MaxIs
<1> QED BY <1>2, <1>3, <1>4

LEMMA Beginning ==
  ASSUME NEW S, NEW s \in Seq(S), NEW m \in 1..Len(s)
  PROVE  /\ SubSeq(s, 1, m) \in Seq(S) /\ Len(SubSeq(s, 1, m)) = m
         /\ \A i \in 1..m : SubSeq(s, 1, m)[i] = s[i]
<1>1. m \in Nat /\ m >= 1 /\ Len(s) \in Nat /\ m <= Len(s)
  OBVIOUS
<1>2. SubSeq(s, 1, m) \in Seq(S)
  BY <1>1
<1>3. Len(SubSeq(s, 1, m)) = m
  BY <1>1
<1>4. \A i \in 1..m : SubSeq(s, 1, m)[i] = s[i]
  BY <1>1
<1> QED BY <1>2, <1>3, <1>4

(* The part of a packet that dispatch reads: the packet, or what comes     *)
(* before its first deciding message, and that.                            *)
LEMMA WalkedPart ==
  ASSUME NEW p \in PacketType, NEW id
  PROVE  /\ Walked(p, id) \in Seq(TypeOfEntry) /\ Len(Walked(p, id)) \in 1..2
         /\ \A i \in DOMAIN Walked(p, id) : i \in DOMAIN p.es /\ Walked(p, id)[i] = p.es[i]
         /\ \A i \in DOMAIN Walked(p, id) : i < Len(Walked(p, id)) => ~Decides(Walked(p, id)[i], id)
<1> DEFINE hits == {i \in DOMAIN p.es : Decides(p.es[i], id)}
<1>1. p.es \in Seq(TypeOfEntry) /\ Len(p.es) \in 1..2 /\ DOMAIN p.es = 1..Len(p.es)
  BY DEF PacketType
<1>2. CASE hits = {}
  <2>1. Walked(p, id) = p.es
    BY <1>2 DEF Walked
  <2> QED BY <1>1, <1>2, <2>1
<1>3. CASE hits # {}
  <2> DEFINE m == Min(hits)
  <2>1. hits \in SUBSET (1..2) /\ \A i \in 1..Len(p.es) : i \in hits <=> Decides(p.es[i], id)
    BY <1>1
  <2>2. Walked(p, id) = SubSeq(p.es, 1, m)
    BY <1>3 DEF Walked
  <2>3. hits \subseteq 1..Len(p.es)
    BY <1>1
  <2> HIDE DEF hits
  <2>4. m \in hits /\ \A j \in hits : m <= j
    BY <1>3, <2>1, LeastOfTwo
  <2> HIDE DEF m
  <2>6. m \in 1..Len(p.es) /\ \A i \in 1..Len(p.es) : i < m => ~Decides(p.es[i], id)
    BY <1>1, <2>1, <2>3, <2>4
  <2>5. SubSeq(p.es, 1, m) \in Seq(TypeOfEntry) /\ Len(SubSeq(p.es, 1, m)) = m
        /\ \A i \in 1..m : SubSeq(p.es, 1, m)[i] = p.es[i]
    BY <1>1, <2>6, Beginning
  <2> QED BY <1>1, <2>2, <2>5, <2>6
<1> QED BY <1>2, <1>3

(* What dispatch makes of the packet.                                      *)
LEMMA OutcomeOf ==
  ASSUME Types, Messages, replies # <<>>, Waiting
  PROVE  LET p == Head(replies)
             heard == {e.id : e \in {x \in ToSet(Walked(p, Cur)) : x.kind = "badsalt"}}
             o == Outcome(p, Cur)
         IN  /\ Accepts(o) => Cur \in DOMAIN log /\ log[Cur].fate = "served"
             /\ o = "retry" => (Cur \in heard => Cur \in DOMAIN log /\ log[Cur].salt < SaltAfter(p, Cur))
             /\ o # "retry" => heard = {}
             /\ SaltAfter(p, Cur) = salt \/ (SaltAfter(p, Cur) \in Nat /\ SaltAfter(p, Cur) <= srvSalt)
<1> DEFINE p == Head(replies)
           w == Walked(p, Cur)
           heard == {e.id : e \in {x \in ToSet(w) : x.kind = "badsalt"}}
           told == {i \in DOMAIN w : w[i].kind \in {"badsalt", "newsession"}}
           n == Len(w)
<1>1. /\ p \in PacketType /\ w \in Seq(TypeOfEntry) /\ n \in 1..2 /\ DOMAIN w = 1..n
      /\ \A i \in 1..n : i < n => ~Decides(w[i], Cur)
      /\ \A i \in 1..n : i \in DOMAIN p.es /\ w[i] = p.es[i]
  BY PacketParts, WalkedPart
<1>2. \A i \in 1..n : Vouched(w[i]) /\ w[i] \in TypeOfEntry
  <2>1. p = replies[1] /\ 1 \in DOMAIN replies
    BY PacketParts
  <2> QED BY <1>1, <2>1 DEF Messages
<1>3. Last(w) = w[n]
  BY DEF Last
<1> HIDE DEF w, p, n
<1>4. Outcome(p, Cur) = IF Decides(w[n], Cur)
                        THEN CASE w[n].kind = "badsalt" -> "retry"
                               [] w[n].kind \in {"forged", "rpcerror"} -> "error"
                               [] OTHER -> w[n].kind
                        ELSE "none"
  BY <1>3 DEF Outcome, w
<1>5. SaltAfter(p, Cur) = IF told = {} THEN salt ELSE w[Max(told)].salt
  BY DEF SaltAfter, w
<1>6. told # {} => Max(told) \in told /\ \A j \in told : Max(told) >= j
  <2>1. told \in SUBSET (1..2)
    BY <1>1
  <2> HIDE DEF told
  <2> QED BY <2>1, LeastOfTwo
<1>7. Accepts(Outcome(p, Cur)) => Cur \in DOMAIN log /\ log[Cur].fate = "served"
  <2> SUFFICES ASSUME Accepts(Outcome(p, Cur)) PROVE Cur \in DOMAIN log /\ log[Cur].fate = "served"
    OBVIOUS
  <2>1. Outcome(p, Cur) \in {"result", "odd"}
    BY DEF Accepts
  <2>2. w[n].kind \in {"result", "odd"} /\ w[n].id = Cur
    BY <1>4, <2>1 DEF Decides
  <2> QED BY <1>1, <1>2, <2>2 DEF Vouched
<1>8. \A i \in 1..n : w[i].kind = "badsalt" => i = n /\ Outcome(p, Cur) = "retry"
  BY <1>1, <1>4 DEF Decides
<1>9. ToSet(w) = {w[i] : i \in 1..n}
  BY <1>1 DEF ToSet
<1>10. \A id \in heard : w[n].kind = "badsalt" /\ id = w[n].id
  BY <1>8, <1>9
<1>11. SaltAfter(p, Cur) = salt \/ (SaltAfter(p, Cur) \in Nat /\ SaltAfter(p, Cur) <= srvSalt)
  <2>1. CASE told # {}
    <3>1. Max(told) \in 1..n /\ w[Max(told)].kind \in {"badsalt", "newsession"}
      BY <1>1, <1>6, <2>1
    <3> QED BY <1>2, <1>5, <2>1, <3>1 DEF Vouched, TypeOfEntry
  <2> QED BY <1>5, <2>1
<1>12. ASSUME Cur \in heard PROVE Cur \in DOMAIN log /\ log[Cur].salt < SaltAfter(p, Cur)
  <2>1. w[n].kind = "badsalt" /\ w[n].id = Cur
    BY <1>10, <1>12
  <2>2. n \in told /\ told \subseteq 1..n
    BY <1>1, <2>1
  <2>3. Max(told) = n
    <3>1. Max(told) \in 1..n /\ Max(told) >= n
      BY <1>6, <2>2
    <3> QED BY <1>1, <3>1
  <2>4. SaltAfter(p, Cur) = w[n].salt
    BY <1>5, <2>2, <2>3
  <2> QED BY <1>1, <1>2, <2>1, <2>4 DEF Vouched
<1>13. Outcome(p, Cur) # "retry" => heard = {}
  BY <1>8, <1>10, <1>1
<1> QED BY <1>7, <1>11, <1>12, <1>13 DEF p, w

-----------------------------------------------------------------------------
(* The log.                                                                *)

(* Nothing is sent and nothing answered: only what the client makes of the *)
(* messages changes.                                                       *)
LogSame ==
  /\ log' \in Seq(LogType) /\ Len(log') = Len(log)
  /\ \A i \in DOMAIN log : /\ log'[i].stage = log[i].stage
                           /\ log'[i].salt = log[i].salt /\ log'[i].fate = log[i].fate

CreditsSame == \A i \in DOMAIN log : log'[i].credited = log[i].credited

LEMMA LogParts ==
  ASSUME Types
  PROVE  /\ Len(log) \in Nat /\ DOMAIN log = 1..Len(log) /\ Cur = Len(log)
         /\ log # <<>> <=> Cur \in DOMAIN log
         /\ \A i \in DOMAIN log : log[i] \in LogType
BY DEF Types, Cur

LEMMA CreditLog ==
  ASSUME Types, NEW own \in BOOLEAN, NEW H, Credit(own, H)
  PROVE  /\ LogSame
         /\ \A i \in DOMAIN log : /\ log'[i].credited <=> (log[i].credited \/ (own /\ i = Cur))
                                  /\ log'[i].heard <=> (log[i].heard \/ i \in H)
         /\ ~own => CreditsSame
<1> DEFINE new(i) == [log[i] EXCEPT !.credited = log[i].credited \/ (own /\ i = Cur),
                                    !.heard = log[i].heard \/ i \in H]
<1>1. log' = [i \in DOMAIN log |-> new(i)]
  BY DEF Credit
<1>2. ASSUME NEW i \in DOMAIN log
      PROVE  /\ new(i) \in LogType
             /\ new(i).stage = log[i].stage /\ new(i).salt = log[i].salt /\ new(i).fate = log[i].fate
             /\ new(i).credited <=> (log[i].credited \/ (own /\ i = Cur))
             /\ new(i).heard <=> (log[i].heard \/ i \in H)
             /\ ~own => new(i).credited = log[i].credited
  BY LogParts DEF LogType
<1> HIDE DEF new
<1>3. DOMAIN log = 1..Len(log) /\ Len(log) \in Nat
  BY LogParts
<1>4. log' \in Seq(LogType) /\ Len(log') = Len(log)
  BY <1>1, <1>2, <1>3
<1>5. \A i \in DOMAIN log : log'[i] = new(i)
  BY <1>1
<1> QED BY <1>2, <1>4, <1>5 DEF LogSame, CreditsSame

LEMMA UnchangedLog ==
  ASSUME Types, log' = log
  PROVE  LogSame /\ CreditsSame
BY DEF Types, LogSame, CreditsSame

(* What was said stays true.                                               *)
LEMMA VouchedKept ==
  ASSUME NEW e, Vouched(e), e.salt \in Nat, srvSalt \in Nat, srvSalt' \in Nat, srvSalt <= srvSalt',
         DOMAIN log \subseteq DOMAIN log',
         \A i \in DOMAIN log : /\ log'[i].salt = log[i].salt
                               /\ log[i].fate = "served" => log'[i].fate = "served"
  PROVE  Vouched(e)'
BY DEF Vouched

(* A packet is read, or none.                                              *)
LEMMA ReadingKeeps ==
  ASSUME Types, Messages, Salts, OwnAnswers, LogSame, srvSalt' = srvSalt,
         replies' = replies \/ (replies # <<>> /\ replies' = Tail(replies)),
         salt' = salt \/ (salt' \in Nat /\ salt' <= srvSalt),
         \A i \in DOMAIN log : log'[i].credited => log[i].credited \/ log[i].fate = "served"
  PROVE  /\ Messages' /\ Salts' /\ OwnAnswers'
         /\ replies' \in Seq(PacketType) /\ salt' \in Nat /\ srvSalt' \in Nat /\ log' \in Seq(LogType)
<1>1. DOMAIN log' = DOMAIN log /\ \A i \in DOMAIN log : log[i] \in LogType
  BY LogParts DEF LogSame
<1>2. /\ replies' \in Seq(PacketType)
      /\ \A k \in DOMAIN replies' : \E j \in DOMAIN replies : replies'[k] = replies[j]
  BY PacketParts DEF Types
<1>3. ASSUME NEW k \in DOMAIN replies', NEW i \in DOMAIN replies'[k].es PROVE Vouched(replies[k].es[i])'
  <2>1. PICK j \in DOMAIN replies : replies'[k] = replies[j]
    BY <1>2
  <2>2. replies[j] \in PacketType /\ i \in DOMAIN replies[j].es
    BY <2>1 DEF Types
  <2> DEFINE e == replies[j].es[i]
  <2>3. Vouched(e) /\ e \in TypeOfEntry
    BY <2>2 DEF Messages, PacketType
  <2>4. PICK f \in TypeOfEntry : f = e
    BY <2>3
  <2>5. Vouched(f)'
    <3>1. Vouched(f) /\ f.salt \in Nat
      BY <2>3, <2>4 DEF TypeOfEntry
    <3> QED BY <1>1, <3>1, VouchedKept DEF Types, LogSame
  <2>6. f = replies'[k].es[i]
    BY <2>1, <2>4
  <2> QED BY <2>5, <2>6
<1>4. Messages'
  BY <1>3 DEF Messages
<1>5. Salts'
  BY <1>1 DEF Salts, LogSame
<1>6. OwnAnswers'
  BY <1>1 DEF OwnAnswers, LogSame
<1> QED BY <1>2, <1>4, <1>5, <1>6 DEF Types, LogSame

(* Who is credited.                                                        *)
LEMMA CreditedSets ==
  ASSUME Types, NEW s
  PROVE  CreditedIn(s) \subseteq DOMAIN log /\ IsFiniteSet(CreditedIn(s)) /\ Cardinality(CreditedIn(s)) \in Nat
<1>1. Len(log) \in Nat /\ DOMAIN log = 1..Len(log)
  BY LogParts
<1>2. IsFiniteSet(1..Len(log))
  BY <1>1, FS_Interval
<1>3. CreditedIn(s) \in SUBSET (1..Len(log))
  BY <1>1 DEF CreditedIn
<1>4. IsFiniteSet(CreditedIn(s))
  BY <1>2, <1>3, FS_Subset
<1> QED BY <1>1, <1>3, <1>4, FS_CardinalityType

LEMMA SameCredited ==
  ASSUME Types, LogSame, CreditsSame, NEW s
  PROVE  CreditedIn(s)' = CreditedIn(s)
BY LogParts DEF CreditedIn, LogSame, CreditsSame

-----------------------------------------------------------------------------
(* How a call ends.                                                        *)

LEMMA SameLogAhead ==
  ASSUME Types, LogSame, Ahead, stage' \in Planned, Rank[stage] <= Rank[stage']
  PROVE  Ahead' /\ (Rank[stage] < Rank[stage'] => \A i \in DOMAIN log' : log'[i].stage # stage')
<1>1. DOMAIN log' = DOMAIN log /\ \A i \in DOMAIN log : log'[i].stage = log[i].stage
  BY LogParts DEF LogSame
<1>2. \A i \in DOMAIN log : log[i].stage \in Planned
  BY LogParts DEF LogType
<1>3. stage \in Planned
  BY DEF Types, StageTypes
<1>4. \A i \in DOMAIN log' : Rank[log'[i].stage] <= Rank[stage]
  BY <1>1 DEF Ahead
<1>5. \A s \in Planned : Rank[s] \in Int
  BY PlannedStages
<1> QED BY <1>1, <1>2, <1>3, <1>4, <1>5 DEF Ahead

(* A call fails: the stage is over, or the probe.                          *)
LEMMA FailStep ==
  ASSUME IInv, verdict = "open", LogSame, CreditsSame,
         NEW r \in ReportType, r.received = report.received, r.got = report.got,
         r.lost = report.lost, r.sent >= report.sent, Fail(r),
         stage = "hold" => line' = "closed" \/ Waiting
  PROVE  StageTypes' /\ Progress'
<1>1. /\ Types /\ StageTypes /\ Waits /\ Flow /\ Ahead /\ Tally /\ Held
  BY DEF IInv, Types, Progress
<1>2. /\ stage \in Planned /\ stage # "done" /\ round \in Nat /\ report \in ReportType
      /\ report.lost = 0 /\ report.received \in Nat /\ report.sent \in Nat /\ r.sent \in Nat
  BY <1>1 DEF StageTypes, Flow, Held, ReportType
<1>3. \A s : CreditedIn(s)' = CreditedIn(s)
  BY <1>1, SameCredited
<1>4. CASE stage = "nearest" \/ (stage = "ping" /\ round = 0)
  <2>1. /\ report' = r /\ verdict' = "dead" /\ pc' = "send" /\ stage' = stage /\ round' = round
    BY <1>4 DEF Fail, Die
  <2>2. StageTypes'
    BY <1>2, <2>1 DEF StageTypes
  <2>3. Waits' /\ Held'
    BY <1>2, <1>4, <2>1 DEF Waits, Held, Waiting
  <2>4. Flow'
    BY <1>1, <1>2, <1>4, <2>1, Ranks DEF Flow, Waiting
  <2>5. Ahead'
    BY <1>1, <1>2, <2>1, SameLogAhead, PlannedStages
  <2>6. Tally'
    BY <1>1, <1>3, <2>1 DEF Tally
  <2> QED BY <2>2, <2>3, <2>4, <2>5, <2>6 DEF Progress
<1>5. CASE ~(stage = "nearest" \/ (stage = "ping" /\ round = 0))
  <2>1. /\ GoTo(Following)
        /\ report' = IF stage = "hold" THEN [r EXCEPT !.lost = r.lost + 1] ELSE r
    BY <1>5 DEF Fail
  <2>2. /\ stage' \in Planned /\ Rank[stage] < Rank[stage'] /\ stage' # "ping"
        /\ pc' = "send" /\ round' = 0 /\ verdict' \in {"open", "live"}
        /\ stage' = "done" <=> verdict' = "live"
        /\ "nearest" \in Queries /\ Rank[stage'] > 2 => Rank[stage] >= 2
        /\ HoldPings > 0 /\ stage' = "done" => stage = "hold"
    BY <1>2, <2>1, Onward
  <2>3. /\ report' \in ReportType /\ report'.received = report.received /\ report'.got = report.got
        /\ report'.sent = r.sent /\ (stage = "hold" => report'.lost = 1) /\ (stage # "hold" => report'.lost = 0)
    BY <1>2, <2>1 DEF ReportType
  <2>4. stage = "hold" => stage' = "done"
    BY <2>2, Ranks, PlannedStages
  <2>5. StageTypes'
    BY <2>2, <2>3 DEF StageTypes
  <2>6. Waits'
    BY <2>2 DEF Waits, Waiting
  <2>7. Flow'
    <3>1. report.received > 0
      BY <1>1, <1>2, <1>5 DEF Flow
    <3>2. "nearest" \in Queries /\ Rank[stage'] > 2 => "nearest" \in report'.got
      <4>1. stage # "nearest" /\ Rank[stage] >= 2 => Rank[stage] > 2
        BY <1>2, Ranks, PlannedStages
      <4> QED BY <1>1, <1>5, <2>2, <2>3, <4>1 DEF Flow
    <3>3. report'.received <= report'.sent
      BY <1>1, <1>2, <2>3 DEF Flow
    <3> QED BY <2>2, <2>3, <3>1, <3>2, <3>3 DEF Flow, Waiting
  <2>8. Ahead' /\ \A i \in DOMAIN log' : log'[i].stage # stage'
    BY <1>1, <1>2, <2>2, SameLogAhead, PlannedStages
  <2>9. Tally'
    BY <1>1, <1>3, <2>3 DEF Tally
  <2>10. Held'
    <3>1. stage' # "done" => report'.lost = 0
      BY <2>3, <2>4
    <3>2. ASSUME stage' = "done", HoldPings > 0 PROVE HoldJudged'
      <4>1. stage = "hold" /\ report'.lost = 1
        BY <2>2, <2>3, <3>2
      <4>2. CASE line' = "closed"
        BY <4>1, <4>2 DEF HoldJudged
      <4>3. CASE Waiting
        <5>1. log # <<>> /\ log[Cur].stage = "hold" /\ ~log[Cur].credited
          BY <1>1, <4>1, <4>3 DEF Waits
        <5>2. Cur \in DOMAIN log' /\ log'[Cur].stage = "hold" /\ ~log'[Cur].credited
          BY <1>1, <5>1, LogParts DEF LogSame, CreditsSame
        <5> QED BY <4>1, <5>2 DEF HoldJudged
      <4> QED BY <4>1, <4>2, <4>3
    <3> QED BY <2>2, <2>8, <3>1, <3>2 DEF Held
  <2> QED BY <2>5, <2>6, <2>7, <2>8, <2>9, <2>10 DEF Progress
<1> QED BY <1>4, <1>5

(* The call goes on, with the next packet or a second copy of its query.   *)
LEMMA StayStep ==
  ASSUME IInv, Waiting, LogSame, CreditsSame, UNCHANGED <<stage, pc, round, report, verdict>>,
         log'[Cur].heard => log[Cur].heard
  PROVE  StageTypes' /\ Progress'
<1>1. /\ Types /\ StageTypes /\ Waits /\ Flow /\ Ahead /\ Tally /\ Held
  BY DEF IInv, Types, Progress
<1>2. /\ \A s : CreditedIn(s)' = CreditedIn(s)
      /\ Cur \in DOMAIN log /\ DOMAIN log' = DOMAIN log /\ Cur' = Cur /\ log' # <<>>
  BY <1>1, SameCredited, LogParts DEF LogSame, Cur, Waits
<1>3. verdict = "open" /\ stage # "done" /\ pc = "wait" /\ stage \in Planned
  BY <1>1 DEF Waiting, Flow, StageTypes
<1>4. StageTypes'
  BY <1>1 DEF StageTypes
<1>5. Waits'
  BY <1>1, <1>2, <1>3 DEF Waits, Waiting, LogSame, CreditsSame, Pinging
<1>6. Flow'
  BY <1>1 DEF Flow, Waiting
<1>7. Ahead'
  BY <1>1, <1>3, SameLogAhead, PlannedStages
<1>8. Tally'
  BY <1>1, <1>2 DEF Tally
<1>9. Held'
  BY <1>1, <1>2, <1>3 DEF Held, Waiting, LogSame, CreditsSame
<1> QED BY <1>4, <1>5, <1>6, <1>7, <1>8, <1>9 DEF Progress

LEMMA RetryStep ==
  ASSUME IInv, Waiting, ~Pinging, LogSame, CreditsSame, Retry, salt' \in Nat,
         log'[Cur].heard /\ ~log[Cur].heard => log[Cur].salt < salt'
  PROVE  StageTypes' /\ Progress'
<1>1. /\ Types /\ StageTypes /\ Waits /\ Flow /\ Ahead /\ Tally /\ Held
  BY DEF IInv, Types, Progress
<1>2. /\ \A s : CreditedIn(s)' = CreditedIn(s)
      /\ Cur \in DOMAIN log /\ DOMAIN log' = DOMAIN log /\ Cur' = Cur /\ log' # <<>> /\ Cur \in Nat
  BY <1>1, SameCredited, LogParts DEF LogSame, Cur, Waits
<1>3. /\ verdict = "open" /\ stage # "done" /\ pc = "wait" /\ stage \in Planned
      /\ stage \notin {"ping", "hold"} /\ ~log[Cur].heard
  BY <1>1 DEF Waiting, Flow, StageTypes, Pinging, Waits
<1>4. CASE round = 1
  <2> DEFINE r == [report EXCEPT !.kept = report.kept \cup {Cur}]
  <2>1. /\ r \in ReportType /\ r.received = report.received /\ r.got = report.got
        /\ r.lost = report.lost /\ r.sent = report.sent /\ r.sent \in Nat
    BY <1>1, <1>2 DEF StageTypes, ReportType
  <2>2. Fail(r)
    BY <1>4 DEF Retry
  <2> HIDE DEF r
  <2> QED BY <1>3, <2>1, <2>2, FailStep
<1>5. CASE round # 1
  <2>1. round' = 1 /\ pc' = "send" /\ UNCHANGED <<stage, verdict, report>>
    BY <1>5 DEF Retry
  <2>2. StageTypes'
    BY <1>1, <2>1 DEF StageTypes
  <2>3. Waits'
    BY <1>1, <1>2, <1>3, <2>1 DEF Waits, Waiting, LogSame, Pinging
  <2>4. Flow'
    BY <1>1, <1>3, <2>1 DEF Flow, Waiting
  <2>5. Ahead'
    BY <1>1, <1>3, <2>1, SameLogAhead, PlannedStages
  <2>6. Tally'
    BY <1>1, <1>2, <2>1 DEF Tally
  <2>7. Held'
    BY <1>1, <1>3, <2>1 DEF Held
  <2> QED BY <2>2, <2>3, <2>4, <2>5, <2>6, <2>7 DEF Progress
<1> QED BY <1>4, <1>5

(* The awaited answer came and is credited to the message that asked.      *)
CreditsCur == \A i \in DOMAIN log : log'[i].credited <=> (log[i].credited \/ i = Cur)

LEMMA OneMoreCredited ==
  ASSUME IInv, Waiting, LogSame, CreditsCur
  PROVE  /\ Cur \in DOMAIN log /\ Cur' = Cur
         /\ \A s : s = stage => /\ CreditedIn(s)' = CreditedIn(s) \cup {Cur}
                                /\ Cardinality(CreditedIn(s)') = Cardinality(CreditedIn(s)) + 1
         /\ \A s : s # stage => CreditedIn(s)' = CreditedIn(s)
<1>1. /\ Types /\ Cur \in DOMAIN log /\ Cur' = Cur /\ DOMAIN log' = DOMAIN log
      /\ log[Cur].stage = stage /\ ~log[Cur].credited
  BY LogParts DEF IInv, Progress, Waits, LogSame, Cur
<1>2. \A s : CreditedIn(s)' = {i \in DOMAIN log : log[i].stage = s /\ (log[i].credited \/ i = Cur)}
  BY <1>1 DEF CreditedIn, LogSame, CreditsCur
<1>3. \A s : s # stage => CreditedIn(s)' = CreditedIn(s)
  BY <1>1, <1>2 DEF CreditedIn
<1>4. ASSUME NEW s, s = stage
      PROVE  /\ CreditedIn(s)' = CreditedIn(s) \cup {Cur}
             /\ Cardinality(CreditedIn(s)') = Cardinality(CreditedIn(s)) + 1
  <2>1. CreditedIn(s)' = CreditedIn(s) \cup {Cur} /\ Cur \notin CreditedIn(s)
    BY <1>1, <1>2, <1>4 DEF CreditedIn
  <2>2. IsFiniteSet(CreditedIn(s))
    BY <1>1, CreditedSets
  <2>3. Cardinality(CreditedIn(s) \cup {Cur}) = Cardinality(CreditedIn(s)) + 1
    BY <2>1, <2>2, FS_AddElement
  <2> QED BY <2>1, <2>3
<1> QED BY <1>1, <1>3, <1>4

LEMMA SucceedPingStep ==
  ASSUME IInv, Waiting, Pinging, LogSame, CreditsCur, SucceedPing
  PROVE  StageTypes' /\ Progress'
<1>1. /\ Types /\ StageTypes /\ Waits /\ Flow /\ Ahead /\ Tally /\ Held
  BY DEF IInv, Types, Progress
<1>2. /\ Cur \in DOMAIN log /\ Cur' = Cur /\ DOMAIN log' = DOMAIN log
      /\ \A s : s = stage => /\ CreditedIn(s)' = CreditedIn(s) \cup {Cur}
                             /\ Cardinality(CreditedIn(s)') = Cardinality(CreditedIn(s)) + 1
      /\ \A s : s # stage => CreditedIn(s)' = CreditedIn(s)
  BY <1>1, OneMoreCredited, LogParts DEF LogSame
<1>3. /\ verdict = "open" /\ stage # "done" /\ pc = "wait" /\ stage \in Planned
      /\ stage \in {"ping", "hold"} /\ round \in Nat /\ report \in ReportType
      /\ report.received \in Nat /\ report.sent \in Nat /\ report.lost = 0
  BY <1>1 DEF Waiting, Flow, StageTypes, Pinging, Held, ReportType
<1>4. Tally' /\ report' \in ReportType /\ report'.sent = report.sent /\ report'.lost = 0
      /\ report'.got = report.got
      /\ report'.received = IF stage = "ping" THEN report.received + 1 ELSE report.received
  <2>1. report' = IF stage = "ping" THEN [report EXCEPT !.received = report.received + 1] ELSE report
    BY DEF SucceedPing
  <2>2. /\ report' \in ReportType /\ report'.sent = report.sent /\ report'.lost = 0
        /\ report'.got = report.got
        /\ report'.received = IF stage = "ping" THEN report.received + 1 ELSE report.received
    BY <1>3, <2>1 DEF ReportType
  <2>3. report'.received = Cardinality(CreditedIn("ping")')
    BY <1>1, <1>2, <1>3, <2>2 DEF Tally
  <2>4. \A q \in Queries : CreditedIn(q)' = CreditedIn(q)
    BY <1>2, <1>3, PlannedStages
  <2> QED BY <1>1, <2>2, <2>3, <2>4 DEF Tally
<1>5. CASE stage = "ping" /\ round + 1 = Pings
  <2>1. GoTo(Following)
    BY <1>5 DEF SucceedPing
  <2>2. /\ stage' \in Planned /\ Rank[stage] < Rank[stage'] /\ stage' # "ping"
        /\ pc' = "send" /\ round' = 0 /\ verdict' \in {"open", "live"}
        /\ stage' = "done" <=> verdict' = "live"
        /\ "nearest" \in Queries /\ Rank[stage'] > 2 => Rank[stage] >= 2
        /\ HoldPings > 0 /\ stage' = "done" => stage = "hold"
    BY <1>3, <2>1, Onward
  <2>3. StageTypes' /\ Waits'
    BY <1>4, <2>2 DEF StageTypes, Waits, Waiting
  <2>4. Flow'
    BY <1>1, <1>3, <1>4, <1>5, <2>2, Ranks DEF Flow, Waiting
  <2>5. Ahead' /\ \A i \in DOMAIN log' : log'[i].stage # stage'
    <3>1. Rank[stage] <= Rank[stage']
      BY <1>3, <2>2, PlannedStages
    <3> QED BY <1>1, <2>2, <3>1, SameLogAhead
  <2>6. Held'
    <3>1. report'.lost = 0 /\ stage # "hold" /\ round' = 0
      BY <1>4, <1>5, <2>2
    <3>2. ~(verdict' = "live" /\ HoldPings > 0)
      BY <2>2, <3>1
    <3> QED BY <2>5, <3>1, <3>2 DEF Held
  <2> QED BY <1>4, <2>3, <2>4, <2>5, <2>6 DEF Progress
<1>6. CASE ~(stage = "ping" /\ round + 1 = Pings)
  <2>1. round' = round + 1 /\ pc' = "send" /\ UNCHANGED <<stage, verdict>>
    BY <1>6 DEF SucceedPing
  <2>2. StageTypes' /\ Waits'
    BY <1>1, <1>3, <1>4, <2>1 DEF StageTypes, Waits, Waiting, Pinging
  <2>3. Flow'
    BY <1>1, <1>3, <1>4, <2>1 DEF Flow, Waiting
  <2>4. Ahead'
    BY <1>1, <1>3, <2>1, SameLogAhead, PlannedStages
  <2>5. Held'
    <3>1. stage = "hold" => Cur \in CreditedIn("hold")'
      BY <1>2
    <3>2. stage = "hold" => \A i \in DOMAIN log' : log'[i].stage = "hold" => log'[i].credited
      BY <1>1, <1>2 DEF Held, LogSame, CreditsCur
    <3> QED BY <1>3, <1>4, <2>1, <3>1, <3>2 DEF Held
  <2> QED BY <1>4, <2>2, <2>3, <2>4, <2>5 DEF Progress
<1> QED BY <1>5, <1>6

LEMMA SucceedQueryStep ==
  ASSUME IInv, Waiting, ~Pinging, LogSame, CreditsCur, SucceedQuery
  PROVE  StageTypes' /\ Progress'
<1>1. /\ Types /\ StageTypes /\ Waits /\ Flow /\ Ahead /\ Tally /\ Held
  BY DEF IInv, Types, Progress
<1>2. /\ Cur \in DOMAIN log /\ DOMAIN log' = DOMAIN log
      /\ \A s : s = stage => CreditedIn(s)' = CreditedIn(s) \cup {Cur}
      /\ \A s : s # stage => CreditedIn(s)' = CreditedIn(s)
  BY <1>1, OneMoreCredited, LogParts DEF LogSame
<1>3. /\ verdict = "open" /\ stage # "done" /\ stage \in Planned
      /\ stage \in Queries /\ stage \notin {"ping", "hold"} /\ report \in ReportType
      /\ report.received \in Nat /\ report.sent \in Nat /\ report.lost = 0
  BY <1>1, PlannedStages DEF Waiting, Flow, StageTypes, Pinging, Held, ReportType
<1>4. /\ report' \in ReportType /\ report'.sent = report.sent /\ report'.lost = 0
      /\ report'.got = report.got \cup {stage} /\ report'.received = report.received
  <2>1. report' = [report EXCEPT !.got = report.got \cup {stage}]
    BY DEF SucceedQuery
  <2> QED BY <1>3, <2>1 DEF ReportType
<1>5. /\ stage' \in Planned /\ Rank[stage] < Rank[stage'] /\ stage' # "ping"
      /\ pc' = "send" /\ round' = 0 /\ verdict' \in {"open", "live"}
      /\ stage' = "done" <=> verdict' = "live"
      /\ "nearest" \in Queries /\ Rank[stage'] > 2 => Rank[stage] >= 2
      /\ HoldPings > 0 /\ stage' = "done" => stage = "hold"
  BY <1>3, Onward DEF SucceedQuery
<1>6. StageTypes' /\ Waits'
  BY <1>4, <1>5 DEF StageTypes, Waits, Waiting
<1>7. Flow'
  <2>1. stage # "nearest" /\ Rank[stage] >= 2 => Rank[stage] > 2
    BY <1>3, Ranks, PlannedStages
  <2>2. "nearest" \in Queries /\ Rank[stage'] > 2 => "nearest" \in report'.got
    BY <1>1, <1>4, <1>5, <2>1 DEF Flow
  <2>3. report.received > 0 /\ report.received <= report.sent
    BY <1>1, <1>3 DEF Flow
  <2> QED BY <1>3, <1>4, <1>5, <2>2, <2>3 DEF Flow, Waiting
<1>8. Ahead' /\ \A i \in DOMAIN log' : log'[i].stage # stage'
  BY <1>1, <1>3, <1>5, SameLogAhead, PlannedStages
<1>9. Tally'
  <2>1. report'.received = Cardinality(CreditedIn("ping")')
    BY <1>1, <1>2, <1>3, <1>4 DEF Tally
  <2>2. ASSUME NEW q \in Queries PROVE q \in report'.got <=> CreditedIn(q)' # {}
    BY <1>1, <1>2, <1>4 DEF Tally
  <2> QED BY <2>1, <2>2 DEF Tally
<1>10. Held'
  BY <1>3, <1>4, <1>5, <1>8, HoldAssumption DEF Held
<1> QED BY <1>6, <1>7, <1>8, <1>9, <1>10 DEF Progress

-----------------------------------------------------------------------------
(* The client's actions.                                                   *)

LEMMA SendStep == ASSUME IInv, Send PROVE IInv'
<1>1. /\ Types /\ StageTypes /\ Waits /\ Flow /\ Ahead /\ Tally /\ Held /\ OwnAnswers /\ Messages /\ Salts
  BY DEF IInv, Types, Progress
<1> DEFINE e == [stage |-> stage, salt |-> salt, fate |-> "open", credited |-> FALSE, heard |-> FALSE]
           n == Len(log)
<1>2. /\ verdict = "open" /\ pc = "send" /\ report' = Counted
      /\ log' = Append(log, e) /\ pc' = "wait" /\ seen' = 0
      /\ UNCHANGED <<stage, round, salt, verdict, line, replies, srvSalt, faults>>
  BY DEF Send, server
<1>3. /\ stage \in Planned /\ stage # "done" /\ report \in ReportType /\ salt \in Nat /\ report.lost = 0
      /\ report.sent \in Nat /\ report.received \in Nat
  BY <1>1, <1>2 DEF StageTypes, Flow, Types, Held, ReportType
<1>4. e \in LogType /\ e.stage = stage /\ e.salt = salt /\ e.credited = FALSE /\ e.heard = FALSE
  BY <1>3 DEF LogType
<1> HIDE DEF e
<1>5. /\ n \in Nat /\ DOMAIN log = 1..n /\ log' \in Seq(LogType) /\ Len(log') = n + 1
      /\ DOMAIN log' = 1..(n + 1) /\ log'[n + 1] = e /\ \A i \in 1..n : log'[i] = log[i]
      /\ Cur' = n + 1 /\ log' # <<>>
  <2>1. log \in Seq(LogType)
    BY <1>1 DEF Types
  <2>2. /\ n \in Nat /\ DOMAIN log = 1..n /\ Append(log, e) \in Seq(LogType) /\ Len(Append(log, e)) = n + 1
        /\ DOMAIN Append(log, e) = 1..(n + 1) /\ Append(log, e)[n + 1] = e
        /\ \A i \in 1..n : Append(log, e)[i] = log[i]
    BY <1>4, <2>1
  <2>3. log' # <<>>
    BY <1>2, <2>2
  <2> QED BY <1>2, <2>2, <2>3 DEF Cur
<1> HIDE DEF n
<1>6. \A s : CreditedIn(s)' = CreditedIn(s)
  <2> SUFFICES ASSUME NEW s PROVE {i \in 1..(n + 1) : log'[i].stage = s /\ log'[i].credited}
                                   = {i \in 1..n : log[i].stage = s /\ log[i].credited}
    BY <1>5 DEF CreditedIn
  <2>1. \A i \in 1..(n + 1) : i \in 1..n \/ i = n + 1
    BY <1>5
  <2>2. 1..n \subseteq 1..(n + 1)
    BY <1>5
  <2>3. ~log'[n + 1].credited
    BY <1>4, <1>5
  <2> QED BY <1>5, <2>1, <2>2, <2>3
<1>7. /\ report' \in ReportType /\ report'.received = report.received /\ report'.got = report.got
      /\ report'.lost = 0 /\ report'.sent = IF stage = "ping" THEN report.sent + 1 ELSE report.sent
  <2>1. report' = IF stage = "ping" THEN [report EXCEPT !.sent = report.sent + 1] ELSE report
    BY <1>2 DEF Counted
  <2> QED BY <1>3, <2>1 DEF ReportType
<1>8. Types'
  BY <1>1, <1>2, <1>5, <1>7 DEF Types, StageTypes
<1>9. Messages'
  <2>1. ASSUME NEW k \in DOMAIN replies, NEW i \in DOMAIN replies[k].es PROVE Vouched(replies[k].es[i])'
    <3>1. replies[k].es[i] \in TypeOfEntry /\ Vouched(replies[k].es[i])
      BY <1>1 DEF Types, Messages, PacketType
    <3>2. PICK f \in TypeOfEntry : f = replies[k].es[i]
      BY <3>1
    <3>3. Vouched(f)'
      <4>1. Vouched(f) /\ f.salt \in Nat /\ 1..n \subseteq 1..(n + 1)
        BY <1>5, <3>1, <3>2 DEF TypeOfEntry
      <4> QED BY <1>1, <1>2, <1>5, <4>1, VouchedKept DEF Types
    <3> QED BY <1>2, <3>2, <3>3
  <2> QED BY <1>2, <2>1 DEF Messages
<1>10. Salts'
  <2>1. \A i \in 1..(n + 1) : log'[i].salt <= srvSalt
    BY <1>1, <1>4, <1>5 DEF Salts
  <2> QED BY <1>1, <1>2, <1>5, <2>1 DEF Salts
<1>11. OwnAnswers'
  <2>1. \A i \in 1..(n + 1) : log'[i].credited => log'[i].fate = "served"
    BY <1>1, <1>4, <1>5 DEF OwnAnswers
  <2> QED BY <1>5, <2>1 DEF OwnAnswers
<1>12. Waits'
  BY <1>1, <1>2, <1>4, <1>5 DEF Waits, Waiting, Pinging
<1>13. Flow'
  BY <1>1, <1>2, <1>3, <1>7 DEF Flow, Waiting
<1>14. Ahead'
  <2>1. \A i \in 1..(n + 1) : Rank[log'[i].stage] <= Rank[stage]
    BY <1>1, <1>3, <1>4, <1>5, PlannedStages DEF Ahead
  <2> QED BY <1>2, <1>5, <2>1 DEF Ahead
<1>15. Tally'
  BY <1>1, <1>6, <1>7 DEF Tally
<1>16. Held'
  <2>1. stage = "hold" => \A i \in 1..(n + 1) : log'[i].stage = "hold" => log'[i].credited \/ i = n + 1
    BY <1>1, <1>2, <1>5 DEF Held, Waiting
  <2>2. verdict' # "live" /\ Waiting'
    BY <1>2 DEF Waiting
  <2> QED BY <1>1, <1>2, <1>5, <1>6, <1>7, <2>1, <2>2 DEF Held
<1> QED BY <1>8, <1>9, <1>10, <1>11, <1>12, <1>13, <1>14, <1>15, <1>16 DEF IInv, Progress

LEMMA SendFailsStep == ASSUME IInv, SendFails PROVE IInv'
<1>1. /\ Types /\ StageTypes /\ Messages /\ Salts /\ OwnAnswers /\ report \in ReportType
  BY DEF IInv, Types, StageTypes
<1>2. /\ verdict = "open" /\ Fail(Counted) /\ UNCHANGED <<seen, salt, line, replies, srvSalt, faults, log>>
      /\ line = "closed" \/ ~Pinging
  BY DEF SendFails, server
<1>3. LogSame /\ CreditsSame
  BY <1>1, <1>2, UnchangedLog
<1> DEFINE r == Counted
<1>4. r \in ReportType /\ r.received = report.received /\ r.got = report.got
      /\ r.lost = report.lost /\ r.sent >= report.sent
  <2>1. r = IF stage = "ping" THEN [report EXCEPT !.sent = report.sent + 1] ELSE report
    BY DEF Counted
  <2>2. report.sent \in Nat
    BY <1>1 DEF ReportType
  <2> HIDE DEF r
  <2> QED BY <1>1, <2>1, <2>2 DEF ReportType
<1>5. stage = "hold" => line' = "closed" \/ Waiting
  BY <1>2 DEF Pinging
<1>6. Fail(r)
  BY <1>2
<1> HIDE DEF r
<1>7. StageTypes' /\ Progress'
  BY <1>2, <1>3, <1>4, <1>5, <1>6, FailStep
<1>8. Messages' /\ Salts' /\ OwnAnswers' /\ log' \in Seq(LogType)
  BY <1>1, <1>2, <1>3, ReadingKeeps
<1> QED BY <1>1, <1>2, <1>7, <1>8 DEF IInv, Types

LEMMA HoldOverStep == ASSUME IInv, HoldOver PROVE IInv'
<1>1. /\ Types /\ StageTypes /\ Waits /\ Flow /\ Ahead /\ Tally /\ Held
      /\ Messages /\ Salts /\ OwnAnswers /\ report \in ReportType
  BY DEF IInv, Types, Progress, StageTypes
<1>2. /\ verdict = "open" /\ pc = "send" /\ stage = "hold" /\ round > 0
      /\ stage' = "done" /\ pc' = "send" /\ round' = 0 /\ verdict' = "live"
      /\ UNCHANGED <<seen, salt, report, line, replies, srvSalt, faults, log>>
  BY DEF HoldOver, GoTo, server
<1>3. LogSame /\ CreditsSame
  BY <1>1, <1>2, UnchangedLog
<1>4. \A s : CreditedIn(s)' = CreditedIn(s)
  BY <1>1, <1>3, SameCredited
<1>5. StageTypes' /\ Waits'
  BY <1>1, <1>2, PlannedStages DEF StageTypes, Waits, Waiting
<1>6. Flow'
  BY <1>1, <1>2, Ranks DEF Flow, Waiting
<1>7. Ahead'
  <2>1. Rank[stage] <= Rank[stage'] /\ stage' \in Planned
    BY <1>2, Ranks, PlannedStages
  <2> QED BY <1>1, <1>3, <2>1, SameLogAhead
<1>8. Tally'
  BY <1>1, <1>2, <1>4 DEF Tally
<1>9. Held'
  <2>1. report'.lost = 0 /\ CreditedIn("hold")' # {}
    BY <1>1, <1>2, <1>4 DEF Held
  <2>2. \A i \in DOMAIN log' : log'[i].stage = "hold" => log'[i].credited
    BY <1>1, <1>2 DEF Held, Waiting
  <2> QED BY <1>2, <2>1, <2>2 DEF Held, HoldJudged
<1>10. Messages' /\ Salts' /\ OwnAnswers' /\ log' \in Seq(LogType)
  BY <1>1, <1>2, <1>3, ReadingKeeps
<1> QED BY <1>1, <1>2, <1>5, <1>6, <1>7, <1>8, <1>9, <1>10 DEF IInv, Types, Progress

LEMMA ReceivePongStep == ASSUME IInv, ReceivePong PROVE IInv'
<1> DEFINE answer == ContainsPong(Head(replies), Cur)
<1>1. /\ Types /\ StageTypes /\ Waits /\ Messages /\ Salts /\ OwnAnswers /\ report \in ReportType
  BY DEF IInv, Types, Progress, StageTypes
<1>2. /\ Waiting /\ Pinging /\ replies # <<>> /\ replies' = Tail(replies) /\ seen' = seen + 1
      /\ Credit(answer = "found", {}) /\ UNCHANGED <<salt, line, srvSalt, faults>>
      /\ answer \in {"found", "error", "none"} /\ verdict = "open"
  BY DEF ReceivePong, server, ContainsPong, Waiting
<1>3. (CASE answer = "found" -> SucceedPing
         [] answer = "error" \/ (answer = "none" /\ seen + 1 = MaxPongReplies) -> Fail(report)
         [] OTHER -> UNCHANGED <<stage, pc, round, report, verdict>>)
  BY DEF ReceivePong
<1>4. answer = "found" => Cur \in DOMAIN log /\ log[Cur].fate = "served"
  <2> SUFFICES ASSUME answer = "found" PROVE Cur \in DOMAIN log /\ log[Cur].fate = "served"
    OBVIOUS
  <2>1. PICK i \in DOMAIN Head(replies).es : Head(replies).es[i].kind = "pong" /\ Head(replies).es[i].id = Cur
    BY DEF ContainsPong
  <2>2. Head(replies) = replies[1] /\ 1 \in DOMAIN replies
    BY <1>1, <1>2, PacketParts
  <2>3. Vouched(Head(replies).es[i])
    BY <1>1, <2>1, <2>2 DEF Messages
  <2> QED BY <2>1, <2>3 DEF Vouched
<1> HIDE DEF answer
<1>5. /\ LogSame
      /\ \A i \in DOMAIN log : /\ log'[i].credited <=> (log[i].credited \/ (answer = "found" /\ i = Cur))
                               /\ log'[i].heard <=> log[i].heard
      /\ answer # "found" => CreditsSame
  <2>1. (answer = "found") \in BOOLEAN
    OBVIOUS
  <2> DEFINE own == (answer = "found")
  <2>2. own \in BOOLEAN /\ Credit(own, {})
    BY <1>2, <2>1
  <2>3. /\ LogSame
        /\ \A i \in DOMAIN log : /\ log'[i].credited <=> (log[i].credited \/ (own /\ i = Cur))
                                 /\ log'[i].heard <=> (log[i].heard \/ i \in {})
        /\ ~own => CreditsSame
    <3> HIDE DEF own
    <3> QED BY <1>1, <2>2, CreditLog
  <2> QED BY <2>3
<1>6. Cur \in DOMAIN log /\ \A i \in DOMAIN log : log[i] \in LogType
  BY <1>1, <1>2, LogParts DEF Waits
<1>7. StageTypes' /\ Progress'
  <2>1. CASE answer = "found"
    <3>1. SucceedPing
      BY <1>3, <2>1
    <3>2. CreditsCur
      BY <1>5, <2>1 DEF CreditsCur
    <3> QED BY <1>2, <1>5, <3>1, <3>2, SucceedPingStep
  <2>2. answer # "found" => CreditsSame
    BY <1>5
  <2>3. CASE answer = "error" \/ (answer = "none" /\ seen + 1 = MaxPongReplies)
    <3>1. Fail(report) /\ CreditsSame
      BY <1>3, <2>2, <2>3
    <3>2. report.sent >= report.sent
      BY <1>1 DEF ReportType
    <3> QED BY <1>1, <1>2, <1>5, <3>1, <3>2, FailStep
  <2>4. CASE answer # "found" /\ ~(answer = "error" \/ (answer = "none" /\ seen + 1 = MaxPongReplies))
    <3>1. UNCHANGED <<stage, pc, round, report, verdict>> /\ CreditsSame
      BY <1>3, <2>2, <2>4
    <3> QED BY <1>2, <1>5, <1>6, <3>1, StayStep
  <2> QED BY <2>1, <2>3, <2>4
<1>8. /\ Messages' /\ Salts' /\ OwnAnswers'
      /\ replies' \in Seq(PacketType) /\ log' \in Seq(LogType)
  <2>1. \A i \in DOMAIN log : log'[i].credited => log[i].credited \/ log[i].fate = "served"
    BY <1>4, <1>5
  <2> QED BY <1>1, <1>2, <1>5, <2>1, ReadingKeeps
<1> QED BY <1>1, <1>2, <1>7, <1>8 DEF IInv, Types

LEMMA ReceiveResultStep == ASSUME IInv, ReceiveResult PROVE IInv'
<1> DEFINE p == Head(replies)
           answer == Outcome(p, Cur)
           heard == {e.id : e \in {x \in ToSet(Walked(p, Cur)) : x.kind = "badsalt"}}
           own == Accepts(answer)
<1>1. /\ Types /\ StageTypes /\ Waits /\ Messages /\ Salts /\ OwnAnswers /\ report \in ReportType
  BY DEF IInv, Types, Progress, StageTypes
<1>2. /\ Waiting /\ ~Pinging /\ replies # <<>> /\ replies' = Tail(replies) /\ seen' = seen + 1
      /\ salt' = SaltAfter(p, Cur) /\ Credit(own, heard) /\ UNCHANGED <<line, srvSalt, faults>>
      /\ verdict = "open"
  BY DEF ReceiveResult, server, Waiting
<1>3. /\ own => SucceedQuery
      /\ ~own /\ answer = "retry" => Retry
      /\ ~own /\ answer = "none" /\ seen + 1 < MaxRPCReplies => UNCHANGED <<stage, pc, round, report, verdict>>
      /\ ~own /\ answer # "retry" /\ ~(answer = "none" /\ seen + 1 < MaxRPCReplies) => Fail(report)
  BY DEF ReceiveResult, Accepts
<1>4. /\ own \in BOOLEAN
      /\ own => Cur \in DOMAIN log /\ log[Cur].fate = "served"
      /\ answer = "retry" => (Cur \in heard => log[Cur].salt < salt')
      /\ answer # "retry" => heard = {}
      /\ own => answer # "retry"
      /\ salt' = salt \/ (salt' \in Nat /\ salt' <= srvSalt)
  <2>1. own \in BOOLEAN /\ (own => answer # "retry")
    BY DEF Accepts
  <2> QED BY <1>1, <1>2, <2>1, OutcomeOf
<1> HIDE DEF answer, heard, own, p
<1>5. /\ LogSame
      /\ \A i \in DOMAIN log : /\ log'[i].credited <=> (log[i].credited \/ (own /\ i = Cur))
                               /\ log'[i].heard <=> (log[i].heard \/ i \in heard)
  BY <1>1, <1>2, <1>4, CreditLog
<1>6. Cur \in DOMAIN log /\ \A i \in DOMAIN log : log[i] \in LogType
  BY <1>1, <1>2, LogParts DEF Waits
<1>7. ~own => CreditsSame
  BY <1>1, <1>2, <1>4, CreditLog
<1>8. StageTypes' /\ Progress'
  <2>1. CASE own
    <3>1. SucceedQuery
      BY <1>3, <1>4, <2>1
    <3>2. CreditsCur
      BY <1>5, <2>1 DEF CreditsCur
    <3> QED BY <1>2, <1>5, <3>1, <3>2, SucceedQueryStep
  <2>2. CASE ~own /\ answer = "retry"
    <3>1. Retry /\ CreditsSame
      BY <1>3, <1>4, <1>7, <2>2
    <3>2. log'[Cur].heard /\ ~log[Cur].heard => log[Cur].salt < salt'
      BY <1>4, <1>5, <1>6, <2>2
    <3>3. salt' \in Nat
      BY <1>1, <1>4 DEF Types
    <3> QED BY <1>2, <1>5, <3>1, <3>2, <3>3, RetryStep
  <2>3. CASE ~own /\ answer = "none" /\ seen + 1 < MaxRPCReplies
    <3>1. UNCHANGED <<stage, pc, round, report, verdict>> /\ CreditsSame
      BY <1>3, <1>7, <2>3
    <3>2. log'[Cur].heard => log[Cur].heard
      BY <1>4, <1>5, <1>6, <2>3
    <3> QED BY <1>2, <1>5, <3>1, <3>2, StayStep
  <2>4. CASE ~own /\ answer # "retry" /\ ~(answer = "none" /\ seen + 1 < MaxRPCReplies)
    <3>1. Fail(report) /\ CreditsSame
      BY <1>3, <1>7, <2>4
    <3>2. report.sent >= report.sent
      BY <1>1 DEF ReportType
    <3> QED BY <1>1, <1>2, <1>5, <3>1, <3>2, FailStep
  <2> QED BY <2>1, <2>2, <2>3, <2>4
<1>9. /\ Messages' /\ Salts' /\ OwnAnswers' /\ salt' \in Nat
      /\ replies' \in Seq(PacketType) /\ log' \in Seq(LogType)
  <2>1. \A i \in DOMAIN log : log'[i].credited => log[i].credited \/ log[i].fate = "served"
    BY <1>4, <1>5
  <2> QED BY <1>1, <1>2, <1>4, <1>5, <2>1, ReadingKeeps
<1> QED BY <1>1, <1>2, <1>8, <1>9 DEF IInv, Types

LEMMA GivingUp ==
  ASSUME IInv, ReceiveFails \/ TimeOut
  PROVE  IInv'
<1>1. /\ Types /\ StageTypes /\ Messages /\ Salts /\ OwnAnswers /\ report \in ReportType
  BY DEF IInv, Types, StageTypes
<1>2. /\ Waiting /\ verdict = "open" /\ Fail(report) /\ UNCHANGED <<seen, salt, srvSalt, faults, log>>
      /\ line' \in {line, "torn"}
      /\ replies' = replies \/ (replies # <<>> /\ replies' = Tail(replies))
  BY DEF ReceiveFails, TimeOut, server, Waiting
<1>3. LogSame /\ CreditsSame
  BY <1>1, <1>2, UnchangedLog
<1>4. report.sent >= report.sent
  BY <1>1 DEF ReportType
<1>5. StageTypes' /\ Progress'
  BY <1>1, <1>2, <1>3, <1>4, FailStep
<1>6. /\ Messages' /\ Salts' /\ OwnAnswers'
      /\ replies' \in Seq(PacketType) /\ log' \in Seq(LogType)
  BY <1>1, <1>2, <1>3, ReadingKeeps
<1> QED BY <1>1, <1>2, <1>5, <1>6 DEF IInv, Types

-----------------------------------------------------------------------------
(* The server's actions.                                                   *)

(* The server answers open messages and may take a newer salt: what the    *)
(* client knows, and what was said, stay as they are.                      *)
AnswersOnly ==
  /\ verdict = "open" /\ UNCHANGED client
  /\ log' \in Seq(LogType) /\ Len(log') = Len(log)
  /\ \A i \in DOMAIN log : /\ log'[i].stage = log[i].stage /\ log'[i].salt = log[i].salt
                           /\ log'[i].credited = log[i].credited /\ log'[i].heard = log[i].heard
                           /\ log[i].fate # "open" => log'[i].fate = log[i].fate
  /\ srvSalt' \in Nat /\ srvSalt <= srvSalt'

LEMMA ServerKeeps ==
  ASSUME IInv, AnswersOnly
  PROVE  /\ StageTypes' /\ Progress' /\ Salts' /\ OwnAnswers' /\ DOMAIN log' = DOMAIN log
         /\ \A e \in TypeOfEntry : Vouched(e) => Vouched(e)'
<1>1. /\ Types /\ StageTypes /\ Waits /\ Flow /\ Ahead /\ Tally /\ Held /\ Salts /\ OwnAnswers
  BY DEF IInv, Types, Progress
<1>2. UNCHANGED <<stage, pc, round, seen, salt, report, verdict>> /\ verdict = "open"
  BY DEF AnswersOnly, client
<1>3. /\ DOMAIN log' = DOMAIN log /\ Cur' = Cur /\ (log' # <<>> <=> log # <<>>)
      /\ Cur \in DOMAIN log <=> log # <<>>
  BY <1>1, LogParts DEF AnswersOnly, Cur
<1>4. \A s : CreditedIn(s)' = CreditedIn(s)
  BY <1>3 DEF CreditedIn, AnswersOnly
<1>5. StageTypes'
  BY <1>1, <1>2 DEF StageTypes
<1>6. Waits'
  BY <1>1, <1>2, <1>3 DEF Waits, Waiting, Pinging, AnswersOnly
<1>7. Flow'
  BY <1>1, <1>2 DEF Flow, Waiting
<1>8. Ahead'
  BY <1>1, <1>2, <1>3 DEF Ahead, AnswersOnly
<1>9. Tally'
  BY <1>1, <1>2, <1>4 DEF Tally
<1>10. Held'
  <2>1. \A i \in DOMAIN log' : log'[i].stage = log[i].stage /\ log'[i].credited = log[i].credited
    BY <1>3 DEF AnswersOnly
  <2>2. Waiting' <=> Waiting
    BY <1>2 DEF Waiting
  <2> QED BY <1>1, <1>2, <1>3, <1>4, <2>1, <2>2 DEF Held
<1>11. Salts'
  <2>1. \A i \in DOMAIN log : log'[i].salt <= srvSalt'
    <3> SUFFICES ASSUME NEW i \in DOMAIN log PROVE log'[i].salt <= srvSalt'
      OBVIOUS
    <3>1. log[i].salt \in Nat /\ log[i].salt <= srvSalt /\ log'[i].salt = log[i].salt
      BY <1>1, LogParts DEF LogType, Salts, AnswersOnly
    <3> QED BY <1>1, <3>1 DEF AnswersOnly, Types
  <2>2. salt' <= srvSalt'
    BY <1>1, <1>2 DEF Salts, AnswersOnly, Types
  <2> QED BY <1>3, <2>1, <2>2 DEF Salts
<1>12. OwnAnswers'
  BY <1>1, <1>3 DEF OwnAnswers, AnswersOnly
<1>13. \A e \in TypeOfEntry : Vouched(e) => Vouched(e)'
  <2> SUFFICES ASSUME NEW e \in TypeOfEntry, Vouched(e) PROVE Vouched(e)'
    OBVIOUS
  <2>1. e.salt \in Nat
    BY DEF TypeOfEntry
  <2> QED BY <1>1, <1>3, <2>1, VouchedKept DEF Types, AnswersOnly
<1> QED BY <1>3, <1>5, <1>6, <1>7, <1>8, <1>9, <1>10, <1>11, <1>12, <1>13 DEF Progress

(* One more packet is under way, and what it says is true.                 *)
LEMMA OneMorePacket ==
  ASSUME Types, Messages, NEW p \in PacketType, replies' = Append(replies, p),
         \A e \in TypeOfEntry : Vouched(e) => Vouched(e)',
         \A i \in DOMAIN p.es : Vouched(p.es[i])'
  PROVE  replies' \in Seq(PacketType) /\ Messages'
<1> DEFINE n == Len(replies)
<1>1. /\ replies \in Seq(PacketType) /\ n \in Nat /\ DOMAIN replies = 1..n
      /\ replies' \in Seq(PacketType) /\ DOMAIN replies' = 1..(n + 1)
      /\ replies'[n + 1] = p /\ \A k \in 1..n : replies'[k] = replies[k]
  BY DEF Types
<1> HIDE DEF n
<1>2. ASSUME NEW k \in 1..n, NEW i \in DOMAIN replies[k].es PROVE Vouched(replies[k].es[i])'
  <2>1. replies[k].es[i] \in TypeOfEntry /\ Vouched(replies[k].es[i])
    BY <1>1 DEF Messages, PacketType
  <2>2. PICK f \in TypeOfEntry : f = replies[k].es[i]
    BY <2>1
  <2>3. Vouched(f)'
    BY <2>1, <2>2
  <2>4. f = replies'[k].es[i]
    BY <1>1, <2>2
  <2> QED BY <2>3, <2>4
<1>3. \A k \in 1..(n + 1) : k \in 1..n \/ k = n + 1
  BY <1>1
<1>4. ASSUME NEW k \in DOMAIN replies', NEW i \in DOMAIN replies'[k].es PROVE Vouched(replies[k].es[i])'
  <2>1. CASE k = n + 1
    <3>1. replies'[k] = p
      BY <1>1, <2>1
    <3> QED BY <3>1
  <2>2. CASE k \in 1..n
    <3>1. replies'[k] = replies[k]
      BY <1>1, <2>2
    <3>2. i \in DOMAIN replies[k].es
      BY <3>1
    <3> QED BY <1>2, <2>2, <3>2
  <2> QED BY <1>1, <1>3, <2>1, <2>2
<1>5. Messages'
  BY <1>4 DEF Messages
<1> QED BY <1>1, <1>5

(* What the server says of an open message, and what that makes of it.     *)
LEMMA AnswersTrue ==
  ASSUME Types, Salts, NEW i \in DOMAIN log, NEW e \in Answers(i)
  PROVE  /\ e \in TypeOfEntry /\ Fate(e) \in {"served", "rejected", "refused"}
         /\ i \in DOMAIN log' /\ log'[i].salt = log[i].salt /\ log'[i].fate = Fate(e) /\ srvSalt' = srvSalt
              => Vouched(e)'
<1>1. log[i] \in LogType /\ i \in Nat /\ log[i].salt <= srvSalt /\ srvSalt \in Nat
  BY LogParts DEF Salts, Types
<1>2. /\ e \in [kind : {"badsalt", "pong", "bareerror", "result", "odd", "rpcerror"}, id : {i}, salt : {srvSalt}]
      /\ e.kind = "badsalt" => log[i].salt # srvSalt
  BY DEF Answers, Entry
<1>3. e \in TypeOfEntry /\ e.id = i /\ e.salt = srvSalt
  BY <1>1, <1>2 DEF TypeOfEntry
<1>4. Fate(e) \in {"served", "rejected", "refused"}
  BY DEF Fate
<1>5. ASSUME i \in DOMAIN log', log'[i].salt = log[i].salt, log'[i].fate = Fate(e), srvSalt' = srvSalt
      PROVE  Vouched(e)'
  <2>1. e.kind \in {"pong", "result", "odd"} => log'[e.id].fate = "served"
    BY <1>3, <1>5 DEF Fate
  <2>2. e.kind = "badsalt" => log'[e.id].salt < e.salt
    BY <1>1, <1>2, <1>3, <1>5 DEF LogType
  <2>3. e.salt <= srvSalt'
    BY <1>1, <1>3, <1>5
  <2> QED BY <1>3, <1>5, <2>1, <2>2, <2>3 DEF Vouched
<1> QED BY <1>3, <1>4, <1>5

LEMMA NewsTrue ==
  ASSUME Types, NEW e \in News \cup {Entry("forged", 0, 0)}
  PROVE  e \in TypeOfEntry /\ Vouched(e)
BY DEF News, Entry, TypeOfEntry, Vouched, Types

LEMMA PacketsOf ==
  /\ \A e \in TypeOfEntry : /\ Single(e) \in PacketType
                             /\ \A i \in DOMAIN Single(e).es : Single(e).es[i] = e
  /\ \A e, f \in TypeOfEntry : /\ Box(<<e, f>>) \in PacketType
                                /\ \A i \in DOMAIN Box(<<e, f>>).es : Box(<<e, f>>).es[i] \in {e, f}
BY DEF Single, Box, PacketType

LEMMA ServeStep == ASSUME IInv, Serve PROVE IInv'
<1>1. Types /\ Messages /\ Salts
  BY DEF IInv
<1>2. PICK i \in Open : \E e \in Answers(i) :
        /\ \E p \in {Single(e)} \cup {Box(<<n, e>>) : n \in News} : replies' = Append(replies, p)
        /\ log' = [log EXCEPT ![i].fate = Fate(e)]
  BY DEF Serve
<1>3. PICK e \in Answers(i) :
        /\ \E p \in {Single(e)} \cup {Box(<<n, e>>) : n \in News} : replies' = Append(replies, p)
        /\ log' = [log EXCEPT ![i].fate = Fate(e)]
  BY <1>2
<1>4. PICK p \in {Single(e)} \cup {Box(<<n, e>>) : n \in News} : replies' = Append(replies, p)
  BY <1>3
<1>5. /\ verdict = "open" /\ UNCHANGED client /\ line' = line /\ srvSalt' = srvSalt /\ faults' = faults
      /\ seen' = seen /\ salt' = salt
  BY DEF Serve, Room, server, client
<1>6. i \in DOMAIN log /\ log[i].fate = "open" /\ log[i] \in LogType
  BY <1>1, LogParts DEF Open
<1>7. e \in TypeOfEntry /\ Fate(e) \in {"served", "rejected", "refused"}
  BY <1>1, <1>6, AnswersTrue
<1>8. AnswersOnly /\ i \in DOMAIN log' /\ log'[i].salt = log[i].salt /\ log'[i].fate = Fate(e)
  <2> DEFINE x == [log[i] EXCEPT !.fate = Fate(e)]
  <2>1. log' = [log EXCEPT ![i] = x]
    BY <1>3
  <2>2. /\ x \in LogType /\ x.stage = log[i].stage /\ x.salt = log[i].salt /\ x.fate = Fate(e)
        /\ x.credited = log[i].credited /\ x.heard = log[i].heard
    BY <1>6, <1>7 DEF LogType
  <2> HIDE DEF x
  <2>3. log \in Seq(LogType)
    BY <1>1 DEF Types
  <2>4. /\ log' \in Seq(LogType) /\ Len(log') = Len(log) /\ log'[i] = x
        /\ \A j \in DOMAIN log : j # i => log'[j] = log[j]
    BY <1>6, <2>1, <2>2, <2>3
  <2>5. srvSalt' \in Nat /\ srvSalt <= srvSalt'
    BY <1>1, <1>5 DEF Types
  <2>6. i \in DOMAIN log'
    BY <1>6, <2>3, <2>4
  <2> QED BY <1>5, <1>6, <2>2, <2>4, <2>5, <2>6 DEF AnswersOnly
<1>9. Vouched(e)'
  BY <1>1, <1>5, <1>6, <1>8, AnswersTrue
<1>10. /\ StageTypes' /\ Progress' /\ Salts' /\ OwnAnswers'
       /\ \A f \in TypeOfEntry : Vouched(f) => Vouched(f)'
  BY <1>8, ServerKeeps
<1>11. /\ p \in PacketType
       /\ \A k \in DOMAIN p.es : Vouched(p.es[k])'
  <2>1. CASE p = Single(e)
    BY <1>7, <1>9, <2>1, PacketsOf
  <2>2. ASSUME NEW n \in News, p = Box(<<n, e>>)
        PROVE  p \in PacketType /\ \A k \in DOMAIN p.es : Vouched(p.es[k])'
    <3>1. n \in TypeOfEntry /\ Vouched(n)
      BY <1>1, NewsTrue
    <3>2. Vouched(n)'
      BY <1>10, <3>1
    <3>3. p \in PacketType /\ \A k \in DOMAIN p.es : p.es[k] \in {n, e}
      BY <1>7, <2>2, <3>1, PacketsOf
    <3> QED BY <1>9, <3>2, <3>3
  <2> QED BY <1>4, <2>1, <2>2
<1>12. replies' \in Seq(PacketType) /\ Messages'
  BY <1>1, <1>4, <1>10, <1>11, OneMorePacket
<1> QED BY <1>1, <1>5, <1>8, <1>10, <1>12 DEF IInv, Types, AnswersOnly

LEMMA ServeTwoStep == ASSUME IInv, ServeTwo PROVE IInv'
<1>1. Types /\ Messages /\ Salts
  BY DEF IInv
<1>2. PICK i, j \in Open : i # j /\ \E e \in Answers(i), f \in Answers(j) :
        /\ replies' = Append(replies, Box(<<e, f>>))
        /\ log' = [log EXCEPT ![i].fate = Fate(e), ![j].fate = Fate(f)]
  BY DEF ServeTwo
<1>3. PICK e \in Answers(i), f \in Answers(j) :
        /\ replies' = Append(replies, Box(<<e, f>>))
        /\ log' = [log EXCEPT ![i].fate = Fate(e), ![j].fate = Fate(f)]
  BY <1>2
<1>4. /\ verdict = "open" /\ UNCHANGED client /\ line' = line /\ srvSalt' = srvSalt /\ faults' = faults
      /\ seen' = seen /\ salt' = salt
  BY DEF ServeTwo, Room, server, client
<1>5. /\ i \in DOMAIN log /\ log[i].fate = "open" /\ log[i] \in LogType
      /\ j \in DOMAIN log /\ log[j].fate = "open" /\ log[j] \in LogType
  BY <1>1, LogParts DEF Open
<1>6. /\ e \in TypeOfEntry /\ Fate(e) \in {"served", "rejected", "refused"}
      /\ f \in TypeOfEntry /\ Fate(f) \in {"served", "rejected", "refused"}
  BY <1>1, <1>5, AnswersTrue
<1>7. /\ AnswersOnly
      /\ i \in DOMAIN log' /\ log'[i].salt = log[i].salt /\ log'[i].fate = Fate(e)
      /\ j \in DOMAIN log' /\ log'[j].salt = log[j].salt /\ log'[j].fate = Fate(f)
  <2> DEFINE x == [log[i] EXCEPT !.fate = Fate(e)]
             y == [log[j] EXCEPT !.fate = Fate(f)]
  <2>1. log' = [log EXCEPT ![i] = x, ![j] = y]
    BY <1>2, <1>3
  <2>2. /\ x \in LogType /\ x.stage = log[i].stage /\ x.salt = log[i].salt /\ x.fate = Fate(e)
        /\ x.credited = log[i].credited /\ x.heard = log[i].heard
        /\ y \in LogType /\ y.stage = log[j].stage /\ y.salt = log[j].salt /\ y.fate = Fate(f)
        /\ y.credited = log[j].credited /\ y.heard = log[j].heard
    BY <1>5, <1>6 DEF LogType
  <2> HIDE DEF x, y
  <2>3. log \in Seq(LogType)
    BY <1>1 DEF Types
  <2>4. /\ log' \in Seq(LogType) /\ Len(log') = Len(log) /\ log'[i] = x /\ log'[j] = y
        /\ \A k \in DOMAIN log : k # i /\ k # j => log'[k] = log[k]
    <3> DEFINE half == [log EXCEPT ![i] = x]
    <3>1. /\ half \in Seq(LogType) /\ Len(half) = Len(log) /\ DOMAIN half = DOMAIN log /\ half[i] = x
          /\ \A k \in DOMAIN log : k # i => half[k] = log[k]
      BY <1>5, <2>2, <2>3
    <3>2. log' = [half EXCEPT ![j] = y]
      BY <2>1
    <3> HIDE DEF half
    <3>3. j \in DOMAIN half /\ y \in LogType
      BY <1>5, <2>2, <3>1
    <3>4. /\ log' \in Seq(LogType) /\ Len(log') = Len(half) /\ log'[j] = y
          /\ \A k \in DOMAIN half : k # j => log'[k] = half[k]
      BY <3>1, <3>2, <3>3
    <3> QED BY <1>2, <1>5, <3>1, <3>4
  <2>5. srvSalt' \in Nat /\ srvSalt <= srvSalt'
    BY <1>1, <1>4 DEF Types
  <2>6. i \in DOMAIN log' /\ j \in DOMAIN log'
    BY <1>5, <2>3, <2>4
  <2> QED BY <1>4, <1>5, <2>2, <2>4, <2>5, <2>6 DEF AnswersOnly
<1>8. Vouched(e)' /\ Vouched(f)'
  BY <1>1, <1>4, <1>5, <1>7, AnswersTrue
<1>9. /\ StageTypes' /\ Progress' /\ Salts' /\ OwnAnswers'
      /\ \A g \in TypeOfEntry : Vouched(g) => Vouched(g)'
  BY <1>7, ServerKeeps
<1> DEFINE p == Box(<<e, f>>)
<1>10. p \in PacketType /\ replies' = Append(replies, p) /\ \A k \in DOMAIN p.es : p.es[k] \in {e, f}
  BY <1>3, <1>6, PacketsOf
<1> HIDE DEF p
<1>11. \A k \in DOMAIN p.es : Vouched(p.es[k])'
  BY <1>8, <1>10
<1>12. replies' \in Seq(PacketType) /\ Messages'
  BY <1>1, <1>9, <1>10, <1>11, OneMorePacket
<1> QED BY <1>1, <1>4, <1>7, <1>9, <1>12 DEF IInv, Types, AnswersOnly

LEMMA PushStep == ASSUME IInv, Push PROVE IInv'
<1>1. Types /\ Messages /\ Salts
  BY DEF IInv
<1>2. PICK e \in News \cup {Entry("forged", 0, 0)} : replies' = Append(replies, Single(e))
  BY DEF Push
<1>3. /\ verdict = "open" /\ UNCHANGED client /\ line' = line /\ srvSalt' = srvSalt /\ faults' = faults + 1
      /\ seen' = seen /\ salt' = salt /\ log' = log
  BY DEF Push, Room, client
<1>4. AnswersOnly
  BY <1>1, <1>3 DEF AnswersOnly, Types
<1>5. /\ StageTypes' /\ Progress' /\ Salts' /\ OwnAnswers'
      /\ \A f \in TypeOfEntry : Vouched(f) => Vouched(f)'
  BY <1>4, ServerKeeps
<1>6. e \in TypeOfEntry /\ Vouched(e)'
  BY <1>1, <1>5, NewsTrue
<1>7. Single(e) \in PacketType /\ \A i \in DOMAIN Single(e).es : Vouched(Single(e).es[i])'
  BY <1>6, PacketsOf
<1>8. replies' \in Seq(PacketType) /\ Messages'
  BY <1>1, <1>2, <1>5, <1>7, OneMorePacket
<1> QED BY <1>1, <1>3, <1>4, <1>5, <1>8 DEF IInv, Types, AnswersOnly

(* Nothing is said: the server takes a newer salt, or the line is closed   *)
(* and what was under way may be gone.                                     *)
LEMMA QuietStep == ASSUME IInv, Rotate \/ Close PROVE IInv'
<1>1. Types /\ Messages /\ Salts
  BY DEF IInv
<1>2. /\ verdict = "open" /\ UNCHANGED client /\ line' \in {line, "closed"} /\ log' = log
      /\ srvSalt' \in {srvSalt, srvSalt + 1} /\ faults' \in {faults, faults + 1}
      /\ seen' = seen /\ salt' = salt /\ replies' \in {replies, <<>>}
  BY DEF Rotate, Close, client, server
<1>3. AnswersOnly
  BY <1>1, <1>2 DEF AnswersOnly, Types
<1>4. /\ StageTypes' /\ Progress' /\ Salts' /\ OwnAnswers'
      /\ \A f \in TypeOfEntry : Vouched(f) => Vouched(f)'
  BY <1>3, ServerKeeps
<1>5. Messages'
  <2>1. CASE replies' = <<>>
    BY <2>1 DEF Messages
  <2>2. CASE replies' = replies
    <3>1. ASSUME NEW k \in DOMAIN replies', NEW i \in DOMAIN replies'[k].es PROVE Vouched(replies[k].es[i])'
      <4>1. replies[k].es[i] \in TypeOfEntry /\ Vouched(replies[k].es[i])
        BY <1>1, <2>2 DEF Types, Messages, PacketType
      <4>2. PICK f \in TypeOfEntry : f = replies[k].es[i]
        BY <4>1
      <4>3. Vouched(f)'
        BY <1>4, <4>1, <4>2
      <4>4. f = replies'[k].es[i]
        BY <2>2, <4>2
      <4> QED BY <4>3, <4>4
    <3> QED BY <3>1 DEF Messages
  <2> QED BY <1>2, <2>1, <2>2
<1>6. replies' \in Seq(PacketType)
  <2>1. replies \in Seq(PacketType) /\ <<>> \in Seq(PacketType)
    BY <1>1 DEF Types
  <2>2. replies' = replies \/ replies' = <<>>
    BY <1>2
  <2> QED BY <2>1, <2>2
<1>7. Types'
  <2>1. log' \in Seq(LogType) /\ srvSalt' \in Nat
    BY <1>3 DEF AnswersOnly
  <2>2. seen' \in Nat /\ salt' \in Nat /\ faults' \in Nat /\ line' \in {"up", "torn", "closed"}
    BY <1>1, <1>2 DEF Types
  <2> QED BY <1>4, <1>6, <2>1, <2>2 DEF Types
<1> QED BY <1>4, <1>5, <1>7 DEF IInv

-----------------------------------------------------------------------------
(* The invariant.                                                          *)

LEMMA Begins == Init => IInv
<1> SUFFICES ASSUME Init PROVE IInv
  OBVIOUS
<1>1. /\ stage = "ping" /\ pc = "send" /\ round = 0 /\ seen = 0 /\ salt = 0
      /\ report = [sent |-> 0, received |-> 0, got |-> {}, lost |-> 0, kept |-> {}]
      /\ verdict = "open"
      /\ line = "up" /\ replies = <<>> /\ srvSalt = 0 /\ faults = 0 /\ log = <<>>
  BY DEF Init
<1>2. StageTypes
  BY <1>1, PlannedStages DEF StageTypes, ReportType
<1>3. Types /\ Messages /\ Salts /\ OwnAnswers
  BY <1>1, <1>2 DEF Types, Messages, Salts, OwnAnswers
<1>4. \A s : CreditedIn(s) = {}
  BY <1>1 DEF CreditedIn
<1>5. Waits /\ Flow /\ Ahead /\ Held
  BY <1>1, Ranks DEF Waits, Flow, Ahead, Held, Waiting, Pinging
<1>6. Tally
  BY <1>1, <1>4, FS_EmptySet DEF Tally
<1> QED BY <1>3, <1>5, <1>6 DEF IInv, Progress

LEMMA StepIInv == IInv /\ [Next]_vars => IInv'
<1> SUFFICES ASSUME IInv, [Next]_vars PROVE IInv'
  OBVIOUS
<1>1. CASE Client
  BY <1>1, SendStep, SendFailsStep, HoldOverStep, ReceivePongStep, ReceiveResultStep, GivingUp DEF Client
<1>2. CASE Server
  BY <1>2, ServeStep, ServeTwoStep, PushStep, QuietStep DEF Server
<1>3. CASE UNCHANGED vars
  <2>1. UNCHANGED <<stage, pc, round, seen, salt, report, verdict, line, replies, srvSalt, faults, log>>
    BY <1>3 DEF vars, client, server
  <2>2. UNCHANGED <<Pinging, Cur>>
    BY <2>1 DEF Pinging, Cur
  <2>3. Types' /\ Salts' /\ OwnAnswers' /\ Messages'
    BY <2>1 DEF IInv, Types, StageTypes, Salts, OwnAnswers, Messages, Vouched
  <2>4. Progress'
    BY <2>1, <2>2 DEF IInv, Progress, Waits, Waiting, Flow, Ahead, Tally, Held, HoldJudged, CreditedIn
  <2> QED BY <2>3, <2>4 DEF IInv
<1> QED BY <1>1, <1>2, <1>3 DEF Next, Returned

LEMMA Invariance == Spec => []IInv
<1> QED BY Begins, StepIInv, PTL DEF Spec

(* A call takes as its answer only what the server said to its own message *)
(* (ping and invoke compare msg_id and req_msg_id): OwnAnswers of Session. *)
THEOREM CallsGetTheirAnswers == Spec => []OwnAnswers
<1>1. IInv => OwnAnswers
  BY DEF IInv
<1> QED BY <1>1, Invariance, PTL

(* The report of fullHandshake is what happened: pongs credited, fields of *)
(* the queries credited, the hold lost exactly when a ping of it was not   *)
(* credited or could not be sent.                                          *)
THEOREM ReportIsHonest == Spec => []ReportHonest
<1>1. IInv => ReportHonest
  BY DEF IInv, Progress, Tally, Flow, Held, HoldJudged, ReportHonest
<1> QED BY <1>1, Invariance, PTL

(* A probe is live only after a pong and after nearestDc where it is asked *)
(* for, and dies of its first ping or of nearestDc and of nothing else.    *)
THEOREM VerdictIsEarned == Spec => []VerdictEarned
<1>1. IInv => VerdictEarned
  <2> SUFFICES ASSUME IInv PROVE VerdictEarned
    OBVIOUS
  <2>1. Types /\ StageTypes /\ Flow /\ Tally
    BY DEF IInv, Types, Progress
  <2>2. ASSUME verdict = "live"
        PROVE  CreditedIn("ping") # {} /\ ("nearest" \in Queries => "nearest" \in report.got)
    <3>1. stage = "done" /\ report.received > 0 /\ Rank["done"] > 2
      BY <2>1, <2>2, Ranks DEF Flow
    <3>2. Cardinality(CreditedIn("ping")) # 0
      BY <2>1, <3>1 DEF Tally
    <3>3. CreditedIn("ping") # {}
      BY <3>2, FS_EmptySet
    <3> QED BY <2>1, <3>1, <3>3 DEF Flow
  <2>3. ASSUME verdict = "dead"
        PROVE  (stage = "ping" /\ report.received = 0) \/ (stage = "nearest" /\ report.received > 0)
    BY <2>1, <2>3 DEF Flow
  <2> QED BY <2>2, <2>3 DEF VerdictEarned
<1> QED BY <1>1, Invariance, PTL

(* The second copy of a query whose first copy was itself rejected carries *)
(* a newer salt (invoke sends again with the salt dispatch stored).        *)
THEOREM SecondCopyCarriesNewerSalt == Spec => SecondCopyIsNewer
<1> DEFINE A == Len(log') > Len(log) /\ ~Pinging /\ round = 1 /\ log[Cur].heard
                  => log'[Cur'].salt > log[Cur].salt
<1>1. IInv /\ IInv' /\ [Next]_vars => [A]_vars
  <2> SUFFICES ASSUME IInv, IInv', Next, Len(log') > Len(log), ~Pinging, round = 1, log[Cur].heard
               PROVE  log'[Cur'].salt > log[Cur].salt
    BY DEF vars
  <2>1. Types /\ Waits /\ Types'
    BY DEF IInv, Progress
  <2>2. Send
    <3>1. Len(log) \in Nat
      BY <2>1 DEF Types
    <3>2. ASSUME ReceivePong \/ ReceiveResult PROVE Len(log') = Len(log)
      <4>1. DOMAIN log' = DOMAIN log
        BY <3>2 DEF ReceivePong, ReceiveResult, Credit
      <4> QED BY <2>1, <4>1 DEF Types
    <3>3. ASSUME Serve \/ ServeTwo PROVE Len(log') = Len(log)
      <4>1. DOMAIN log' = DOMAIN log
        BY <3>3 DEF Serve, ServeTwo
      <4> QED BY <2>1, <4>1 DEF Types
    <3>4. ASSUME SendFails \/ HoldOver \/ ReceiveFails \/ TimeOut \/ Push \/ Rotate \/ Close \/ Returned
          PROVE  log' = log
      BY <3>4 DEF SendFails, HoldOver, ReceiveFails, TimeOut, Push, Rotate, Close, Returned, vars
    <3> QED BY <3>1, <3>2, <3>3, <3>4 DEF Next, Client, Server
  <2>3. log # <<>> /\ verdict = "open" /\ pc = "send" /\ log[Cur].salt < salt
    <3>1. verdict = "open" /\ pc = "send"
      BY <2>2 DEF Send
    <3>2. log # <<>>
      <4>1. stage # "ping" /\ report.received > 0 /\ report.received = Cardinality(CreditedIn("ping"))
        BY DEF IInv, Progress, Flow, Tally, Pinging
      <4>2. CreditedIn("ping") # {}
        <5>1. Cardinality(CreditedIn("ping")) # 0
          BY <4>1
        <5> QED BY <5>1, FS_EmptySet
      <4> QED BY <4>2 DEF CreditedIn
    <3> QED BY <2>1, <3>1, <3>2 DEF Waits
  <2>4. log'[Cur'].salt = salt
    BY <2>1, <2>2 DEF Send, Cur, Types
  <2>5. log[Cur].salt \in Nat /\ salt \in Nat
    BY <2>1, <2>3, LogParts DEF Types, LogType
  <2> QED BY <2>3, <2>4, <2>5
<1> QED BY <1>1, Invariance, PTL DEF Spec, SecondCopyIsNewer

-----------------------------------------------------------------------------
(* The pongs under way.  No two are for the same ping, each is for a ping  *)
(* of the series or of a hold, and for one that was not credited.          *)

PongAt(k, i) == k \in DOMAIN replies /\ i \in DOMAIN replies[k].es /\ replies[k].es[i].kind = "pong"

OnlyPong(k, i, n) ==
  /\ log[n].stage \in {"ping", "hold"} /\ ~log[n].credited
  /\ \A m, j : PongAt(m, j) /\ replies[m].es[j].id = n => m = k /\ j = i

Late == \A k, i : PongAt(k, i) => OnlyPong(k, i, replies[k].es[i].id)

LEMMA PongNames ==
  ASSUME IInv, NEW k, NEW i, PongAt(k, i)
  PROVE  replies[k].es[i].id \in DOMAIN log /\ log[replies[k].es[i].id].fate = "served"
<1>1. Vouched(replies[k].es[i])
  BY DEF IInv, Messages, PongAt
<1> QED BY <1>1 DEF PongAt, Vouched

(* No packet is added, and nothing is credited whose pong is still there.  *)
LEMMA LateLess ==
  ASSUME IInv, Late,
         \/ replies' = replies \/ replies' = <<>>
         \/ replies # <<>> /\ replies' = Tail(replies),
         \A n \in DOMAIN log :
           /\ log'[n].stage = log[n].stage
           /\ log'[n].credited => \/ log[n].credited
                                  \/ \A k, i : PongAt(k, i)' => replies'[k].es[i].id # n
  PROVE  Late'
<1>1. PICK d \in {0, 1} : \A k \in DOMAIN replies' : /\ k \in Nat /\ k + d \in DOMAIN replies
                                                     /\ replies'[k] = replies[k + d]
  <2>1. Types /\ replies \in Seq(PacketType)
    BY DEF IInv, Types
  <2>2. CASE replies' = replies \/ replies' = <<>>
    BY <2>1, <2>2
  <2>3. CASE replies # <<>> /\ replies' = Tail(replies)
    BY <2>1, <2>3
  <2> QED BY <2>2, <2>3
<1>2. ASSUME NEW k, NEW i, PongAt(k, i)'
      PROVE  k \in Nat /\ PongAt(k + d, i) /\ replies'[k].es[i] = replies[k + d].es[i]
  BY <1>1, <1>2 DEF PongAt
<1> SUFFICES ASSUME NEW k, NEW i, PongAt(k, i)' PROVE OnlyPong(k, i, replies[k].es[i].id)'
  BY DEF Late
<1> SUFFICES ASSUME NEW n, n = replies'[k].es[i].id
             PROVE  /\ log'[n].stage \in {"ping", "hold"} /\ ~log'[n].credited
                    /\ \A m, j : PongAt(m, j)' /\ replies'[m].es[j].id = n => m = k /\ j = i
  BY DEF OnlyPong
<1>3. /\ k \in Nat /\ PongAt(k + d, i) /\ n = replies[k + d].es[i].id
  BY <1>2
<1>4. n \in DOMAIN log
  BY <1>3, PongNames
<1>5. log[n].stage \in {"ping", "hold"} /\ ~log[n].credited
  BY <1>3 DEF Late, OnlyPong
<1>6. ASSUME NEW m, NEW j, PongAt(m, j)', replies'[m].es[j].id = n PROVE m = k /\ j = i
  <2>1. m \in Nat /\ PongAt(m + d, j) /\ replies[m + d].es[j].id = n
    BY <1>2, <1>6
  <2>2. m + d = k + d /\ j = i
    BY <1>3, <2>1 DEF Late, OnlyPong
  <2> QED BY <1>1, <1>3, <2>1, <2>2
<1>7. ~log'[n].credited
  BY <1>4, <1>5
<1> QED BY <1>4, <1>5, <1>6, <1>7

(* One more packet: its pongs are for different messages that were open.   *)
LEMMA LateMore ==
  ASSUME IInv, Late, NEW p \in PacketType, replies' = Append(replies, p),
         \A n \in DOMAIN log : log'[n].stage = log[n].stage /\ log'[n].credited = log[n].credited,
         \A i \in DOMAIN p.es : p.es[i].kind = "pong" =>
           /\ p.es[i].id \in Open /\ log[p.es[i].id].stage \in {"ping", "hold"}
           /\ \A j \in DOMAIN p.es : p.es[j].kind = "pong" /\ p.es[j].id = p.es[i].id => j = i
  PROVE  Late'
<1> DEFINE last == Len(replies) + 1
<1>1. /\ DOMAIN replies' = DOMAIN replies \cup {last} /\ last \notin DOMAIN replies
      /\ replies'[last] = p /\ \A k \in DOMAIN replies : replies'[k] = replies[k]
  BY DEF IInv, Types
<1> HIDE DEF last
<1>2. ASSUME NEW k, NEW i, PongAt(k, i)'
      PROVE  \/ PongAt(k, i) /\ replies'[k].es[i] = replies[k].es[i]
             \/ k = last /\ i \in DOMAIN p.es /\ replies'[k].es[i] = p.es[i] /\ p.es[i].kind = "pong"
  BY <1>1, <1>2 DEF PongAt
<1>3. ASSUME NEW k, NEW i, PongAt(k, i) PROVE replies[k].es[i].id \notin Open
  BY <1>3, PongNames DEF Open
<1>4. \A n \in Open : n \in DOMAIN log /\ ~log[n].credited
  BY DEF IInv, OwnAnswers, Open
<1> SUFFICES ASSUME NEW k, NEW i, PongAt(k, i)' PROVE OnlyPong(k, i, replies[k].es[i].id)'
  BY DEF Late
<1> SUFFICES ASSUME NEW n, n = replies'[k].es[i].id
             PROVE  /\ log'[n].stage \in {"ping", "hold"} /\ ~log'[n].credited
                    /\ \A m, j : PongAt(m, j)' /\ replies'[m].es[j].id = n => m = k /\ j = i
  BY DEF OnlyPong
<1>5. CASE PongAt(k, i) /\ replies'[k].es[i] = replies[k].es[i]
  <2>1. /\ n = replies[k].es[i].id /\ n \in DOMAIN log /\ n \notin Open
        /\ log[n].stage \in {"ping", "hold"} /\ ~log[n].credited
    BY <1>3, <1>5, PongNames DEF Late, OnlyPong
  <2>2. ASSUME NEW m, NEW j, PongAt(m, j)', replies'[m].es[j].id = n PROVE m = k /\ j = i
    <3>1. CASE PongAt(m, j) /\ replies'[m].es[j] = replies[m].es[j]
      BY <1>5, <2>1, <2>2, <3>1 DEF Late, OnlyPong
    <3>2. CASE m = last /\ j \in DOMAIN p.es /\ replies'[m].es[j] = p.es[j] /\ p.es[j].kind = "pong"
      BY <2>1, <2>2, <3>2
    <3> QED BY <1>2, <2>2, <3>1, <3>2
  <2> QED BY <2>1, <2>2
<1>6. CASE k = last /\ i \in DOMAIN p.es /\ replies'[k].es[i] = p.es[i] /\ p.es[i].kind = "pong"
  <2>1. /\ n = p.es[i].id /\ n \in Open /\ n \in DOMAIN log
        /\ log[n].stage \in {"ping", "hold"} /\ ~log[n].credited
    BY <1>4, <1>6
  <2>2. ASSUME NEW m, NEW j, PongAt(m, j)', replies'[m].es[j].id = n PROVE m = k /\ j = i
    <3>1. CASE PongAt(m, j) /\ replies'[m].es[j] = replies[m].es[j]
      BY <1>3, <2>1, <2>2, <3>1
    <3>2. CASE m = last /\ j \in DOMAIN p.es /\ replies'[m].es[j] = p.es[j] /\ p.es[j].kind = "pong"
      BY <1>6, <2>1, <2>2, <3>2
    <3> QED BY <1>2, <2>2, <3>1, <3>2
  <2> QED BY <2>1, <2>2
<1>7. \/ PongAt(k, i) /\ replies'[k].es[i] = replies[k].es[i]
      \/ k = last /\ i \in DOMAIN p.es /\ replies'[k].es[i] = p.es[i] /\ p.es[i].kind = "pong"
  BY <1>2
<1> QED BY <1>5, <1>6, <1>7

LEMMA CreditKeepsLate ==
  ASSUME IInv, Late, replies # <<>>, replies' = Tail(replies),
         NEW own \in BOOLEAN, NEW H, Credit(own, H),
         own => \A k, i : PongAt(k, i)' => replies'[k].es[i].id # Cur
  PROVE  Late'
<1>1. Types
  BY DEF IInv
<1>2. \A n \in DOMAIN log : /\ log'[n].stage = log[n].stage
                            /\ log'[n].credited <=> (log[n].credited \/ (own /\ n = Cur))
  BY <1>1, CreditLog DEF LogSame
<1> QED BY <1>2, LateLess

(* The pong of the ping under way is read, and there was one of it only.   *)
LEMMA PongKeepsLate == ASSUME IInv, Late, ReceivePong PROVE Late'
<1> DEFINE answer == ContainsPong(Head(replies), Cur)
<1>1. Types /\ replies # <<>> /\ replies' = Tail(replies) /\ Credit(answer = "found", {})
  BY DEF IInv, ReceivePong
<1>2. ASSUME answer = "found" PROVE \A k, i : PongAt(k, i)' => replies'[k].es[i].id # Cur
  <2>1. PICK i \in DOMAIN Head(replies).es : Head(replies).es[i].kind = "pong" /\ Head(replies).es[i].id = Cur
    BY <1>2 DEF ContainsPong
  <2>2. PongAt(1, i) /\ replies[1].es[i].id = Cur
    BY <1>1, <2>1, PacketParts DEF PongAt
  <2>3. ASSUME NEW k, NEW j, PongAt(k, j)', replies'[k].es[j].id = Cur PROVE FALSE
    <3>1. k \in Nat /\ k # 0 /\ PongAt(k + 1, j) /\ replies[k + 1].es[j].id = Cur
      <4>1. k \in DOMAIN Tail(replies) /\ replies \in Seq(PacketType)
        BY <1>1, <2>3 DEF PongAt, Types
      <4>2. k \in Nat /\ k # 0
        BY <1>1, <4>1
      <4> QED BY <1>1, <2>3, <4>1, <4>2, PacketParts DEF PongAt
    <3>2. k + 1 = 1
      BY <2>2, <3>1 DEF Late, OnlyPong
    <3> QED BY <3>1, <3>2
  <2> QED BY <2>3
<1> HIDE DEF answer
<1>3. (answer = "found") \in BOOLEAN
  OBVIOUS
<1> QED BY <1>1, <1>2, <1>3, CreditKeepsLate

(* A query is credited, and no pong is for it.                             *)
LEMMA ResultKeepsLate == ASSUME IInv, Late, ReceiveResult PROVE Late'
<1>1. /\ Types /\ Waiting /\ ~Pinging /\ replies # <<>> /\ replies' = Tail(replies)
      /\ \E own \in BOOLEAN : \E H : Credit(own, H)
  BY DEF IInv, ReceiveResult, Accepts
<1>2. log[Cur].stage \notin {"ping", "hold"}
  BY <1>1 DEF IInv, Progress, Waits, Pinging
<1>3. ASSUME NEW k, NEW i, PongAt(k, i)', replies'[k].es[i].id = Cur PROVE FALSE
  <2>1. PongAt(k + 1, i) /\ replies[k + 1].es[i].id = Cur
    BY <1>1, <1>3, PacketParts DEF PongAt
  <2> QED BY <1>2, <2>1 DEF Late, OnlyPong
<1> QED BY <1>1, <1>3, CreditKeepsLate

LEMMA ServerKeepsLate == ASSUME IInv, Late, Serve \/ ServeTwo \/ Push PROVE Late'
<1>1. Types /\ log \in Seq(LogType)
  BY DEF IInv, Types
<1>2. ASSUME NEW i \in Open, NEW e \in Answers(i), e.kind = "pong"
      PROVE  e.id = i /\ log[i].stage \in {"ping", "hold"}
  BY <1>2 DEF Answers, Entry
<1>3. ASSUME NEW i \in Open, NEW e \in Answers(i) PROVE e \in TypeOfEntry
  <2>1. i \in DOMAIN log /\ Salts
    BY DEF Open, IInv
  <2> QED BY <1>1, <2>1, AnswersTrue
<1>4. ASSUME NEW e \in News \cup {Entry("forged", 0, 0)} PROVE e \in TypeOfEntry /\ e.kind # "pong"
  <2>1. e \in TypeOfEntry
    BY <1>1, NewsTrue
  <2> QED BY <2>1 DEF News, Entry
<1>5. CASE Serve
  <2>1. PICK i \in Open : \E e \in Answers(i) :
          /\ \E p \in {Single(e)} \cup {Box(<<n, e>>) : n \in News} : replies' = Append(replies, p)
          /\ log' = [log EXCEPT ![i].fate = Fate(e)]
    BY <1>5 DEF Serve
  <2>2. PICK e \in Answers(i) :
          /\ \E p \in {Single(e)} \cup {Box(<<n, e>>) : n \in News} : replies' = Append(replies, p)
          /\ log' = [log EXCEPT ![i].fate = Fate(e)]
    BY <2>1
  <2>3. \A n \in DOMAIN log : log'[n].stage = log[n].stage /\ log'[n].credited = log[n].credited
    BY <1>1, <2>2 DEF LogType
  <2>4. e \in TypeOfEntry /\ (e.kind = "pong" => e.id = i /\ log[i].stage \in {"ping", "hold"})
    BY <1>2, <1>3
  <2>5. CASE replies' = Append(replies, Single(e))
    <3>1. Single(e) \in PacketType
      BY <2>4, PacketsOf
    <3>2. \A k \in DOMAIN Single(e).es : k = 1 /\ Single(e).es[k] = e
      BY DEF Single
    <3> HIDE DEF Single
    <3> QED BY <2>3, <2>4, <2>5, <3>1, <3>2, LateMore
  <2>6. ASSUME NEW n \in News, replies' = Append(replies, Box(<<n, e>>)) PROVE Late'
    <3>1. n \in TypeOfEntry /\ n.kind # "pong"
      BY <1>4
    <3>2. Box(<<n, e>>) \in PacketType
      BY <2>4, <3>1, PacketsOf
    <3>3. \A k \in DOMAIN Box(<<n, e>>).es : \/ k = 1 /\ Box(<<n, e>>).es[k] = n
                                             \/ k = 2 /\ Box(<<n, e>>).es[k] = e
      BY DEF Box
    <3> HIDE DEF Box
    <3> QED BY <2>3, <2>4, <2>6, <3>1, <3>2, <3>3, LateMore
  <2> QED BY <2>2, <2>5, <2>6
<1>6. CASE ServeTwo
  <2>1. PICK i, j \in Open : i # j /\ \E e \in Answers(i), f \in Answers(j) :
          /\ replies' = Append(replies, Box(<<e, f>>))
          /\ log' = [log EXCEPT ![i].fate = Fate(e), ![j].fate = Fate(f)]
    BY <1>6 DEF ServeTwo
  <2>2. PICK e \in Answers(i), f \in Answers(j) :
          /\ replies' = Append(replies, Box(<<e, f>>))
          /\ log' = [log EXCEPT ![i].fate = Fate(e), ![j].fate = Fate(f)]
    BY <2>1
  <2>3. \A n \in DOMAIN log : log'[n].stage = log[n].stage /\ log'[n].credited = log[n].credited
    <3> DEFINE x == [log[i] EXCEPT !.fate = Fate(e)]
               y == [log[j] EXCEPT !.fate = Fate(f)]
    <3>1. log' = [log EXCEPT ![i] = x, ![j] = y]
      BY <2>1, <2>2
    <3>2. /\ x.stage = log[i].stage /\ x.credited = log[i].credited
          /\ y.stage = log[j].stage /\ y.credited = log[j].credited
      <4>1. log[i] \in LogType /\ log[j] \in LogType
        BY <1>1, LogParts DEF Open
      <4> QED BY <4>1 DEF LogType
    <3> HIDE DEF x, y
    <3>3. \A n \in DOMAIN log : log'[n] = log[n] \/ (n = i /\ log'[n] = x) \/ (n = j /\ log'[n] = y)
      BY <3>1
    <3> QED BY <3>2, <3>3
  <2>4. /\ e \in TypeOfEntry /\ (e.kind = "pong" => e.id = i /\ log[i].stage \in {"ping", "hold"})
        /\ f \in TypeOfEntry /\ (f.kind = "pong" => f.id = j /\ log[j].stage \in {"ping", "hold"})
    BY <1>2, <1>3
  <2>5. Box(<<e, f>>) \in PacketType
    BY <2>4, PacketsOf
  <2>6. \A k \in DOMAIN Box(<<e, f>>).es : \/ k = 1 /\ Box(<<e, f>>).es[k] = e
                                           \/ k = 2 /\ Box(<<e, f>>).es[k] = f
    BY DEF Box
  <2> QED BY <2>1, <2>2, <2>3, <2>4, <2>5, <2>6, LateMore
<1>7. CASE Push
  <2>1. PICK e \in News \cup {Entry("forged", 0, 0)} : replies' = Append(replies, Single(e))
    BY <1>7 DEF Push
  <2>2. e \in TypeOfEntry /\ e.kind # "pong"
    BY <1>4
  <2>3. Single(e) \in PacketType /\ \A k \in DOMAIN Single(e).es : Single(e).es[k] = e
    BY <2>2, PacketsOf
  <2>4. log' = log
    BY <1>7 DEF Push
  <2> QED BY <2>1, <2>2, <2>3, <2>4, LateMore
<1> QED BY <1>5, <1>6, <1>7

LEMMA StepLate == IInv /\ Late /\ [Next]_vars => Late'
<1> SUFFICES ASSUME IInv, Late, [Next]_vars PROVE Late'
  OBVIOUS
<1>1. CASE Send
  <2>1. log \in Seq(LogType) /\ replies' = replies
    BY <1>1 DEF Send, IInv, Types
  <2>2. \A n \in DOMAIN log : log'[n] = log[n]
    BY <1>1, <2>1 DEF Send
  <2> QED BY <2>1, <2>2, LateLess
<1>2. CASE SendFails \/ HoldOver \/ ReceiveFails \/ TimeOut \/ Rotate \/ Close \/ Returned \/ UNCHANGED vars
  <2>1. log' = log
    BY <1>2 DEF SendFails, HoldOver, ReceiveFails, TimeOut, Rotate, Close, Returned, vars
  <2>2. \/ replies' = replies \/ replies' = <<>>
        \/ replies # <<>> /\ replies' = Tail(replies)
    BY <1>2 DEF SendFails, HoldOver, ReceiveFails, TimeOut, Rotate, Close, Returned, vars
  <2> QED BY <2>1, <2>2, LateLess
<1> QED BY <1>1, <1>2, PongKeepsLate, ResultKeepsLate, ServerKeepsLate DEF Next, Client, Server

LEMMA LateInvariance == Spec => []Late
<1>1. Init => Late
  BY DEF Init, Late, PongAt
<1> QED BY <1>1, StepLate, Invariance, PTL DEF Spec

(* A packet that ends a hold on a line that is up is an error, exhausts the *)
(* budget, or is the pong of a ping of the series that was given up (ping  *)
(* and containsPong): HoldLossExplained of Session.                        *)
THEOREM HoldLossIsExplained == Spec => HoldLossExplained
<1> DEFINE A == report'.lost > report.lost /\ line = "up" /\ line' = "up" /\ replies' # replies
                  => EndsHold(Head(replies))
<1>1. IInv /\ Late /\ [Next]_vars => [A]_vars
  <2> SUFFICES ASSUME IInv, Late, Next,
                      report'.lost > report.lost, line = "up", line' = "up", replies' # replies
               PROVE  EndsHold(Head(replies))
    BY DEF vars
  <2>1. Types /\ report \in ReportType /\ report.lost \in Nat
    BY DEF IInv, Types, StageTypes, ReportType
  <2>2. report' # report
    BY <2>1
  <2>3. ReceivePong \/ ReceiveResult
    BY <2>2 DEF Next, Client, Server, Send, SendFails, HoldOver, ReceiveFails, TimeOut, Serve, ServeTwo, Push,
                Rotate, Close, Returned, client, vars
  <2>4. stage = "hold"
    <3>1. stage # "hold" => report'.lost = report.lost
      BY <2>1, <2>3 DEF ReceivePong, ReceiveResult, SucceedPing, SucceedQuery, Retry, Fail, ReportType
    <3> QED BY <2>1, <3>1
  <2>5. ReceivePong /\ replies # <<>>
    BY <2>3, <2>4 DEF ReceivePong, ReceiveResult, Pinging
  <2> DEFINE p == Head(replies)
             answer == ContainsPong(p, Cur)
  <2>6. answer = "error" \/ (answer = "none" /\ seen + 1 = MaxPongReplies)
    <3>1. answer = "found" => report' = report
      BY <2>4, <2>5 DEF ReceivePong, SucceedPing
    <3>2. answer \in {"found", "error", "none"}
      BY DEF ContainsPong
    <3> QED BY <2>2, <2>5, <3>1, <3>2 DEF ReceivePong
  <2>7. ASSUME answer = "error", p.es[1].kind = "pong" PROVE p.es[1].id \in GivenUp
    <3>1. ~p.box /\ ~\E i \in DOMAIN p.es : p.es[i].kind = "pong" /\ p.es[i].id = Cur
      BY <2>7 DEF ContainsPong
    <3>2. 1 \in DOMAIN p.es /\ p = replies[1] /\ 1 \in DOMAIN replies
      BY <2>1, <2>5, PacketParts
    <3>3. PongAt(1, 1) /\ p.es[1].id # Cur
      BY <2>7, <3>1, <3>2 DEF PongAt
    <3> DEFINE n == p.es[1].id
    <3>4. n \in DOMAIN log /\ log[n].stage \in {"ping", "hold"} /\ ~log[n].credited
      BY <3>2, <3>3, PongNames DEF Late, OnlyPong
    <3>5. log[n].stage # "hold"
      BY <2>4, <3>3, <3>4 DEF IInv, Progress, Held
    <3> QED BY <3>4, <3>5 DEF GivenUp
  <2>8. answer = "error" => ~p.box /\ p.es[1].kind \in {"pong", "bareerror", "forged"}
    BY DEF ContainsPong
  <2> QED BY <2>6, <2>7, <2>8 DEF EndsHold
<1> QED BY <1>1, Invariance, LateInvariance, PTL DEF Spec, HoldLossExplained
=============================================================================
