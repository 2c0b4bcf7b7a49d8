-------------------------------- MODULE Probe --------------------------------
(***************************************************************************)
(* One call of Checker.Probe and the time it may take: the loop over       *)
(* candidates (datacentre and transport), the connection and its carrier,  *)
(* the MTProto steps on it and the deadlines that bound each of them.  The *)
(* peer decides how long every operation takes, up to its deadline, and    *)
(* how it ends.  The probe runs in one goroutine: time passes only inside  *)
(* an operation.  Time spent computing is taken as zero.                   *)
(***************************************************************************)
EXTENDS Integers, FiniteSets

CONSTANTS
  Kinds,      \* kinds of target under study
  Depths,     \* "quick", "full"
  Timeout,    \* Checker.Timeout
  Hold,       \* Checker.Hold
  Pings,      \* Checker.pings()
  Inspect, Speedtest,
  Grace,      \* how long probeTCP waits for the peer to hang up (500 ms)
  Candidates  \* datacentres and transports to try, per kind

AllKinds == {"mtproto", "faketls", "socks5", "web", "tcp"}

ASSUME KindsAssumption == Kinds \subseteq AllKinds /\ Depths \subseteq {"quick", "full"}
ASSUME TimeoutAssumption == Timeout \in Nat \ {0}
ASSUME HoldAssumption == Hold \in Nat
ASSUME PingsAssumption == Pings \in Nat \ {0}
ASSUME OptionsAssumption == Inspect \in BOOLEAN /\ Speedtest \in BOOLEAN
ASSUME GraceAssumption == Grace \in Nat
ASSUME CandidatesAssumption == Candidates \in [AllKinds -> Nat \ {0}] /\ Candidates["tcp"] = 1

VARIABLES
  kind, depth,  \* what is probed, and how far
  now,          \* time since the probe began
  pc,           \* "next", "setup", "work", "close", "done"
  cand,         \* candidates begun
  phase,        \* operation of the set-up, then how the handshake ended
  step,         \* step of the handshake
  dl,           \* deadline of the connection or carrier
  open,         \* sockets held: the TCP connection or the WebSocket
  idle,         \* WEB candidates whose HTTP client holds a connection open
  cancelled,    \* the caller's context is cancelled
  result        \* "none", "live", or the stage of the error

vars == <<kind, depth, now, pc, cand, phase, step, dl, open, idle, cancelled, result>>

Full == depth = "full"

(* candidateWindow, budget and TotalBudget.                                *)
Window == IF Full THEN 3 * Timeout ELSE 2 * Timeout

Budget == IF Full
          THEN 4 * Timeout + (IF Inspect THEN 2 * Timeout ELSE 0)
                           + (IF Speedtest THEN 2 * Timeout ELSE 0) + Hold
          ELSE Timeout

TotalBudget == Window + Budget + Timeout

(* The steps of the handshake, each with the deadline its caller sets: one *)
(* round trip of quickCheck; or three of createAuthKey, the pings, two API *)
(* calls, the download and the hold.                                       *)
LastPing == 3 + Pings

Wanted(s) == \/ s <= LastPing
             \/ s \in {LastPing + 1, LastPing + 2} /\ Inspect
             \/ s = LastPing + 3 /\ Speedtest
             \/ s = LastPing + 4 /\ Hold > 0

LastStep == IF Full THEN LastPing + 4 ELSE 1

StepLimit(s) == IF s = LastPing + 3 THEN 2 * Timeout
                ELSE IF s = LastPing + 4 THEN Hold + Timeout
                ELSE Timeout

(* A failure of the key exchange, of the first ping or of getNearestDc ends *)
(* the handshake; that of a later ping only ends the series.               *)
Fatal(s) == s <= 4 \/ s = LastPing + 1

UpTo(s) == IF s <= LastPing THEN LastPing ELSE s

-----------------------------------------------------------------------------

Init ==
  /\ kind \in Kinds /\ depth \in Depths
  /\ now = 0 /\ pc = "next" /\ cand = 0 /\ phase = "none" /\ step = 0 /\ dl = 0
  /\ open = 0 /\ idle = {} /\ cancelled = FALSE /\ result = "none"

ContextOver == cancelled \/ now >= TotalBudget

AtMost(d, limit) == d \in 0..(IF limit > 0 THEN limit ELSE 0)

Smaller(a, b) == IF a < b THEN a ELSE b

First == IF kind = "web" THEN "bridge" ELSE "connect"

WindowOver_Never == FALSE

(* The window bounds the candidates of an MTProto proxy, not the           *)
(* datacentres of a SOCKS5 proxy nor the transports of a WEB proxy.        *)
WindowOver == kind \in {"mtproto", "faketls"} /\ cand > 0 /\ now > Window

NextCandidate_NoAdvance ==
  /\ pc = "next" /\ cand < Candidates[kind] /\ ~WindowOver
  /\ cand' = 1
  /\ pc' = "setup" /\ phase' = First
  /\ UNCHANGED <<kind, depth, now, step, dl, open, idle, cancelled, result>>

NextCandidate_OneMore ==
  /\ pc = "next" /\ cand <= Candidates[kind] /\ ~WindowOver
  /\ cand' = cand + 1
  /\ pc' = "setup" /\ phase' = First
  /\ UNCHANGED <<kind, depth, now, step, dl, open, idle, cancelled, result>>

NextCandidate ==
  /\ pc = "next" /\ cand < Candidates[kind] /\ ~WindowOver
  /\ cand' = cand + 1
  /\ pc' = "setup" /\ phase' = First
  /\ UNCHANGED <<kind, depth, now, step, dl, open, idle, cancelled, result>>

OutOfCandidates_LastSkipped ==
  /\ pc = "next"
  /\ cand + 1 = Candidates[kind] \/ WindowOver
  /\ pc' = "done" /\ result' = "protocol"
  /\ UNCHANGED <<kind, depth, now, cand, phase, step, dl, open, idle, cancelled>>

OutOfCandidates ==
  /\ pc = "next"
  /\ cand = Candidates[kind] \/ WindowOver
  /\ pc' = "done" /\ result' = "protocol"
  /\ UNCHANGED <<kind, depth, now, cand, phase, step, dl, open, idle, cancelled>>

Return(r) == pc' = "done" /\ result' = r /\ UNCHANGED <<cand, phase, step>>

GiveUp ==
  /\ pc' = IF cancelled \/ now' >= TotalBudget THEN "done" ELSE "next"
  /\ result' = IF cancelled \/ now' >= TotalBudget THEN "dial" ELSE result
  /\ UNCHANGED <<cand, phase, step>>

-----------------------------------------------------------------------------
(* Setting up what carries the handshake.                                  *)

(* dial and the two requests of webproxy.Dial are bounded by the context of *)
(* the attempt and by Timeout.                                              *)
OpenLimit == IF cancelled THEN 0 ELSE Smaller(Timeout, TotalBudget - now)

(* dialWebSocket: dial and TLS under the context, then Timeout.             *)
UpgradeLimit == (IF cancelled THEN 0 ELSE TotalBudget - now) + Timeout

Carried(last) ==
  /\ dl' = now' + Budget
  /\ pc' = IF last THEN "work" ELSE "setup"
  /\ step' = 1

Connect(d) ==
  /\ pc = "setup" /\ phase = "connect" /\ ~ContextOver
  /\ AtMost(d, OpenLimit) /\ now' = now + d
  /\ Carried(kind = "mtproto")
  /\ phase' = CASE kind = "mtproto" -> phase
                [] kind = "faketls" -> "hello"
                [] kind = "tcp"     -> "grace"
                [] OTHER            -> "greeting"
  /\ open' = open + 1
  /\ UNCHANGED <<kind, depth, cand, idle, cancelled, result>>

(* The ServerHello, the SOCKS5 greeting and the CONNECT reply all have the  *)
(* deadline dial set on the connection.                                     *)
Negotiate(d) ==
  /\ pc = "setup" /\ phase \in {"hello", "greeting", "request"}
  /\ AtMost(d, dl - now) /\ now' = now + d
  /\ phase' = IF phase = "greeting" THEN "request" ELSE phase
  /\ pc' = IF phase = "greeting" THEN "setup" ELSE "work"
  /\ UNCHANGED <<kind, depth, cand, step, dl, open, idle, cancelled, result>>

(* probeTCP has written eight bytes; a peer that answers or stays silent    *)
(* for the grace period is live, one that hangs up is not (SetupFails).     *)
Listen(d) ==
  /\ pc = "setup" /\ phase = "grace"
  /\ AtMost(d, Grace) /\ now' = now + d
  /\ open' = 0
  /\ Return("live")
  /\ UNCHANGED <<kind, depth, dl, idle, cancelled>>

(* A WEB candidate sends its requests through an HTTP client of its own, on *)
(* a clone of http.DefaultTransport: an answered request leaves the         *)
(* connection open for the next one, unless the peer closes it; a failed    *)
(* one may.  Nothing in the program ever makes the client close it.         *)
Requests == idle' \in (IF kind = "web" THEN {idle \ {cand}, idle \cup {cand}} ELSE {idle})

(* Over a WebSocket the carrier makes no requests.                          *)
Exchanges == IF phase = "upgrade" THEN UNCHANGED idle ELSE Requests

Bridge(d) ==
  /\ pc = "setup" /\ phase = "bridge" /\ ~ContextOver
  /\ AtMost(d, OpenLimit) /\ now' = now + d
  /\ phase' = "session" /\ Requests
  /\ UNCHANGED <<kind, depth, pc, cand, step, dl, open, cancelled, result>>

(* The session answer picks HTTPS, or a WebSocket that is still to dial.    *)
CreateSession(d, upgrade) ==
  /\ pc = "setup" /\ phase = "session" /\ ~ContextOver
  /\ AtMost(d, OpenLimit) /\ now' = now + d
  /\ Requests
  /\ IF upgrade THEN phase' = "upgrade" /\ UNCHANGED <<pc, step, dl>>
     ELSE Carried(TRUE) /\ UNCHANGED phase
  /\ UNCHANGED <<kind, depth, cand, open, cancelled, result>>

Upgrade(d) ==
  /\ pc = "setup" /\ phase = "upgrade" /\ ~ContextOver
  /\ AtMost(d, UpgradeLimit) /\ now' = now + d
  /\ Carried(TRUE) /\ open' = open + 1
  /\ UNCHANGED <<kind, depth, cand, phase, idle, cancelled, result>>

(* Where a failure of the set-up stops the probe; a CONNECT the SOCKS5      *)
(* server refuses is the only one after which another candidate is tried.   *)
SetupLimit == IF phase = "upgrade" THEN UpgradeLimit
              ELSE IF phase \in {"connect", "bridge", "session"} THEN OpenLimit
              ELSE IF phase = "grace" THEN Grace
              ELSE dl - now

SetupFails(d) ==
  /\ pc = "setup" /\ AtMost(d, SetupLimit) /\ now' = now + d
  /\ open' = 0 /\ Exchanges
  /\ CASE phase = "connect" -> Return("dial")
       [] phase = "bridge" -> Return("dial") \/ Return("handshake")
       [] phase = "request" -> GiveUp
       [] OTHER -> Return("handshake")
  /\ UNCHANGED <<kind, depth, dl, cancelled>>

-----------------------------------------------------------------------------
(* The handshake proper.                                                   *)

(* A step sets its own deadline, later than the one of the connection; its  *)
(* last operation may run into it.                                          *)
Began(s, d) == /\ AtMost(d, StepLimit(s))
               /\ now' = now + d
               /\ dl' = now + StepLimit(s)

(* The end of an attempt: the carrier is closed, which takes time only for  *)
(* a WEB proxy, then the probe returns or goes on.                          *)
Leave(r) == pc' = "close" /\ phase' = r /\ UNCHANGED step

(* The step after s is the next one wanted.                                *)
GoOn(s) ==
  \/ /\ \A t \in (s + 1)..LastStep : ~Wanted(t)
     /\ Leave("live")
  \/ \E t \in (s + 1)..LastStep :
       /\ Wanted(t) /\ \A u \in (s + 1)..(t - 1) : ~Wanted(u)
       /\ step' = t /\ UNCHANGED <<pc, phase>>

StepPasses(d) ==
  /\ pc = "work" /\ Began(step, d)
  /\ GoOn(step) /\ Exchanges
  /\ UNCHANGED <<kind, depth, cand, open, cancelled, result>>

StepFails(d) ==
  /\ pc = "work" /\ Began(step, d)
  /\ IF Fatal(step) THEN Leave("failed") ELSE GoOn(UpTo(step))
  /\ Exchanges
  /\ UNCHANGED <<kind, depth, cand, open, cancelled, result>>

(* Carrier.Close sends CLOSE within the deadline left, then DELETE under a  *)
(* context of its own.                                                      *)
CloseLimit == IF kind = "web" THEN (IF dl > now THEN Smaller(Timeout, dl - now) ELSE 0) + Timeout ELSE 0

Close_KeepsSocks(d) ==
  /\ pc = "close" /\ AtMost(d, CloseLimit) /\ now' = now + d
  /\ open' = IF kind = "socks5" THEN open ELSE 0
  /\ Requests
  /\ IF phase = "live" THEN Return("live") ELSE GiveUp
  /\ UNCHANGED <<kind, depth, dl, cancelled>>

Close(d) ==
  /\ pc = "close" /\ AtMost(d, CloseLimit) /\ now' = now + d
  /\ open' = 0 /\ Requests
  /\ IF phase = "live" THEN Return("live") ELSE GiveUp
  /\ UNCHANGED <<kind, depth, dl, cancelled>>

(* The user interrupts the run: reads and writes under way are not affected. *)
Cancel ==
  /\ pc # "done" /\ ~cancelled
  /\ cancelled' = TRUE
  /\ UNCHANGED <<kind, depth, now, pc, cand, phase, step, dl, open, idle, result>>

(* The peer closes a connection nobody uses, or IdleConnTimeout does.       *)
KeepAliveEnds(c) ==
  /\ c \in idle
  /\ idle' = idle \ {c}
  /\ UNCHANGED <<kind, depth, now, pc, cand, phase, step, dl, open, cancelled, result>>

Returned == pc = "done" /\ UNCHANGED vars

Advance(d) ==
  \/ Connect(d) \/ Negotiate(d) \/ Listen(d) \/ Bridge(d) \/ Upgrade(d) \/ SetupFails(d)
  \/ \E upgrade \in BOOLEAN : CreateSession(d, upgrade)
  \/ StepPasses(d) \/ StepFails(d) \/ Close(d)

Durations == 0..(TotalBudget + Timeout + Grace)

Next == \/ NextCandidate \/ OutOfCandidates
        \/ \E d \in Durations : Advance(d)
        \/ \E c \in idle : KeepAliveEnds(c)
        \/ Cancel \/ Returned

Spec == Init /\ [][Next]_vars

(* Every operation ends, at its deadline at the latest; nobody has to cancel. *)
Progress == NextCandidate \/ OutOfCandidates \/ \E d \in Durations : Advance(d)

FairSpec == Spec /\ WF_vars(Progress)

-----------------------------------------------------------------------------

TypeOK ==
  /\ kind \in Kinds /\ depth \in Depths /\ now \in Nat /\ dl \in Nat
  /\ pc \in {"next", "setup", "work", "close", "done"}
  /\ cand \in 0..Candidates[kind] /\ open \in Nat /\ cancelled \in BOOLEAN
  /\ result \in {"none", "live", "dial", "handshake", "protocol"}
  /\ phase \in {"none", "connect", "hello", "greeting", "request", "grace", "bridge",
                "session", "upgrade", "live", "failed"}
  /\ step \in 0..(LastPing + 4)
  /\ idle \in SUBSET (1..Candidates[kind])

(* How late a probe can end, per kind: where the last candidate can begin, *)
(* what its set-up may add, every step at its limit, and Carrier.Close.    *)
WorkStart == CASE kind = "mtproto" -> Window + Timeout
               [] kind = "faketls" -> Window + Timeout + Budget
               [] kind = "socks5"  -> TotalBudget + Budget
               [] kind = "tcp"     -> Timeout + Grace
               [] OTHER            -> TotalBudget + Timeout

Optional == (IF Inspect THEN 2 * Timeout ELSE 0) + (IF Speedtest THEN 2 * Timeout ELSE 0)
              + (IF Hold > 0 THEN Hold + Timeout ELSE 0)

WorkMax == IF kind = "tcp" THEN 0
           ELSE IF Full THEN (3 + Pings) * Timeout + Optional ELSE Timeout

CloseMax == IF kind = "web" THEN Timeout ELSE 0

(* No sequence of slow answers, refused candidates and late failures keeps *)
(* a probe beyond this: the retries are bounded together with the steps.   *)
EndsInTime == now <= WorkStart + WorkMax + CloseMax

(* The quick check of a plain proxy ends within TotalBudget.               *)
PlainFitsBudget == kind = "mtproto" /\ ~Full => now <= TotalBudget

(* A protocol error is the last word on a proxy only when every candidate  *)
(* was tried or the window closed on the remaining ones; a dial error only *)
(* when a connection failed or the context is over.                        *)
VerdictHasCause ==
  /\ result = "protocol" => \/ cand = Candidates[kind]
                            \/ kind \in {"mtproto", "faketls"} /\ now > Window
  /\ result = "dial" => ContextOver \/ phase \in {"connect", "bridge"}

(* Candidates are tried one socket at a time, and every one the probe       *)
(* opened is closed on any of the paths out of the loop.  What stays behind *)
(* is at most one HTTP client for each WEB candidate begun, with the        *)
(* connection it keeps alive (NothingLeftOpen).                             *)
SocketsAreClosed ==
  /\ open <= 1
  /\ pc \in {"next", "done"} => open = 0
  /\ idle \subseteq {c \in 1..cand : kind = "web"}

(* The probe returns, however the peer answers.                            *)
ProbeEnds == <>(pc = "done")

(* probe.go:392: "TotalBudget bounds one attempt end to end".               *)
StaysInBudget == now <= TotalBudget

(* No connection outlives the probe: the keep-alive connections of a WEB    *)
(* proxy's clients do (neither Carrier.Close nor a failed Dial closes them). *)
NothingLeftOpen == pc = "done" => open = 0 /\ idle = {}

=============================================================================
