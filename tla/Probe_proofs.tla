---------------------------- MODULE Probe_proofs ----------------------------
(***************************************************************************)
(* Proofs about Probe, for every time-out, number of pings, hold and number *)
(* of candidates.                                                          *)
(***************************************************************************)
EXTENDS Probe, TLAPS

(* TypeOK without the connections of the HTTP clients, which no other part *)
(* of the state depends on: Kept is about them.                            *)
Types ==
  /\ kind \in Kinds /\ depth \in Depths /\ now \in Nat /\ dl \in Nat
  /\ pc \in {"next", "setup", "work", "close", "done"}
  /\ cand \in 0..Candidates[kind] /\ open \in Nat /\ cancelled \in BOOLEAN
  /\ result \in {"none", "live", "dial", "handshake", "protocol"}
  /\ phase \in {"none", "connect", "hello", "greeting", "request", "grace", "bridge",
                "session", "upgrade", "live", "failed"}
  /\ step \in 0..(LastPing + 4)

Kept == idle \subseteq {c \in 1..cand : kind = "web"}

(* What the steps from s on may still take.                                *)
Rest(s) ==
  IF ~Full THEN Timeout
  ELSE IF s <= LastPing THEN (LastPing + 1 - s) * Timeout + Optional
  ELSE (IF Inspect THEN (IF s = LastPing + 1 THEN 2 * Timeout
                         ELSE IF s = LastPing + 2 THEN Timeout ELSE 0) ELSE 0)
       + (IF Speedtest /\ s <= LastPing + 3 THEN 2 * Timeout ELSE 0)
       + (IF Hold > 0 THEN Hold + Timeout ELSE 0)

StartMax == IF kind \in {"mtproto", "faketls"} THEN Window
            ELSE IF kind = "tcp" THEN 0 ELSE TotalBudget

(* Where the probe is bounds the clock.                                    *)
Setting ==
  \/ phase = "connect" /\ kind # "web" /\ now <= StartMax /\ open = 0
  \/ phase = "hello" /\ kind = "faketls" /\ now <= dl /\ dl <= WorkStart /\ open = 1 /\ step = 1
  \/ phase \in {"greeting", "request"} /\ kind = "socks5" /\ now <= dl /\ dl <= WorkStart /\ open = 1 /\ step = 1
  \/ phase = "grace" /\ kind = "tcp" /\ now <= Timeout /\ open = 1
  \/ phase \in {"bridge", "session", "upgrade"} /\ kind = "web" /\ now <= TotalBudget /\ open = 0

Working == /\ step \in 1..LastStep /\ Wanted(step) /\ open \in {0, 1}
           /\ now + Rest(step) <= WorkStart + WorkMax

Closing == open \in {0, 1} /\ now <= WorkStart + WorkMax /\ dl <= WorkStart + WorkMax

Clock ==
  /\ pc = "next" => open = 0 /\ (now = 0 \/ (cand > 0 /\ now < TotalBudget))
  /\ pc # "next" => cand > 0
  /\ pc = "setup" => Setting
  /\ pc = "work" => Working
  /\ pc = "close" => Closing
  /\ pc = "done" => open = 0
  /\ EndsInTime

Verdict == VerdictHasCause /\ (pc # "done" => result = "none")

IInv == Types /\ Clock /\ Verdict

-----------------------------------------------------------------------------
(* The sizes involved.                                                     *)

LEMMA ProductNat == ASSUME NEW a \in Nat, NEW b \in Nat PROVE a * b \in Nat
OBVIOUS

LEMMA OptionalNat == Optional \in Nat
BY TimeoutAssumption, HoldAssumption, OptionsAssumption DEF Optional

LEMMA Sizes ==
  /\ Window \in Nat /\ Budget \in Nat /\ TotalBudget \in Nat /\ StartMax \in Nat
  /\ Timeout \in Nat /\ Timeout > 0
  /\ TotalBudget = Window + Budget + Timeout
  /\ Budget >= Timeout
BY TimeoutAssumption, HoldAssumption, OptionsAssumption
   DEF Window, Budget, TotalBudget, StartMax

LEMMA Bounds ==
  /\ WorkStart \in Nat /\ CloseMax \in Nat
  /\ StartMax <= WorkStart /\ StartMax <= TotalBudget
  /\ kind \in {"mtproto", "faketls"} => StartMax + Timeout <= WorkStart
  /\ kind = "faketls" => StartMax + Timeout + Budget <= WorkStart
  /\ kind = "socks5" => TotalBudget + Budget <= WorkStart
  /\ kind = "tcp" => StartMax = 0 /\ WorkStart = Timeout + Grace
  /\ kind = "web" => TotalBudget + Timeout <= WorkStart /\ CloseMax = Timeout
BY Sizes, GraceAssumption DEF WorkStart, CloseMax, StartMax

LEMMA WorkMaxNat == WorkMax \in Nat
<1>1. (3 + Pings) * Timeout \in Nat
  BY ProductNat, PingsAssumption, TimeoutAssumption
<1> QED
  BY <1>1, OptionalNat, TimeoutAssumption DEF WorkMax

LEMMA SomeCandidates == ASSUME NEW k \in Kinds PROVE Candidates[k] \in Nat /\ Candidates[k] > 0
<1>1. k \in AllKinds
  BY KindsAssumption
<1>2. Candidates[k] \in Nat \ {0}
  BY <1>1, CandidatesAssumption
<1> QED
  BY <1>2

(* Nothing of this changes during a probe.                                 *)
LEMMA Unchanged ==
  ASSUME kind' = kind, depth' = depth
  PROVE  /\ Full' = Full /\ Window' = Window /\ Budget' = Budget
         /\ TotalBudget' = TotalBudget /\ StartMax' = StartMax /\ LastStep' = LastStep
         /\ WorkStart' = WorkStart /\ WorkMax' = WorkMax /\ CloseMax' = CloseMax
<1>1. Full' = Full
  BY DEF Full
<1>2. Window' = Window /\ Budget' = Budget /\ LastStep' = LastStep /\ WorkMax' = WorkMax
  BY <1>1 DEF Window, Budget, LastStep, WorkMax
<1>3. TotalBudget' = TotalBudget
  BY <1>2 DEF TotalBudget
<1>4. StartMax' = StartMax /\ WorkStart' = WorkStart /\ CloseMax' = CloseMax
  BY <1>2, <1>3 DEF StartMax, WorkStart, CloseMax
<1> QED
  BY <1>1, <1>2, <1>3, <1>4

-----------------------------------------------------------------------------
(* The steps of the handshake fit what Rest says.                          *)

LEMMA RestOfStart == ASSUME kind # "tcp" PROVE Rest(1) = WorkMax
BY PingsAssumption, TimeoutAssumption DEF Rest, WorkMax, LastPing

LEMMA LastStepNat == LastPing \in Nat /\ LastPing >= 4 /\ LastStep \in Nat /\ LastStep >= 1
BY PingsAssumption DEF LastPing, LastStep

LEMMA RestNat == ASSUME NEW s \in 1..LastStep PROVE Rest(s) \in Nat
<1>1. CASE ~Full
  BY <1>1, Sizes DEF Rest
<1>2. CASE Full /\ s <= LastPing
  <2>1. LastPing + 1 - s \in Nat
    BY <1>2, LastStepNat
  <2>2. (LastPing + 1 - s) * Timeout \in Nat
    BY <2>1, Sizes, ProductNat
  <2> QED
    BY <1>2, <2>2, OptionalNat DEF Rest
<1>3. CASE Full /\ ~(s <= LastPing)
  BY <1>3, Sizes, HoldAssumption, OptionsAssumption DEF Rest
<1> QED
  BY <1>1, <1>2, <1>3

LEMMA RestOfLast ==
  ASSUME NEW s \in 1..LastStep, Wanted(s)
  PROVE  StepLimit(s) \in Nat /\ StepLimit(s) <= Rest(s)
<1> USE LastStepNat, Sizes, HoldAssumption, OptionsAssumption
<1>1. CASE ~Full
  BY <1>1 DEF Rest, StepLimit, LastStep
<1>2. CASE Full /\ s <= LastPing
  <2> DEFINE m == LastPing - s
  <2>1. m \in Nat /\ LastPing + 1 - s = m + 1
    BY <1>2
  <2>2. (m + 1) * Timeout = m * Timeout + Timeout /\ m * Timeout \in Nat
    BY <2>1, ProductNat
  <2>3. Rest(s) = m * Timeout + Timeout + Optional
    BY <1>2, <2>1, <2>2 DEF Rest
  <2>4. StepLimit(s) = Timeout
    BY <1>2 DEF StepLimit
  <2> QED
    BY <2>2, <2>3, <2>4, OptionalNat
<1>3. CASE Full /\ ~(s <= LastPing)
  BY <1>3 DEF Rest, StepLimit, Wanted, LastStep
<1> QED
  BY <1>1, <1>2, <1>3

LEMMA RestOfNext ==
  ASSUME NEW s \in 1..LastStep, Wanted(s), NEW t \in (s + 1)..LastStep, Wanted(t)
  PROVE  StepLimit(s) + Rest(t) <= Rest(s)
<1> USE LastStepNat, Sizes, HoldAssumption, OptionsAssumption
<1>1. Full
  BY DEF LastStep
<1>2. CASE t <= LastPing
  <2> DEFINE m == LastPing + 1 - t
             n == t - s - 1
  <2>1. m \in Nat /\ n \in Nat /\ LastPing + 1 - s = m + n + 1 /\ s <= LastPing
    BY <1>2
  <2>2. (m + n + 1) * Timeout = m * Timeout + n * Timeout + Timeout
        /\ m * Timeout \in Nat /\ n * Timeout \in Nat
    BY <2>1, ProductNat
  <2>3. Rest(s) = m * Timeout + n * Timeout + Timeout + Optional
    BY <1>1, <2>1, <2>2 DEF Rest
  <2>4. Rest(t) = m * Timeout + Optional
    BY <1>1, <1>2 DEF Rest
  <2>5. StepLimit(s) = Timeout
    BY <2>1 DEF StepLimit
  <2> HIDE DEF m, n
  <2> QED
    BY <2>2, <2>3, <2>4, <2>5, OptionalNat
<1>3. CASE ~(t <= LastPing) /\ s <= LastPing
  <2>1. Rest(t) \in Nat /\ Rest(t) <= Optional
    BY <1>1, <1>3 DEF Rest, Optional
  <2> DEFINE m == LastPing - s
  <2>2. m \in Nat /\ LastPing + 1 - s = m + 1
    BY <1>3
  <2>3. (m + 1) * Timeout = m * Timeout + Timeout /\ m * Timeout \in Nat
    BY <2>2, ProductNat
  <2>4. Rest(s) = m * Timeout + Timeout + Optional
    BY <1>1, <1>3, <2>2, <2>3 DEF Rest
  <2>5. StepLimit(s) = Timeout
    BY <1>3 DEF StepLimit
  <2> HIDE DEF m
  <2> QED
    BY <2>1, <2>3, <2>4, <2>5, OptionalNat
<1>4. CASE ~(t <= LastPing) /\ ~(s <= LastPing)
  BY <1>1, <1>4 DEF Rest, StepLimit, Wanted, LastStep
<1> QED
  BY <1>2, <1>3, <1>4

-----------------------------------------------------------------------------
(* The invariant holds initially and every action preserves it.            *)

LEMMA InitHolds == Init => IInv
<1> SUFFICES ASSUME Init PROVE IInv
  OBVIOUS
<1>1. Types
  <2>1. cand \in 0..Candidates[kind]
    BY SomeCandidates DEF Init
  <2>2. step \in 0..(LastPing + 4)
    BY LastStepNat DEF Init
  <2> QED
    BY <2>1, <2>2 DEF Init, Types
<1>2. EndsInTime
  BY Bounds, WorkMaxNat DEF Init, EndsInTime
<1> QED
  BY <1>1, <1>2 DEF Init, IInv, Clock, Verdict, VerdictHasCause

LEMMA NextCandidateKeeps == ASSUME IInv, NextCandidate PROVE IInv'
<1>1. kind' = kind /\ depth' = depth /\ now' = now /\ open' = open /\ result' = result
      /\ pc = "next" /\ pc' = "setup" /\ phase' = First /\ cand' = cand + 1 /\ cancelled' = cancelled
      /\ step' = step /\ dl' = dl /\ cand < Candidates[kind] /\ ~WindowOver
  BY DEF NextCandidate
<1>2. Types'
  BY <1>1, SomeCandidates DEF IInv, Types, First
<1>3. now <= StartMax
  <2>1. kind \in Kinds /\ now \in Nat /\ cand \in Nat
    BY SomeCandidates DEF IInv, Types
  <2>2. now = 0 \/ (cand > 0 /\ now < TotalBudget)
    BY <1>1 DEF IInv, Clock
  <2> QED
    BY <1>1, <2>1, <2>2, Sizes, CandidatesAssumption DEF WindowOver, StartMax
<1>4. Setting'
  <2>1. now <= TotalBudget
    BY <1>3, Sizes, Bounds DEF IInv, Types
  <2> QED
    BY <1>1, <1>3, <2>1, Unchanged DEF Setting, First, IInv, Clock
<1>5. EndsInTime'
  BY <1>1, Unchanged DEF EndsInTime, IInv, Clock
<1>6. Verdict'
  BY <1>1 DEF Verdict, VerdictHasCause, IInv
<1>7. cand' > 0
  BY <1>1, SomeCandidates DEF IInv, Types
<1> QED
  BY <1>1, <1>2, <1>4, <1>5, <1>6, <1>7 DEF IInv, Clock

LEMMA OutOfCandidatesKeeps == ASSUME IInv, OutOfCandidates PROVE IInv'
<1>1. kind' = kind /\ depth' = depth /\ now' = now /\ open' = open /\ pc = "next" /\ pc' = "done"
      /\ result' = "protocol" /\ cand' = cand /\ phase' = phase /\ step' = step /\ dl' = dl
      /\ cancelled' = cancelled /\ (cand = Candidates[kind] \/ WindowOver)
  BY DEF OutOfCandidates
<1>2. Types'
  BY <1>1 DEF IInv, Types
<1>3. Clock'
  <2>1. cand > 0
    BY <1>1, SomeCandidates DEF IInv, Types, WindowOver
  <2> QED
    BY <1>1, <2>1, Unchanged DEF IInv, Clock, EndsInTime
<1>4. Verdict'
  BY <1>1, Unchanged DEF Verdict, VerdictHasCause, WindowOver
<1> QED
  BY <1>2, <1>3, <1>4 DEF IInv

LEMMA CancelKeeps == ASSUME IInv, Cancel PROVE IInv'
<1>1. kind' = kind /\ depth' = depth /\ now' = now /\ open' = open /\ pc' = pc /\ pc # "done"
      /\ result' = result /\ cand' = cand /\ phase' = phase /\ step' = step /\ dl' = dl /\ cancelled' = TRUE
  BY DEF Cancel
<1>2. Types'
  BY <1>1 DEF IInv, Types
<1>3. Clock'
  <2>1. Setting => Setting'
    BY <1>1, Unchanged DEF Setting
  <2>2. Working => Working'
    <3>1. Rest(step)' = Rest(step)
      BY <1>1, Unchanged DEF Rest
    <3> QED
      BY <1>1, <3>1, Unchanged DEF Working, Wanted
  <2> QED
    BY <1>1, <2>1, <2>2, Unchanged DEF IInv, Clock, EndsInTime, Closing
<1>4. Verdict'
  BY <1>1 DEF Verdict, VerdictHasCause, IInv
<1> QED
  BY <1>2, <1>3, <1>4 DEF IInv

LEMMA ReturnedKeeps ==
  ASSUME IInv, UNCHANGED <<kind, depth, now, pc, cand, phase, step, dl, open, cancelled, result>>
  PROVE  IInv'
<1>1. kind' = kind /\ depth' = depth /\ now' = now /\ open' = open /\ pc' = pc
      /\ result' = result /\ cand' = cand /\ phase' = phase /\ step' = step /\ dl' = dl /\ cancelled' = cancelled
  OBVIOUS
<1>2. Types'
  BY <1>1 DEF IInv, Types
<1>3. Clock'
  <2>1. Setting => Setting'
    BY <1>1, Unchanged DEF Setting
  <2>2. Working => Working'
    <3>1. Rest(step)' = Rest(step)
      BY <1>1, Unchanged DEF Rest
    <3> QED
      BY <1>1, <3>1, Unchanged DEF Working, Wanted
  <2> QED
    BY <1>1, <2>1, <2>2, Unchanged DEF IInv, Clock, EndsInTime, Closing
<1>4. Verdict'
  BY <1>1, Unchanged DEF Verdict, VerdictHasCause, IInv, ContextOver
<1> QED
  BY <1>2, <1>3, <1>4 DEF IInv

-----------------------------------------------------------------------------
(* The set-up.                                                             *)

LEMMA Took == ASSUME NEW d, NEW limit \in Int, AtMost(d, limit)
              PROVE  d \in Nat /\ (d = 0 \/ d <= limit)
BY DEF AtMost

LEMMA OpenLimitFits ==
  ASSUME now \in Nat, now <= TotalBudget
  PROVE  OpenLimit \in Nat /\ OpenLimit <= Timeout /\ now + OpenLimit <= TotalBudget
BY Sizes DEF OpenLimit, Smaller

(* The first step begins with all of the work ahead.                       *)
LEMMA WorkBegins ==
  ASSUME kind # "tcp", kind' = kind, depth' = depth, step' = 1, open' \in {0, 1}, now' <= WorkStart,
         now' \in Nat
  PROVE  Working' /\ step' \in 0..(LastPing + 4) /\ EndsInTime'
<1>1. Rest(step)' = Rest(1)
  BY Unchanged DEF Rest
<1>2. Working'
  BY <1>1, RestOfStart, LastStepNat, Unchanged, WorkMaxNat, Bounds DEF Working, Wanted
<1>3. EndsInTime'
  BY Unchanged, WorkMaxNat, Bounds DEF EndsInTime
<1> QED
  BY <1>2, <1>3, LastStepNat

(* A connection that is set up in time has its deadline in time.           *)
LEMMA ConnectKeeps == ASSUME IInv, NEW d, Connect(d) PROVE IInv'
<1>1. kind' = kind /\ depth' = depth /\ now' = now + d /\ pc = "setup" /\ phase = "connect"
      /\ cand' = cand /\ cancelled' = cancelled /\ result' = result /\ AtMost(d, OpenLimit)
      /\ dl' = now' + Budget /\ open' = open + 1 /\ step' = 1
      /\ pc' = (IF kind = "mtproto" THEN "work" ELSE "setup")
      /\ phase' = (CASE kind = "mtproto" -> "connect" [] kind = "faketls" -> "hello"
                     [] kind = "tcp" -> "grace" [] OTHER -> "greeting")
  BY DEF Connect, Carried
<1>2. kind \in Kinds /\ kind # "web" /\ now \in Nat /\ now <= StartMax /\ open = 0 /\ cand > 0 /\ result = "none"
  BY <1>1 DEF IInv, Types, Clock, Setting, Verdict
<1>3. now <= TotalBudget
  BY <1>2, Sizes, Bounds
<1>4. d \in Nat /\ d <= Timeout /\ now + d <= TotalBudget
  BY <1>1, <1>2, <1>3, OpenLimitFits, Took, Sizes
<1>5. now' \in Nat /\ now' <= StartMax + Timeout /\ now' <= TotalBudget /\ dl' \in Nat
  BY <1>1, <1>2, <1>4, Sizes
<1>6. kind \in AllKinds
  BY <1>2, KindsAssumption
<1>7. /\ now' <= WorkStart /\ (kind \in {"faketls", "socks5"} => dl' <= WorkStart)
      /\ kind = "tcp" => now' <= Timeout
  <2>1. CASE kind = "tcp"
    BY <1>1, <1>2, <1>4, <2>1, Bounds, Sizes, GraceAssumption
  <2>2. CASE kind # "tcp"
    <3>1. kind \in {"mtproto", "faketls", "socks5"}
      BY <1>2, <1>6, <2>2 DEF AllKinds
    <3> QED
      BY <1>1, <1>2, <1>5, <3>1, Bounds, Sizes
  <2> QED
    BY <2>1, <2>2
<1>8. (kind # "tcp" => Working') /\ step' \in 0..(LastPing + 4) /\ EndsInTime'
  <2>1. step' \in 0..(LastPing + 4)
    BY <1>1, LastStepNat
  <2>2. EndsInTime'
    BY <1>1, <1>5, <1>7, Unchanged, WorkMaxNat, Bounds DEF EndsInTime
  <2> QED
    BY <1>1, <1>2, <1>5, <1>7, <2>1, <2>2, WorkBegins
<1>9. Types'
  BY <1>1, <1>2, <1>5, <1>8 DEF IInv, Types
<1>10. /\ pc' = "setup" \/ pc' = "work"
       /\ pc' = "setup" => Setting' /\ kind # "mtproto"
       /\ pc' = "work" => kind = "mtproto"
  <2>1. dl' >= now' /\ open' = 1
    BY <1>1, <1>2, <1>5, Sizes
  <2>2. CASE kind = "mtproto"
    BY <1>1, <2>2
  <2>3. CASE kind = "tcp"
    <3>1. phase' = "grace" /\ kind' = "tcp" /\ now' <= Timeout /\ open' = 1 /\ pc' = "setup"
      BY <1>1, <1>7, <2>1, <2>3
    <3> QED
      BY <2>3, <3>1 DEF Setting
  <2>4. CASE kind \in {"faketls", "socks5"}
    <3>1. phase' \in {"hello", "greeting"} /\ (phase' = "hello" => kind' = "faketls")
          /\ (phase' = "greeting" => kind' = "socks5") /\ pc' = "setup"
          /\ now' <= dl' /\ dl' <= WorkStart' /\ open' = 1 /\ step' = 1
      BY <1>1, <1>7, <2>1, <2>4, Unchanged
    <3> QED
      BY <2>4, <3>1 DEF Setting
  <2> QED
    BY <1>2, <1>6, <2>2, <2>3, <2>4 DEF AllKinds
<1>11. Clock'
  BY <1>1, <1>2, <1>8, <1>10 DEF Clock
<1> QED
  BY <1>1, <1>2, <1>9, <1>11 DEF IInv, Verdict, VerdictHasCause

LEMMA NegotiateKeeps == ASSUME IInv, NEW d, Negotiate(d) PROVE IInv'
<1>1. kind' = kind /\ depth' = depth /\ now' = now + d /\ pc = "setup"
      /\ phase \in {"hello", "greeting", "request"} /\ step' = step /\ dl' = dl /\ open' = open
      /\ cand' = cand /\ cancelled' = cancelled /\ result' = result /\ AtMost(d, dl - now)
      /\ phase' = (IF phase = "greeting" THEN "request" ELSE phase)
      /\ pc' = (IF phase = "greeting" THEN "setup" ELSE "work")
  BY DEF Negotiate
<1>2. now \in Nat /\ dl \in Nat /\ now <= dl /\ dl <= WorkStart /\ open = 1 /\ cand > 0
      /\ result = "none" /\ kind # "tcp" /\ (phase = "greeting" => kind = "socks5")
  BY <1>1 DEF IInv, Types, Clock, Setting, Verdict
<1>3. now' \in Nat /\ now' <= dl /\ now' <= WorkStart
  BY <1>1, <1>2, Took, Bounds
<1>4. step = 1
  BY <1>1 DEF IInv, Clock, Setting
<1>5. Working' /\ step' \in 0..(LastPing + 4) /\ EndsInTime'
  BY <1>1, <1>2, <1>3, <1>4, WorkBegins
<1>6. Types'
  BY <1>1, <1>2, <1>3, <1>5 DEF IInv, Types
<1>7. Setting' \/ pc' = "work"
  <2>1. CASE phase = "greeting"
    <3>1. phase' = "request" /\ kind' = "socks5" /\ now' <= dl' /\ dl' <= WorkStart'
          /\ open' = 1 /\ step' = 1
      BY <1>1, <1>2, <1>3, <1>4, <2>1, Unchanged
    <3> QED
      BY <3>1 DEF Setting
  <2>2. CASE phase # "greeting"
    BY <1>1, <2>2
  <2> QED
    BY <2>1, <2>2
<1>8. pc' \in {"setup", "work"} /\ cand' > 0
  BY <1>1, <1>2
<1>9. Clock'
  BY <1>5, <1>7, <1>8 DEF Clock
<1> QED
  BY <1>1, <1>2, <1>6, <1>9 DEF IInv, Verdict, VerdictHasCause

LEMMA BridgeKeeps == ASSUME IInv, NEW d, Bridge(d) PROVE IInv'
<1>1. kind' = kind /\ depth' = depth /\ now' = now + d /\ pc = "setup" /\ phase = "bridge" /\ pc' = pc
      /\ phase' = "session" /\ step' = step /\ dl' = dl /\ open' = open
      /\ cand' = cand /\ cancelled' = cancelled /\ result' = result /\ AtMost(d, OpenLimit)
  BY DEF Bridge
<1>2. now \in Nat /\ now <= TotalBudget /\ kind = "web" /\ open = 0 /\ cand > 0 /\ result = "none"
  BY <1>1 DEF IInv, Types, Clock, Setting, Verdict
<1>3. now' \in Nat /\ now' <= TotalBudget
  BY <1>1, <1>2, OpenLimitFits, Took, Sizes
<1>4. EndsInTime'
  BY <1>2, <1>3, <1>1, Bounds, WorkMaxNat, Sizes, Unchanged DEF EndsInTime
<1>5. Types'
  BY <1>1, <1>3 DEF IInv, Types
<1>6. Clock'
  BY <1>1, <1>2, <1>3, <1>4, Unchanged DEF Clock, Setting
<1> QED
  BY <1>1, <1>2, <1>5, <1>6 DEF IInv, Verdict, VerdictHasCause

LEMMA CreateSessionKeeps ==
  ASSUME IInv, NEW d, NEW upgrade \in BOOLEAN, CreateSession(d, upgrade) PROVE IInv'
<1>1. kind' = kind /\ depth' = depth /\ now' = now + d /\ pc = "setup" /\ phase = "session"
      /\ cand' = cand /\ cancelled' = cancelled /\ result' = result /\ AtMost(d, OpenLimit)
      /\ \/ phase' = "upgrade" /\ pc' = pc /\ step' = step /\ dl' = dl /\ open' = open
         \/ phase' = phase /\ pc' = "work" /\ step' = 1 /\ dl' = now' + Budget /\ open' = open
  BY DEF CreateSession, Carried
<1>2. now \in Nat /\ now <= TotalBudget /\ kind = "web" /\ open = 0 /\ cand > 0 /\ result = "none"
  BY <1>1 DEF IInv, Types, Clock, Setting, Verdict
<1>3. now' \in Nat /\ now' <= TotalBudget /\ now' <= WorkStart
  BY <1>1, <1>2, OpenLimitFits, Took, Sizes, Bounds
<1>4. EndsInTime'
  BY <1>1, <1>3, Bounds, WorkMaxNat, Unchanged DEF EndsInTime
<1>5. CASE phase' = "upgrade" /\ pc' = pc /\ step' = step /\ dl' = dl /\ open' = open
  <2>1. Types'
    BY <1>1, <1>3, <1>5 DEF IInv, Types
  <2>2. Clock'
    BY <1>1, <1>2, <1>3, <1>4, <1>5, Unchanged DEF Clock, Setting
  <2> QED
    BY <1>1, <1>2, <2>1, <2>2 DEF IInv, Verdict, VerdictHasCause
<1>6. CASE phase' = phase /\ pc' = "work" /\ step' = 1 /\ dl' = now' + Budget /\ open' = open
  <2>1. Working' /\ step' \in 0..(LastPing + 4)
    BY <1>1, <1>2, <1>3, <1>6, WorkBegins
  <2>2. Types'
    BY <1>1, <1>2, <1>3, <1>6, <2>1, Sizes DEF IInv, Types
  <2>3. Clock'
    BY <1>1, <1>2, <1>4, <1>6, <2>1 DEF Clock
  <2> QED
    BY <1>1, <1>2, <1>6, <2>2, <2>3 DEF IInv, Verdict, VerdictHasCause
<1> QED
  BY <1>1, <1>5, <1>6

LEMMA UpgradeKeeps == ASSUME IInv, NEW d, Upgrade(d) PROVE IInv'
<1>1. kind' = kind /\ depth' = depth /\ now' = now + d /\ pc = "setup" /\ phase = "upgrade"
      /\ cand' = cand /\ cancelled' = cancelled /\ result' = result /\ AtMost(d, UpgradeLimit)
      /\ phase' = phase /\ pc' = "work" /\ step' = 1 /\ dl' = now' + Budget /\ open' = open + 1
  BY DEF Upgrade, Carried
<1>2. now \in Nat /\ now <= TotalBudget /\ kind = "web" /\ open = 0 /\ cand > 0 /\ result = "none"
  BY <1>1 DEF IInv, Types, Clock, Setting, Verdict
<1>3. UpgradeLimit \in Int /\ now + UpgradeLimit <= TotalBudget + Timeout
  BY <1>2, Sizes DEF UpgradeLimit
<1>4. now' \in Nat /\ now' <= WorkStart
  BY <1>1, <1>2, <1>3, Took, Sizes, Bounds
<1>5. Working' /\ step' \in 0..(LastPing + 4) /\ EndsInTime'
  BY <1>1, <1>2, <1>4, WorkBegins
<1>6. Types'
  BY <1>1, <1>2, <1>4, <1>5, Sizes DEF IInv, Types
<1>7. Clock'
  BY <1>1, <1>2, <1>5 DEF Clock
<1> QED
  BY <1>1, <1>2, <1>6, <1>7 DEF IInv, Verdict, VerdictHasCause

(* A set-up that fails has taken no more than one that succeeds.           *)
LEMMA GiveUpKeeps ==
  ASSUME IInv, kind' = kind, depth' = depth, cancelled' = cancelled, dl' = dl, open' = 0,
         pc \in {"setup", "close"}, now' \in Nat, EndsInTime', GiveUp
  PROVE  IInv'
<1>1. cand' = cand /\ phase' = phase /\ step' = step
      /\ \/ pc' = "done" /\ result' = "dial" /\ (cancelled \/ now' >= TotalBudget)
         \/ pc' = "next" /\ result' = result /\ ~(cancelled \/ now' >= TotalBudget)
  BY DEF GiveUp
<1>2. result = "none" /\ cand > 0
  BY DEF IInv, Verdict, Clock
<1>3. Types'
  BY <1>1 DEF IInv, Types
<1>4. now' < TotalBudget \/ pc' = "done"
  BY <1>1, Sizes
<1>5. Clock'
  BY <1>1, <1>2, <1>4, Unchanged DEF Clock
<1>6. Verdict'
  BY <1>1, <1>2, Unchanged DEF Verdict, VerdictHasCause, ContextOver
<1> QED
  BY <1>3, <1>5, <1>6 DEF IInv

LEMMA ReturnKeeps ==
  ASSUME IInv, kind' = kind, depth' = depth, cancelled' = cancelled, dl' = dl, open' = 0,
         pc \in {"setup", "close"}, now' \in Nat, EndsInTime',
         NEW r \in {"live", "dial", "handshake"}, Return(r),
         r = "dial" => phase \in {"connect", "bridge"}
  PROVE  IInv'
<1>1. cand' = cand /\ phase' = phase /\ step' = step /\ pc' = "done" /\ result' = r
  BY DEF Return
<1>2. cand > 0
  BY DEF IInv, Clock
<1>3. Types'
  BY <1>1 DEF IInv, Types
<1>4. Clock'
  BY <1>1, <1>2 DEF Clock
<1>5. Verdict'
  BY <1>1 DEF Verdict, VerdictHasCause
<1> QED
  BY <1>3, <1>4, <1>5 DEF IInv

LEMMA ListenKeeps == ASSUME IInv, NEW d, Listen(d) PROVE IInv'
<1>1. kind' = kind /\ depth' = depth /\ now' = now + d /\ pc = "setup" /\ phase = "grace"
      /\ open' = 0 /\ dl' = dl /\ cancelled' = cancelled /\ AtMost(d, Grace) /\ Return("live")
  BY DEF Listen
<1>2. now \in Nat /\ now <= Timeout /\ kind = "tcp"
  BY <1>1 DEF IInv, Types, Clock, Setting
<1>3. now' \in Nat /\ now' <= WorkStart
  BY <1>1, <1>2, GraceAssumption, Took, Sizes, Bounds
<1>4. EndsInTime'
  BY <1>1, <1>3, Unchanged, WorkMaxNat, Bounds DEF EndsInTime
<1> QED
  BY <1>1, <1>3, <1>4, ReturnKeeps

LEMMA SetupFailsKeeps == ASSUME IInv, NEW d, SetupFails(d) PROVE IInv'
<1>1. kind' = kind /\ depth' = depth /\ now' = now + d /\ pc = "setup" /\ open' = 0
      /\ dl' = dl /\ cancelled' = cancelled /\ AtMost(d, SetupLimit)
  BY DEF SetupFails
<1>2. \/ Return("dial") /\ phase \in {"connect", "bridge"}
      \/ Return("handshake")
      \/ GiveUp
  BY DEF SetupFails
<1>3. Setting /\ now \in Nat /\ dl \in Nat /\ kind \in AllKinds
  BY <1>1, KindsAssumption DEF IInv, Clock, Types
<1>4. now' \in Nat /\ now' <= WorkStart
  <2>1. CASE phase = "connect"
    <3>1. now <= StartMax /\ now <= TotalBudget
      BY <1>3, <2>1, Sizes, Bounds DEF Setting
    <3>2. now' \in Nat /\ now' <= StartMax + Timeout /\ now' <= TotalBudget
      BY <1>1, <1>3, <2>1, <3>1, OpenLimitFits, Took, Sizes DEF SetupLimit
    <3>3. CASE kind = "tcp"
      BY <3>2, <3>3, Bounds, Sizes, GraceAssumption
    <3>4. CASE kind # "tcp"
      <4>1. kind \in {"mtproto", "faketls", "socks5"}
        BY <1>3, <2>1, <3>4 DEF Setting, AllKinds
      <4> QED
        BY <3>2, <4>1, Bounds, Sizes
    <3> QED
      BY <3>3, <3>4
  <2>2. CASE phase \in {"hello", "greeting", "request"}
    <3>1. now <= dl /\ dl <= WorkStart
      BY <1>3, <2>2 DEF Setting
    <3> QED
      BY <1>1, <1>3, <2>2, <3>1, Took, Bounds DEF SetupLimit
  <2>3. CASE phase \in {"bridge", "session"}
    <3>1. now <= TotalBudget /\ kind = "web"
      BY <1>3, <2>3 DEF Setting
    <3> QED
      BY <1>1, <1>3, <2>3, <3>1, OpenLimitFits, Took, Sizes, Bounds DEF SetupLimit
  <2>4. CASE phase = "upgrade"
    <3>1. now <= TotalBudget /\ kind = "web"
      BY <1>3, <2>4 DEF Setting
    <3>2. UpgradeLimit \in Int /\ now + UpgradeLimit <= TotalBudget + Timeout
      BY <1>3, <3>1, Sizes DEF UpgradeLimit
    <3> QED
      BY <1>1, <1>3, <2>4, <3>1, <3>2, Took, Sizes, Bounds DEF SetupLimit
  <2>5. CASE phase = "grace"
    <3>1. now <= Timeout /\ kind = "tcp"
      BY <1>3, <2>5 DEF Setting
    <3> QED
      BY <1>1, <1>3, <2>5, <3>1, GraceAssumption, Took, Sizes, Bounds DEF SetupLimit
  <2> QED
    BY <1>3, <2>1, <2>2, <2>3, <2>4, <2>5 DEF Setting
<1>5. EndsInTime'
  BY <1>1, <1>4, Unchanged, WorkMaxNat, Bounds DEF EndsInTime
<1>6. CASE GiveUp
  BY <1>1, <1>4, <1>5, <1>6, GiveUpKeeps
<1>7. CASE Return("dial") /\ phase \in {"connect", "bridge"}
  BY <1>1, <1>4, <1>5, <1>7, ReturnKeeps
<1>8. CASE Return("handshake")
  BY <1>1, <1>4, <1>5, <1>8, ReturnKeeps
<1> QED
  BY <1>2, <1>6, <1>7, <1>8

-----------------------------------------------------------------------------
(* The handshake.                                                          *)

(* A step that ends leaves the time of the remaining ones.                 *)
LEMMA BeganFits ==
  ASSUME IInv, pc = "work", NEW d, Began(step, d)
  PROVE  /\ Working /\ step \in Nat /\ now \in Nat
         /\ d \in Nat /\ now' = now + d /\ now' <= now + StepLimit(step)
         /\ dl' = now + StepLimit(step)
         /\ dl' \in Nat /\ dl' <= WorkStart + WorkMax /\ now' <= WorkStart + WorkMax
<1>1. PICK s : s = step
  OBVIOUS
<1>2. Working /\ now \in Nat
  BY DEF IInv, Clock, Types
<1>3. s \in 1..LastStep /\ Wanted(s) /\ now + Rest(s) <= WorkStart + WorkMax
  BY <1>1, <1>2 DEF Working
<1>4. s \in Nat
  BY <1>3, LastStepNat
<1>5. StepLimit(s) \in Nat /\ StepLimit(s) <= Rest(s) /\ Rest(s) \in Nat
  BY <1>3, RestOfLast, RestNat
<1>6. now' = now + d /\ dl' = now + StepLimit(s) /\ AtMost(d, StepLimit(s))
  BY <1>1 DEF Began
<1>7. d \in Nat /\ d <= StepLimit(s)
  BY <1>5, <1>6, Took
<1> QED
  BY <1>1, <1>2, <1>3, <1>4, <1>5, <1>6, <1>7, Bounds, WorkMaxNat

LEMMA LeaveKeeps ==
  ASSUME IInv, pc = "work", NEW d, Began(step, d), NEW r \in {"live", "failed"}, Leave(r),
         UNCHANGED <<kind, depth, cand, open, cancelled, result>>
  PROVE  IInv'
<1>1. pc' = "close" /\ phase' = r /\ step' = step
  BY DEF Leave
<1>2. open \in {0, 1} /\ cand > 0 /\ result = "none"
  BY DEF IInv, Clock, Working, Verdict
<1>3. Types'
  BY <1>1, BeganFits DEF IInv, Types
<1>4. EndsInTime'
  BY BeganFits, Unchanged, Bounds, WorkMaxNat DEF EndsInTime
<1>5. Closing'
  BY <1>2, BeganFits, Unchanged DEF Closing
<1>6. Clock'
  BY <1>1, <1>2, <1>4, <1>5 DEF Clock
<1> QED
  BY <1>1, <1>2, <1>3, <1>6 DEF IInv, Verdict, VerdictHasCause

LEMMA GoOnKeeps ==
  ASSUME IInv, pc = "work", NEW d, Began(step, d),
         NEW s \in Nat, s >= step, GoOn(s),
         UNCHANGED <<kind, depth, cand, open, cancelled, result>>
  PROVE  IInv'
<1>1. CASE Leave("live")
  BY <1>1, LeaveKeeps
<1>2. CASE \E t \in (s + 1)..LastStep : Wanted(t) /\ step' = t /\ pc' = pc /\ phase' = phase
  <2>1. PICK t \in (s + 1)..LastStep : Wanted(t) /\ step' = t /\ pc' = pc /\ phase' = phase
    BY <1>2
  <2>2. PICK n : n = step
    OBVIOUS
  <2>3. Working /\ step \in Nat /\ now \in Nat /\ now' \in Nat /\ now' <= now + StepLimit(n)
        /\ now' <= WorkStart + WorkMax /\ dl' \in Nat
    BY <2>2, BeganFits
  <2>4. n \in 1..LastStep /\ Wanted(n) /\ now + Rest(n) <= WorkStart + WorkMax
    BY <2>2, <2>3 DEF Working
  <2>5. t \in (n + 1)..LastStep /\ t \in 1..LastStep /\ t \in 0..(LastPing + 4)
    BY <2>1, <2>2, <2>3, <2>4, LastStepNat DEF LastStep
  <2>6. StepLimit(n) + Rest(t) <= Rest(n) /\ StepLimit(n) \in Nat /\ Rest(n) \in Nat /\ Rest(t) \in Nat
    BY <2>1, <2>4, <2>5, RestOfNext, RestOfLast, RestNat
  <2>7. now' + Rest(t) <= WorkStart + WorkMax
    BY <2>3, <2>4, <2>6, Bounds, WorkMaxNat
  <2>8. Rest(step)' = Rest(t)
    BY <2>1, Unchanged DEF Rest
  <2>9. open \in {0, 1} /\ cand > 0 /\ result = "none"
    BY <2>3 DEF IInv, Clock, Working, Verdict
  <2>10. Working'
    BY <2>1, <2>5, <2>7, <2>8, <2>9, Unchanged DEF Working, Wanted
  <2>11. Types'
    BY <2>1, <2>3, <2>5 DEF IInv, Types
  <2>12. EndsInTime'
    BY <2>3, Unchanged, Bounds, WorkMaxNat DEF EndsInTime
  <2>13. Clock'
    BY <2>1, <2>9, <2>10, <2>12 DEF Clock
  <2> QED
    BY <2>1, <2>9, <2>11, <2>13 DEF IInv, Verdict, VerdictHasCause
<1> QED
  BY <1>1, <1>2 DEF GoOn

LEMMA StepPassesKeeps == ASSUME IInv, NEW d, StepPasses(d) PROVE IInv'
<1>1. pc = "work" /\ Began(step, d) /\ GoOn(step) /\ UNCHANGED <<kind, depth, cand, open, cancelled, result>>
  BY DEF StepPasses
<1>2. step \in Nat
  BY <1>1, BeganFits
<1>3. PICK s : s = step
  OBVIOUS
<1>4. GoOn(s) /\ s \in Nat /\ s >= step
  BY <1>1, <1>2, <1>3
<1> QED
  BY <1>1, <1>4, GoOnKeeps

LEMMA StepFailsKeeps == ASSUME IInv, NEW d, StepFails(d) PROVE IInv'
<1>1. pc = "work" /\ Began(step, d) /\ UNCHANGED <<kind, depth, cand, open, cancelled, result>>
      /\ (Leave("failed") \/ GoOn(UpTo(step)))
  BY DEF StepFails
<1>2. step \in Nat
  BY <1>1, BeganFits
<1>3. PICK s : s = UpTo(step)
  OBVIOUS
<1>4. s \in Nat /\ s >= step
  BY <1>2, <1>3, LastStepNat DEF UpTo
<1>5. CASE Leave("failed")
  BY <1>1, <1>5, LeaveKeeps
<1>6. CASE GoOn(UpTo(step))
  BY <1>1, <1>3, <1>4, <1>6, GoOnKeeps
<1> QED
  BY <1>1, <1>5, <1>6

LEMMA CloseKeeps == ASSUME IInv, NEW d, Close(d) PROVE IInv'
<1>1. kind' = kind /\ depth' = depth /\ now' = now + d /\ pc = "close" /\ open' = 0
      /\ dl' = dl /\ cancelled' = cancelled /\ AtMost(d, CloseLimit)
      /\ (Return("live") \/ GiveUp)
  BY DEF Close
<1>2. now \in Nat /\ dl \in Nat /\ now <= WorkStart + WorkMax /\ dl <= WorkStart + WorkMax
  BY <1>1 DEF IInv, Types, Clock, Closing
<1>3. CloseLimit \in Nat /\ now + CloseLimit <= WorkStart + WorkMax + CloseMax
  BY <1>2, Sizes, Bounds, WorkMaxNat DEF CloseLimit, CloseMax, Smaller
<1>4. now' \in Nat /\ now' <= WorkStart + WorkMax + CloseMax
  BY <1>1, <1>2, <1>3, Took, Bounds, WorkMaxNat
<1>5. EndsInTime'
  BY <1>1, <1>4, Unchanged DEF EndsInTime
<1>6. CASE GiveUp
  BY <1>1, <1>4, <1>5, <1>6, GiveUpKeeps
<1>7. CASE Return("live")
  BY <1>1, <1>4, <1>5, <1>7, ReturnKeeps
<1> QED
  BY <1>1, <1>6, <1>7

-----------------------------------------------------------------------------

LEMMA StepKeeps == ASSUME IInv, [Next]_vars PROVE IInv'
<1>1. ASSUME NEW d \in Durations, Advance(d) PROVE IInv'
  BY <1>1, ConnectKeeps, NegotiateKeeps, ListenKeeps, BridgeKeeps, UpgradeKeeps, SetupFailsKeeps,
     CreateSessionKeeps, StepPassesKeeps, StepFailsKeeps, CloseKeeps DEF Advance
<1>2. CASE UNCHANGED vars
  BY <1>2, ReturnedKeeps DEF vars
<1>3. ASSUME NEW c \in idle, KeepAliveEnds(c) PROVE IInv'
  BY <1>3, ReturnedKeeps DEF KeepAliveEnds
<1> QED
  BY <1>1, <1>2, <1>3, NextCandidateKeeps, OutOfCandidatesKeeps, CancelKeeps DEF Next, Returned

LEMMA Invariance == Spec => []IInv
BY InitHolds, StepKeeps, PTL DEF Spec

(* Only a WEB candidate that was begun has an HTTP client.                 *)
LEMMA InitKept == Init => Kept
BY DEF Init, Kept

LEMMA RequestsKeep ==
  ASSUME Kept, cand' = cand, kind' = kind, cand \in Nat, cand > 0, Requests
  PROVE  Kept'
<1>1. cand \in 1..cand
  OBVIOUS
<1> QED
  BY <1>1 DEF Kept, Requests

LEMMA StepKept == ASSUME IInv, Kept, [Next]_vars PROVE Kept'
<1>1. cand \in Nat /\ (pc # "next" => cand > 0)
  BY SomeCandidates DEF IInv, Types, Clock
<1>2. CASE NextCandidate
  <2>1. cand' = cand + 1 /\ kind' = kind /\ idle' = idle
    BY <1>2 DEF NextCandidate
  <2>2. \A c \in 1..cand : c \in 1..(cand + 1)
    BY <1>1
  <2> QED
    BY <2>1, <2>2 DEF Kept
<1>3. CASE OutOfCandidates \/ Cancel \/ Returned \/ UNCHANGED vars
  BY <1>3 DEF OutOfCandidates, Cancel, Returned, vars, Kept
<1>4. ASSUME NEW c \in idle, KeepAliveEnds(c) PROVE Kept'
  BY <1>4 DEF KeepAliveEnds, Kept
<1>5. ASSUME NEW d, Connect(d) \/ Negotiate(d) \/ Listen(d) \/ Upgrade(d) PROVE Kept'
  <2>1. cand' = cand /\ kind' = kind /\ idle' = idle
    BY <1>5 DEF Connect, Negotiate, Listen, Upgrade, Return
  <2> QED
    BY <2>1 DEF Kept
<1>6. ASSUME NEW d, Bridge(d) \/ (\E upgrade \in BOOLEAN : CreateSession(d, upgrade))
                    \/ SetupFails(d) \/ StepPasses(d) \/ StepFails(d) \/ Close(d)
      PROVE  Kept'
  <2>1. cand' = cand /\ kind' = kind /\ pc # "next"
    BY <1>6 DEF Bridge, CreateSession, SetupFails, StepPasses, StepFails, Close, Return, GiveUp
  <2>2. Requests \/ idle' = idle
    BY <1>6 DEF Bridge, CreateSession, SetupFails, StepPasses, StepFails, Close, Exchanges
  <2>3. CASE Requests
    BY <1>1, <2>1, <2>3, RequestsKeep
  <2>4. CASE idle' = idle
    BY <2>1, <2>4 DEF Kept
  <2> QED
    BY <2>2, <2>3, <2>4
<1> QED
  BY <1>2, <1>3, <1>4, <1>5, <1>6 DEF Next, Advance

LEMMA KeptInvariance == Spec => [](IInv /\ Kept)
BY InitKept, StepKept, Invariance, PTL DEF Spec

(* The variables of a probe keep their types.                              *)
THEOREM TypeCorrect == Spec => []TypeOK
<1>1. IInv /\ Kept => TypeOK
  <2> SUFFICES ASSUME IInv, Kept PROVE TypeOK
    OBVIOUS
  <2>1. cand \in Nat /\ Candidates[kind] \in Nat /\ cand <= Candidates[kind]
    BY SomeCandidates DEF IInv, Types
  <2>2. \A c \in 1..cand : c \in 1..Candidates[kind]
    BY <2>1
  <2>3. idle \in SUBSET (1..Candidates[kind])
    BY <2>2 DEF Kept
  <2> QED
    BY <2>3 DEF IInv, Types, TypeOK
<1> QED
  BY <1>1, KeptInvariance, PTL

(* However the peer spaces its answers, whatever the time-out, the number  *)
(* of pings, the hold and the candidates, a probe of Checker.Probe is over *)
(* by the time its last candidate could begin, plus its set-up, its steps  *)
(* and its Close at their limits.                                          *)
THEOREM ProbeIsBounded == Spec => []EndsInTime
<1>1. IInv => EndsInTime
  BY DEF IInv, Clock
<1> QED
  BY <1>1, Invariance, PTL

(* For the quick check of a plain MTProto proxy that bound is TotalBudget, *)
(* as the comment of the code promises for all of them.                    *)
THEOREM PlainIsInBudget == Spec => []PlainFitsBudget
<1>1. IInv => PlainFitsBudget
  BY Sizes DEF IInv, Clock, Types, EndsInTime, PlainFitsBudget, WorkStart, WorkMax, CloseMax, Budget, Window, TotalBudget
<1> QED
  BY <1>1, Invariance, PTL

(* The stage of the error tells why the probe ended.                       *)
THEOREM VerdictIsCaused == Spec => []VerdictHasCause
<1>1. IInv => VerdictHasCause
  BY DEF IInv, Verdict
<1> QED
  BY <1>1, Invariance, PTL

(* No socket outlives its candidate; beyond the probe there are at most    *)
(* the HTTP clients of the WEB candidates begun.                           *)
THEOREM SocketsStayClosed == Spec => []SocketsAreClosed
<1>1. IInv /\ Kept => SocketsAreClosed
  BY DEF IInv, Clock, Types, Setting, Working, Closing, SocketsAreClosed, Kept
<1> QED
  BY <1>1, KeptInvariance, PTL

=============================================================================
