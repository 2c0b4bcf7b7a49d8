-------------------------- MODULE CheckerRun_proofs --------------------------
(***************************************************************************)
(* Proofs about CheckerRun for every number of inputs and workers and all  *)
(* options: the workers' slots are disjoint, Run returns a complete slice, *)
(* a result is final, every step is a step of the abstract batch, the      *)
(* verdict of an input is the one its own probes earned, no probe is made  *)
(* once it is settled, and the progress counters agree with the results.   *)
(***************************************************************************)
EXTENDS CheckerRun, FiniteSetTheorems, TLAPS

(* An input handed out without a result is still held by a worker. *)
Held == \A i \in 1..(next - 1) :
          results[i].status = "unset" => \E w \in Workers : Checking(w) /\ job[w] = i

(* When and why the dispatcher stops, and who may still run then. *)
Stops == /\ dispatcher # "sending" => next = N + 1 \/ cancelled
         /\ \A w \in Workers : pc[w] = "exited" => dispatcher # "sending"
         /\ dispatcher = "returned" => \A w \in Workers : pc[w] = "exited"

(* The counters of the attempts loop: what keeps successes within Attempts. *)
Loop == \A w \in Workers :
          /\ cur[w].successes <= cur[w].attempts
          /\ cur[w].attempts <= cur[w].attempt
          /\ pc[w] \in {"poll", "backoff"} => cur[w].attempts = cur[w].attempt - 1
          /\ pc[w] = "probe" => /\ cur[w].attempts = cur[w].attempt
                                /\ cur[w].successes < cur[w].attempts

IInv == TypeOK /\ DisjointSlots /\ Held /\ Stops /\ Loop

-----------------------------------------------------------------------------
LEMMA FreshTypes == Fresh \in CurType /\ NoResult \in ResultType
<1>1. NoErr \in Errors
  BY DEF Errors
<1>2. 1 \in 1..Attempts /\ 0 \in 0..Attempts
  BY RunAssumption
<1> QED BY <1>1, <1>2 DEF Fresh, NoResult, CurType, ResultType

(* An error keeps its type in the locals, a verdict has the type of results. *)
LEMMA VerdictType == ASSUME NEW c \in CurType PROVE VerdictOf(c) \in ResultType
<1>1. c.lastErr.kind \in {e.kind : e \in Errors}
  BY DEF CurType
<1> QED BY <1>1 DEF VerdictOf, ResultType, CurType

LEMMA NoResultStatus == NoResult.status = "unset"
BY DEF NoResult

LEMMA InitIInv == Init => IInv
<1> SUFFICES ASSUME Init PROVE IInv
  OBVIOUS
<1> USE RunAssumption DEF Init
<1>1. TypeOK
  <2>1. next \in 1..(N + 1) /\ 0 \in 0..N
    OBVIOUS
  <2>2. log \in [Inputs -> Seq(Outcomes)]
    OBVIOUS
  <2>3. results \in [Inputs -> ResultType] /\ cur \in [Workers -> CurType]
    BY FreshTypes
  <2> QED BY <2>1, <2>2, <2>3 DEF TypeOK, PCs
<1>2. DisjointSlots
  BY DEF DisjointSlots, Checking, Inputs
<1>3. Held /\ Stops /\ Loop
  BY DEF Held, Stops, Loop, Fresh
<1> QED BY <1>1, <1>2, <1>3 DEF IInv

(* The steps of Run leave the locals of the workers alone. *)
LEMMA RunStep == ASSUME IInv, Run PROVE IInv'
<1> USE DEF IInv
<1>1. ASSUME NEW w \in Workers, Dispatch(w) PROVE IInv'
  <2>1. TypeOK'
    BY <1>1, RunAssumption DEF Dispatch, Inputs, TypeOK, PCs
  <2>a. next \in 1..N /\ next' = next + 1 /\ N \in Nat
    BY <1>1, RunAssumption DEF Dispatch, TypeOK
  <2>b. /\ pc' = [pc EXCEPT ![w] = "parse"] /\ pc \in [Workers -> PCs] /\ pc[w] = "idle"
        /\ job' = [job EXCEPT ![w] = next] /\ job \in [Workers -> 0..N]
        /\ results' = results
    BY <1>1 DEF Dispatch, TypeOK
  <2>c. \A v \in Workers \ {w} : job'[v] = job[v] /\ (Checking(v)' <=> Checking(v))
    BY <2>b DEF Checking
  <2>d. job'[w] = next /\ Checking(w)' /\ ~Checking(w)
    BY <2>b DEF Checking
  <2>e. results[next] = NoResult /\ results[next].status = "unset"
    BY <2>a, NoResultStatus DEF DisjointSlots
  <2>2. DisjointSlots'
    <3>1. \A v \in Workers : Checking(v)' => job'[v] \in 1..(next' - 1) /\ results'[job'[v]].status = "unset"
      BY <2>a, <2>b, <2>c, <2>d, <2>e DEF DisjointSlots
    <3>2. \A u, v \in Workers : Checking(u)' /\ Checking(v)' /\ job'[u] = job'[v] => u = v
      BY <2>a, <2>c, <2>d DEF DisjointSlots
    <3>3. \A i \in next'..N : results'[i] = NoResult
      BY <2>a, <2>b DEF DisjointSlots
    <3> QED BY <3>1, <3>2, <3>3 DEF DisjointSlots
  <2>3. Held'
    <3> SUFFICES ASSUME NEW i \in 1..next, results[i].status = "unset"
                 PROVE \E v \in Workers : Checking(v)' /\ job'[v] = i
      BY <2>a, <2>b DEF Held
    <3>1. CASE i = next
      BY <3>1, <2>d
    <3>2. CASE i # next
      BY <3>2, <2>a, <2>c, <2>d DEF Held
    <3> QED BY <3>1, <3>2
  <2>4. Stops' /\ Loop'
    BY <1>1 DEF Dispatch, TypeOK, Stops, Loop
  <2> QED BY <2>1, <2>2, <2>3, <2>4
<1>2. CASE StopSending
  BY <1>2 DEF StopSending, TypeOK, DisjointSlots, Held, Stops, Loop, Checking
<1>3. CASE AllSent
  <2>1. TypeOK' /\ DisjointSlots' /\ Held' /\ Loop'
    BY <1>3 DEF AllSent, TypeOK, DisjointSlots, Held, Loop, Checking
  <2>2. Stops'
    BY <1>3, RunAssumption DEF AllSent, TypeOK, Stops
  <2> QED BY <2>1, <2>2
<1>4. CASE Return
  <2>1. TypeOK' /\ DisjointSlots' /\ Held' /\ Loop'
    BY <1>4 DEF Return, TypeOK, DisjointSlots, Held, Loop, Checking
  <2>2. Stops'
    BY <1>4 DEF Return, TypeOK, Stops
  <2> QED BY <2>1, <2>2
<1> QED BY <1>1, <1>2, <1>3, <1>4 DEF Run

-----------------------------------------------------------------------------
(* Steps of a worker inside the loop of check(): results stay as they are   *)
(* and the worker keeps its input.                                          *)
InLoop(w) == \/ Poll(w) \/ BackoffEnds(w) \/ BackoffCancelled(w)
             \/ ProbeSucceeds(w) \/ ProbeFails(w)

LEMMA LoopFrame ==
  ASSUME IInv, NEW w \in Workers, InLoop(w)
  PROVE  /\ UNCHANGED <<next, dispatcher, cancelled, job, results, done, live, number, lines, late>>
         /\ \A v \in Workers : Checking(v)' <=> Checking(v)
         /\ \A v \in Workers : pc[v] = "exited" <=> pc'[v] = "exited"
         /\ \A v \in Workers \ {w} : pc'[v] = pc[v] /\ cur'[v] = cur[v]
         /\ pc' \in [Workers -> PCs]
<1> USE DEF IInv, TypeOK, Checking, PCs
<1>1. CASE Poll(w)
  BY <1>1 DEF Poll
<1>2. CASE BackoffEnds(w)
  BY <1>2 DEF BackoffEnds
<1>3. CASE BackoffCancelled(w)
  BY <1>3 DEF BackoffCancelled
<1>4. CASE ProbeSucceeds(w)
  BY <1>4 DEF ProbeSucceeds, LeaveLoop, Continue
<1>5. CASE ProbeFails(w)
  BY <1>5 DEF ProbeFails, LeaveLoop, Continue
<1> QED BY <1>1, <1>2, <1>3, <1>4, <1>5 DEF InLoop

(* What such a step does to the locals: types and counters. *)
LEMMA LoopLocals ==
  ASSUME IInv, NEW w \in Workers, InLoop(w)
  PROVE  cur' \in [Workers -> CurType] /\ Loop'
<1> DEFINE c == cur[w]
<1>1. /\ c \in CurType
      /\ c.attempt \in 1..Attempts /\ c.attempts \in 0..Attempts
      /\ c.successes \in 0..Attempts /\ Attempts \in Nat
  BY RunAssumption DEF IInv, TypeOK, CurType
<1>2. /\ c.successes <= c.attempts /\ c.attempts <= c.attempt
      /\ pc[w] \in {"poll", "backoff"} => c.attempts = c.attempt - 1
      /\ pc[w] = "probe" => c.attempts = c.attempt /\ c.successes < c.attempts
  BY DEF IInv, Loop
<1>3. SUFFICES /\ cur' \in [Workers -> CurType]
               /\ cur'[w].successes <= cur'[w].attempts
               /\ cur'[w].attempts <= cur'[w].attempt
               /\ pc'[w] \in {"poll", "backoff"} => cur'[w].attempts = cur'[w].attempt - 1
               /\ pc'[w] = "probe" => /\ cur'[w].attempts = cur'[w].attempt
                                      /\ cur'[w].successes < cur'[w].attempts
  BY LoopFrame DEF IInv, Loop
<1>4. cur \in [Workers -> CurType] /\ pc \in [Workers -> PCs]
  BY DEF IInv, TypeOK
<1>5. ASSUME NEW d \in CurType, cur' = [cur EXCEPT ![w] = d]
      PROVE  cur' \in [Workers -> CurType] /\ cur'[w] = d
  BY <1>4, <1>5
<1> HIDE DEF c
<1>6. ASSUME NEW d \in CurType, d.attempts = c.attempts, d.attempt = c.attempt,
             d.successes <= d.attempts, pc[w] = "probe", Continue(w, d) \/ LeaveLoop(w, d)
      PROVE  /\ cur' \in [Workers -> CurType]
             /\ cur'[w].successes <= cur'[w].attempts
             /\ cur'[w].attempts <= cur'[w].attempt
             /\ pc'[w] = "backoff" => cur'[w].attempts = cur'[w].attempt - 1
             /\ pc'[w] \in {"backoff", "verdict"}
  <2> DEFINE e == [d EXCEPT !.attempt = d.attempt + 1]
  <2>1. /\ d.attempt \in 1..Attempts /\ d.attempts \in 0..Attempts
        /\ d.successes \in 0..Attempts /\ d.lastErr \in Errors
    BY <1>6 DEF CurType
  <2>2. CASE LeaveLoop(w, d)
    BY <1>1, <1>2, <1>4, <1>5, <1>6, <2>1, <2>2 DEF LeaveLoop
  <2>3. CASE Continue(w, d) /\ d.attempt < Attempts
    <3>1. e \in CurType
      BY <1>1, <2>1, <2>3 DEF CurType
    <3>2. e.successes = d.successes /\ e.attempts = d.attempts /\ e.attempt = d.attempt + 1
      BY DEF CurType
    <3>3. cur' = [cur EXCEPT ![w] = e] /\ pc'[w] = "backoff"
      BY <1>4, <2>3 DEF Continue
    <3>4. cur'[w] = e /\ cur' \in [Workers -> CurType]
      BY <1>5, <3>1, <3>3
    <3> HIDE DEF e
    <3> QED BY <1>1, <1>2, <1>6, <2>1, <3>2, <3>3, <3>4
  <2>4. CASE Continue(w, d) /\ ~(d.attempt < Attempts)
    <3>1. cur' = [cur EXCEPT ![w] = d] /\ pc'[w] = "verdict"
      BY <1>4, <2>4 DEF Continue
    <3> QED BY <1>1, <1>2, <1>5, <1>6, <2>1, <3>1
  <2> QED BY <1>6, <2>2, <2>3, <2>4
<1>7. CASE Poll(w)
  <2>1. CASE cancelled
    <3> DEFINE d == [c EXCEPT !.lastErr = CtxErr]
    <3>1. d \in CurType /\ d.successes = c.successes /\ d.attempts = c.attempts /\ d.attempt = c.attempt
      BY <1>1 DEF CurType, Errors
    <3>2. cur' = [cur EXCEPT ![w] = d] /\ pc'[w] = "verdict"
      BY <1>4, <1>7, <2>1 DEF Poll, c
    <3> HIDE DEF d
    <3> QED BY <1>2, <1>5, <3>1, <3>2
  <2>2. CASE ~cancelled
    <3> DEFINE d == [c EXCEPT !.attempts = c.attempt]
    <3>1. d \in CurType /\ d.successes = c.successes /\ d.attempts = c.attempt /\ d.attempt = c.attempt
      BY <1>1 DEF CurType
    <3>2. cur' = [cur EXCEPT ![w] = d] /\ pc'[w] = "probe" /\ pc[w] = "poll"
      BY <1>4, <1>7, <2>2 DEF Poll, c
    <3>3. c.successes < c.attempt
      BY <1>1, <1>2, <3>2
    <3>4. cur' \in [Workers -> CurType] /\ cur'[w] = d
      BY <1>5, <3>1, <3>2
    <3> HIDE DEF d
    <3> QED BY <1>1, <3>1, <3>2, <3>3, <3>4
  <2> QED BY <2>1, <2>2
<1>8. CASE BackoffEnds(w)
  BY <1>2, <1>4, <1>8 DEF BackoffEnds, c
<1>9. CASE BackoffCancelled(w)
  BY <1>2, <1>4, <1>9 DEF BackoffCancelled, c
<1>10. CASE ProbeSucceeds(w)
  <2> DEFINE d == [c EXCEPT !.successes = c.successes + 1]
  <2>1. pc[w] = "probe" /\ (Continue(w, d) \/ LeaveLoop(w, d))
    BY <1>10 DEF ProbeSucceeds, c
  <2>a. c.successes + 1 \in 0..Attempts
    BY <1>1, <1>2, <2>1
  <2>2. d \in CurType /\ d.successes = c.successes + 1 /\ d.attempts = c.attempts /\ d.attempt = c.attempt
    BY <1>1, <2>a DEF CurType
  <2> HIDE DEF d
  <2> QED BY <1>1, <1>2, <1>6, <2>1, <2>2
<1>11. CASE ProbeFails(w)
  <2>1. PICK e \in ProbeErrors \cup CancelErrors :
          \/ Continue(w, [c EXCEPT !.lastErr = e])
          \/ LeaveLoop(w, [c EXCEPT !.lastErr = e])
    BY <1>11 DEF ProbeFails, c
  <2> DEFINE d == [c EXCEPT !.lastErr = e]
  <2>2. pc[w] = "probe" /\ (Continue(w, d) \/ LeaveLoop(w, d))
    BY <1>11, <2>1 DEF ProbeFails
  <2>3. d \in CurType /\ d.successes = c.successes /\ d.attempts = c.attempts /\ d.attempt = c.attempt
    BY <1>1 DEF CurType, Errors
  <2> HIDE DEF d
  <2> QED BY <1>1, <1>2, <1>6, <2>2, <2>3
<1> QED BY <1>7, <1>8, <1>9, <1>10, <1>11 DEF InLoop

(* The history of outcomes stays a history of outcomes. *)
LEMMA LogType ==
  ASSUME IInv, NEW w \in Workers, InLoop(w)
  PROVE  log' \in [Inputs -> Seq(Outcomes)]
<1>1. log \in [Inputs -> Seq(Outcomes)]
  BY DEF IInv, TypeOK
<1>2. ASSUME NEW o \in Outcomes, log' = [log EXCEPT ![job[w]] = Append(@, o)]
      PROVE  log' \in [Inputs -> Seq(Outcomes)]
  <2>1. ASSUME NEW i \in Inputs PROVE Append(log[i], o) \in Seq(Outcomes)
    BY <1>1
  <2> QED BY <1>1, <1>2, <2>1
<1>3. CASE Poll(w) \/ BackoffEnds(w) \/ BackoffCancelled(w)
  BY <1>1, <1>3 DEF Poll, BackoffEnds, BackoffCancelled
<1>4. CASE ProbeSucceeds(w)
  BY <1>2, <1>4 DEF ProbeSucceeds, Outcomes
<1>5. CASE ProbeFails(w)
  BY <1>2, <1>5 DEF ProbeFails, Outcomes
<1> QED BY <1>3, <1>4, <1>5 DEF InLoop

LEMMA LoopStep == ASSUME IInv, NEW w \in Workers, InLoop(w) PROVE IInv'
<1> USE LoopFrame, LoopLocals, LogType DEF IInv
<1>1. TypeOK'
  BY DEF TypeOK
<1>2. DisjointSlots'
  BY DEF DisjointSlots
<1>3. Held'
  BY DEF Held
<1>4. Stops'
  BY DEF Stops
<1> QED BY <1>1, <1>2, <1>3, <1>4

-----------------------------------------------------------------------------
(* Steps that settle the input a worker holds: Parse of an input that does  *)
(* not parse, and Verdict.  It leaves Checking exactly when results[i] is   *)
(* set, so nobody else holds i and nobody has to.                           *)
LEMMA SettleStep ==
  ASSUME IInv, NEW w \in Workers, Checking(w), NEW r \in ResultType,
         r.status # "unset",
         results' = [results EXCEPT ![job[w]] = r],
         pc' = [pc EXCEPT ![w] = "count"],
         UNCHANGED <<next, dispatcher, cancelled, job>>
  PROVE  DisjointSlots' /\ Held' /\ Stops' /\ results' \in [Inputs -> ResultType]
<1>1. /\ pc \in [Workers -> PCs] /\ results \in [Inputs -> ResultType]
      /\ next \in 1..(N + 1) /\ N \in Nat
  BY RunAssumption DEF IInv, TypeOK
<1>2. job[w] \in 1..(next - 1) /\ results[job[w]].status = "unset"
  BY DEF IInv, DisjointSlots
<1>3. job[w] \in Inputs
  BY <1>1, <1>2 DEF Inputs
<1>4. ~Checking(w)' /\ \A v \in Workers \ {w} : Checking(v)' <=> Checking(v)
  BY <1>1 DEF Checking
<1>5. \A v \in Workers \ {w} : Checking(v) => job[v] # job[w]
  BY DEF IInv, DisjointSlots
<1>6. /\ results'[job[w]] = r
      /\ \A i \in Inputs : i # job[w] => results'[i] = results[i]
      /\ results' \in [Inputs -> ResultType]
  BY <1>1, <1>3
<1>7. DisjointSlots'
  <2>1. ASSUME NEW v \in Workers, Checking(v)'
        PROVE  job'[v] \in 1..(next' - 1) /\ results'[job'[v]].status = "unset"
    <3>1. v # w /\ Checking(v) /\ job[v] # job[w]
      BY <1>4, <1>5, <2>1
    <3>2. job[v] \in 1..(next - 1) /\ results[job[v]].status = "unset"
      BY <3>1 DEF IInv, DisjointSlots
    <3>3. job[v] \in Inputs
      BY <1>1, <3>2 DEF Inputs
    <3> QED BY <1>6, <3>1, <3>2, <3>3
  <2>2. \A u, v \in Workers : Checking(u)' /\ Checking(v)' /\ job'[u] = job'[v] => u = v
    BY <1>4 DEF IInv, DisjointSlots
  <2>3. \A i \in next'..N : results'[i] = NoResult
    BY <1>1, <1>2, <1>6 DEF IInv, DisjointSlots, Inputs
  <2> QED BY <2>1, <2>2, <2>3 DEF DisjointSlots
<1>8. Held'
  <2> SUFFICES ASSUME NEW i \in 1..(next - 1), results'[i].status = "unset"
               PROVE  \E v \in Workers : Checking(v)' /\ job'[v] = i
    BY DEF Held
  <2>1. i # job[w] /\ i \in Inputs
    BY <1>1, <1>6 DEF Inputs
  <2>2. PICK v \in Workers : Checking(v) /\ job[v] = i
    BY <1>6, <2>1 DEF IInv, Held
  <2> QED BY <1>4, <2>1, <2>2
<1>9. Stops'
  <2>1. \A v \in Workers : pc'[v] = "exited" => pc[v] = "exited"
    BY <1>1
  <2>2. dispatcher # "returned"
    BY DEF IInv, Stops, Checking
  <2> QED BY <2>1, <2>2 DEF IInv, Stops
<1> QED BY <1>6, <1>7, <1>8, <1>9

LEMMA ParseStep == ASSUME IInv, NEW w \in Workers, Parse(w) PROVE IInv'
<1>1. Checking(w) /\ pc \in [Workers -> PCs] /\ cur \in [Workers -> CurType]
  BY DEF Parse, Checking, IInv, TypeOK
<1>2. UNCHANGED <<next, dispatcher, cancelled, job, done, live, number, lines, log, late>>
      /\ cur' = [cur EXCEPT ![w] = Fresh]
  BY DEF Parse
<1>3. cur' \in [Workers -> CurType] /\ pc' \in [Workers -> PCs]
  BY <1>1, <1>2, FreshTypes DEF Parse, PCs
<1>4. pc'[w] \in {"poll", "count"} /\ \A v \in Workers \ {w} : pc'[v] = pc[v] /\ cur'[v] = cur[v]
  BY <1>1, <1>2 DEF Parse
<1>5. Loop'
  <2>1. cur'[w] = Fresh
    BY <1>1, <1>2
  <2>2. Fresh.attempt = 1 /\ Fresh.attempts = 0 /\ Fresh.successes = 0
    BY DEF Fresh
  <2> QED BY <1>4, <2>1, <2>2 DEF IInv, Loop
<1>6. CASE job[w] \in Parsable
  <2>1. results' = results /\ pc' = [pc EXCEPT ![w] = "poll"]
    BY <1>6 DEF Parse
  <2>2. \A v \in Workers : (Checking(v)' <=> Checking(v)) /\ (pc[v] = "exited" <=> pc'[v] = "exited")
    BY <1>1, <2>1 DEF Checking
  <2>3. DisjointSlots' /\ Held' /\ Stops'
    BY <1>2, <2>1, <2>2 DEF IInv, DisjointSlots, Held, Stops
  <2> QED BY <1>2, <1>3, <1>5, <2>1, <2>3 DEF IInv, TypeOK
<1>7. CASE job[w] \notin Parsable
  <2> DEFINE r == [results[job[w]] EXCEPT !.status = "invalid"]
  <2>1. /\ results' = [results EXCEPT ![job[w]] = r]
        /\ pc' = [pc EXCEPT ![w] = "count"]
    BY <1>7 DEF Parse
  <2>2. r \in ResultType /\ r.status = "invalid"
    <3>1. job[w] \in Inputs /\ results \in [Inputs -> ResultType]
      BY <1>1, RunAssumption DEF IInv, TypeOK, DisjointSlots, Inputs
    <3>2. results[job[w]] \in ResultType
      BY <3>1
    <3> QED BY <3>2 DEF ResultType
  <2> HIDE DEF r
  <2>3. DisjointSlots' /\ Held' /\ Stops' /\ results' \in [Inputs -> ResultType]
    BY <1>1, <1>2, <2>1, <2>2, SettleStep
  <2> QED BY <1>2, <1>3, <1>5, <2>3 DEF IInv, TypeOK
<1> QED BY <1>6, <1>7

LEMMA VerdictStep == ASSUME IInv, NEW w \in Workers, Verdict(w) PROVE IInv'
<1>1. Checking(w) /\ pc \in [Workers -> PCs] /\ cur \in [Workers -> CurType]
  BY DEF Verdict, Checking, IInv, TypeOK
<1>2. /\ UNCHANGED <<next, dispatcher, cancelled, job, cur, done, live, number, lines, log, late>>
      /\ results' = [results EXCEPT ![job[w]] = VerdictOf(cur[w])]
      /\ pc' = [pc EXCEPT ![w] = "count"]
  BY DEF Verdict
<1>3. VerdictOf(cur[w]) \in ResultType
  BY <1>1, VerdictType
<1>4. VerdictOf(cur[w]).status # "unset"
  BY DEF VerdictOf
<1>5. DisjointSlots' /\ Held' /\ Stops' /\ results' \in [Inputs -> ResultType]
  BY <1>1, <1>2, <1>3, <1>4, SettleStep
<1>6. pc' \in [Workers -> PCs]
  BY <1>1, <1>2 DEF PCs
<1>7. Loop'
  BY <1>1, <1>2 DEF IInv, Loop
<1> QED BY <1>2, <1>5, <1>6, <1>7 DEF IInv, TypeOK

LEMMA CountStep ==
  ASSUME IInv, NEW w \in Workers, CountDone(w) \/ CountLive(w) \/ ShowLine(w) \/ Exit(w)
  PROVE  IInv'
<1> DEFINE line == [n |-> number[w], live |-> live]
<1>1. /\ done \in Nat /\ live \in Nat /\ pc \in [Workers -> PCs] /\ number \in [Workers -> Nat]
      /\ lines \in SUBSET [n : Nat, live : Nat]
  BY DEF IInv, TypeOK
<1>2. line \in [n : Nat, live : Nat]
  BY <1>1
<1>3. UNCHANGED <<next, dispatcher, cancelled, job, cur, results, log, late>>
  BY DEF CountDone, CountLive, ShowLine, Exit
<1>4. done' \in Nat /\ live' \in Nat
  BY <1>1 DEF CountDone, CountLive, ShowLine, Exit
<1>5. pc' \in [Workers -> PCs]
  BY <1>1 DEF CountDone, CountLive, ShowLine, Exit, PCs
<1>6. number' \in [Workers -> Nat]
  BY <1>1 DEF CountDone, CountLive, ShowLine, Exit
<1>7. lines' = lines \/ lines' = lines \cup {line}
  BY DEF CountDone, CountLive, ShowLine, Exit
<1> HIDE DEF line
<1>8. lines' \in SUBSET [n : Nat, live : Nat]
  BY <1>1, <1>2, <1>7
<1>9. /\ UNCHANGED <<next, dispatcher, cancelled, job, cur, results, log, late>>
      /\ done' \in Nat /\ live' \in Nat /\ pc' \in [Workers -> PCs]
      /\ number' \in [Workers -> Nat] /\ lines' \in SUBSET [n : Nat, live : Nat]
  BY <1>3, <1>4, <1>5, <1>6, <1>8
<1>10. /\ \A v \in Workers \ {w} : pc'[v] = pc[v]
       /\ pc[w] \in {"count", "countlive", "print", "idle"}
       /\ pc'[w] \in {"countlive", "print", "idle"} \/ (pc'[w] = "exited" /\ dispatcher # "sending")
  BY DEF CountDone, CountLive, ShowLine, Exit, IInv, TypeOK
<1>11. \A v \in Workers : Checking(v)' <=> Checking(v)
  BY <1>10 DEF Checking
<1>12. DisjointSlots' /\ Held' /\ Loop'
  BY <1>9, <1>10, <1>11 DEF IInv, DisjointSlots, Held, Loop
<1>13. Stops'
  BY <1>9, <1>10 DEF IInv, Stops
<1> QED BY <1>9, <1>12, <1>13 DEF IInv, TypeOK

-----------------------------------------------------------------------------
LEMMA StepIInv == IInv /\ [Next]_vars => IInv'
<1> SUFFICES ASSUME IInv, [Next]_vars PROVE IInv'
  OBVIOUS
<1>1. CASE \E w \in Workers : Worker(w)
  BY <1>1, LoopStep, ParseStep, VerdictStep, CountStep DEF Worker, InLoop
<1>2. CASE Run
  BY <1>2, RunStep
<1>3. CASE Cancel
  <2>1. TypeOK' /\ DisjointSlots' /\ Held' /\ Loop'
    BY <1>3 DEF Cancel, IInv, TypeOK, DisjointSlots, Held, Loop, Checking
  <2>2. Stops'
    BY <1>3 DEF Cancel, IInv, TypeOK, Stops
  <2> QED BY <2>1, <2>2 DEF IInv
<1>4. CASE UNCHANGED vars
  BY <1>4 DEF vars, IInv, TypeOK, DisjointSlots, Held, Stops, Loop, Checking
<1> QED BY <1>1, <1>2, <1>3, <1>4 DEF Next, Finished

(* Every reachable state satisfies the inductive invariant. *)
THEOREM Invariance == Spec => []IInv
<1> QED BY InitIInv, StepIInv, PTL DEF Spec

(* The locals, the results and the counters keep their types: in particular *)
(* no more than Attempts attempts are made or counted as successes.         *)
THEOREM TypeCorrect == Spec => []TypeOK
<1>1. IInv => TypeOK
  BY DEF IInv
<1> QED BY <1>1, Invariance, PTL

(* No two workers ever hold, or write, the same slot of results. *)
THEOREM SlotsAreDisjoint == Spec => []DisjointSlots
<1>1. IInv => DisjointSlots
  BY DEF IInv
<1> QED BY <1>1, Invariance, PTL

(* Run returns a complete slice and leaves no goroutine behind. *)
THEOREM ReturnIsComplete == Spec => []CompleteReturn
<1>1. IInv => CompleteReturn
  <2> SUFFICES ASSUME IInv, dispatcher = "returned" PROVE
        /\ \A w \in Workers : pc[w] = "exited"
        /\ \A i \in 1..(next - 1) : results[i].status # "unset"
        /\ ~cancelled => \A i \in Inputs : results[i].status # "unset"
    BY DEF CompleteReturn
  <2>1. \A w \in Workers : pc[w] = "exited" /\ ~Checking(w)
    BY DEF IInv, Stops, Checking
  <2>2. \A i \in 1..(next - 1) : results[i].status # "unset"
    BY <2>1 DEF IInv, Held
  <2>3. ~cancelled => next = N + 1
    BY DEF IInv, Stops
  <2> QED BY <2>1, <2>2, <2>3, RunAssumption DEF Inputs
<1> QED BY <1>1, Invariance, PTL

-----------------------------------------------------------------------------
(* Which steps change results, and how. *)
LEMMA ResultsStep ==
  ASSUME IInv, [Next]_vars
  PROVE  \/ results' = results
         \/ \E w \in Workers : Checking(w) /\ (Parse(w) \/ Verdict(w))
<1>1. ASSUME NEW w \in Workers, Worker(w)
      PROVE  results' = results \/ (Checking(w) /\ (Parse(w) \/ Verdict(w)))
  BY <1>1 DEF Worker, Exit, Parse, Poll, BackoffEnds, BackoffCancelled,
              ProbeSucceeds, ProbeFails, Verdict, CountDone, CountLive, ShowLine, Checking
<1>2. CASE Run
  BY <1>2 DEF Run, Dispatch, StopSending, AllSent, Return
<1>3. CASE Cancel \/ UNCHANGED vars
  BY <1>3 DEF Cancel, vars
<1> QED BY <1>1, <1>2, <1>3 DEF Next, Finished

(* The slot a settling worker writes has no result yet. *)
LEMMA SettledSlot ==
  ASSUME IInv, NEW w \in Workers, Checking(w), Parse(w) \/ Verdict(w)
  PROVE  /\ job[w] \in Inputs /\ results[job[w]].status = "unset"
         /\ results \in [Inputs -> ResultType]
         /\ \A i \in Inputs : i # job[w] => results'[i] = results[i]
         /\ dispatcher # "returned" /\ dispatcher' = dispatcher
         /\ cancelled' = cancelled
<1>1. next \in 1..(N + 1) /\ N \in Nat /\ results \in [Inputs -> ResultType]
  BY RunAssumption DEF IInv, TypeOK
<1>2. job[w] \in 1..(next - 1) /\ results[job[w]].status = "unset"
  BY DEF IInv, DisjointSlots
<1>3. job[w] \in Inputs
  BY <1>1, <1>2 DEF Inputs
<1>4. dispatcher # "returned"
  BY DEF IInv, Stops, Checking
<1>5. dispatcher' = dispatcher /\ cancelled' = cancelled
  BY DEF Parse, Verdict
<1>6. \A i \in Inputs : i # job[w] => results'[i] = results[i]
  BY <1>1, <1>3 DEF Parse, Verdict
<1> QED BY <1>1, <1>2, <1>3, <1>4, <1>5, <1>6

(* A stored result is never written again, by this or another worker. *)
THEOREM ResultsAreFinal == Spec => ResultsFinal
<1>1. IInv /\ [Next]_vars =>
        \A i \in Inputs : results[i].status # "unset" => results'[i] = results[i]
  <2> SUFFICES ASSUME IInv, [Next]_vars, NEW i \in Inputs, results[i].status # "unset"
               PROVE  results'[i] = results[i]
    OBVIOUS
  <2>1. CASE results' = results
    BY <2>1
  <2>2. ASSUME NEW w \in Workers, Checking(w), Parse(w) \/ Verdict(w)
        PROVE  results'[i] = results[i]
    BY <2>2, SettledSlot
  <2> QED BY <2>1, <2>2, ResultsStep
<1> QED BY <1>1, Invariance, PTL DEF Spec, ResultsFinal

-----------------------------------------------------------------------------
(* Only an input that parses is probed and judged. *)
Parsed == \A w \in Workers :
            pc[w] \in {"poll", "backoff", "probe", "verdict"} => job[w] \in Parsable

LEMMA ParsedStep == IInv /\ Parsed /\ [Next]_vars => Parsed'
<1> SUFFICES ASSUME IInv, Parsed, [Next]_vars PROVE Parsed'
  OBVIOUS
<1> USE DEF Parsed
<1>1. pc \in [Workers -> PCs]
  BY DEF IInv, TypeOK
<1>2. ASSUME NEW w \in Workers, InLoop(w) PROVE Parsed'
  <2>1. pc[w] \in {"poll", "backoff", "probe"}
    BY <1>2 DEF InLoop, Poll, BackoffEnds, BackoffCancelled, ProbeSucceeds, ProbeFails
  <2> QED BY <1>2, <2>1, LoopFrame
<1>3. ASSUME NEW w \in Workers, Parse(w) PROVE Parsed'
  BY <1>1, <1>3 DEF Parse
<1>4. ASSUME NEW w \in Workers, Verdict(w) \/ CountDone(w) \/ CountLive(w) \/ ShowLine(w) \/ Exit(w)
      PROVE  Parsed'
  BY <1>1, <1>4 DEF Verdict, CountDone, CountLive, ShowLine, Exit
<1>5. ASSUME NEW w \in Workers, Dispatch(w) PROVE Parsed'
  <2>1. pc' = [pc EXCEPT ![w] = "parse"] /\ job' = [job EXCEPT ![w] = next]
    BY <1>5 DEF Dispatch
  <2>2. job \in [Workers -> 0..N]
    BY DEF IInv, TypeOK
  <2> QED BY <1>1, <2>1, <2>2
<1>6. CASE StopSending \/ AllSent \/ Return \/ Cancel \/ UNCHANGED vars
  BY <1>6 DEF StopSending, AllSent, Return, Cancel, vars
<1> QED BY <1>2, <1>3, <1>4, <1>5, <1>6 DEF Next, Finished, Worker, Run, InLoop

LEMMA ParsedInvariance == Spec => [](IInv /\ Parsed)
<1>1. Init => Parsed
  BY DEF Init, Parsed
<1> QED BY <1>1, ParsedStep, Invariance, PTL DEF Spec

(* The worker's settling step is the Decide step of the abstract batch. *)
LEMMA SettleDecides ==
  ASSUME IInv, Parsed, NEW w \in Workers, Checking(w), Parse(w) \/ Verdict(w),
         results' # results, NEW i \in Inputs, i = job[w]
  PROVE  Batch!Decide(i)
<1>1. /\ job[w] \in Inputs /\ results[job[w]].status = "unset"
      /\ results \in [Inputs -> ResultType]
      /\ \A j \in Inputs : j # job[w] => results'[j] = results[j]
      /\ dispatcher # "returned" /\ dispatcher' = dispatcher /\ cancelled' = cancelled
  BY SettledSlot
<1>2. results'[job[w]].status \in Batch!Verdicts(job[w])
  <2>1. CASE Parse(w)
    <3>1. job[w] \notin Parsable /\ results' = [results EXCEPT ![job[w]].status = "invalid"]
      BY <2>1 DEF Parse
    <3>2. results[job[w]] \in ResultType
      BY <1>1
    <3>3. results'[job[w]].status = "invalid"
      BY <1>1, <3>1, <3>2 DEF ResultType
    <3> QED BY <3>1, <3>3 DEF Batch!Verdicts
  <2>2. CASE Verdict(w)
    <3>1. job[w] \in Parsable
      BY <2>2 DEF Verdict, Parsed
    <3>2. results'[job[w]] = VerdictOf(cur[w])
      BY <1>1, <2>2 DEF Verdict
    <3>3. VerdictOf(cur[w]).status \in {"live", "dead"}
      BY DEF VerdictOf
    <3> QED BY <3>1, <3>2, <3>3 DEF Batch!Verdicts
  <2> QED BY <2>1, <2>2
<1>a. results'[i].status \in Batch!Verdicts(i)
  BY <1>2
<1> DEFINE verdict == [j \in Inputs |-> results[j].status]
<1>3. verdict' = [verdict EXCEPT ![i] = results'[i].status]
  BY <1>1
<1> QED BY <1>1, <1>a, <1>3 DEF Batch!Decide

LEMMA BatchStep == IInv /\ Parsed /\ [Next]_vars => [Batch!Next]_(Batch!vars)
<1> SUFFICES ASSUME IInv, Parsed, [Next]_vars PROVE [Batch!Next]_(Batch!vars)
  OBVIOUS
<1>1. CASE results' # results
  <2>1. PICK w \in Workers : Checking(w) /\ (Parse(w) \/ Verdict(w))
    BY <1>1, ResultsStep
  <2>2. PICK i \in Inputs : i = job[w]
    BY <2>1, SettledSlot
  <2>3. Batch!Decide(i)
    BY <1>1, <2>1, <2>2, SettleDecides
  <2>4. \E j \in 1..N : Batch!Decide(j)
    BY <2>3, Zenon DEF Inputs
  <2> QED BY <2>4, Zenon DEF Batch!Next
<1>2. CASE results' = results /\ Return
  <2>1. IInv'
    BY StepIInv
  <2>2. dispatcher = "waiting" /\ dispatcher' = "returned" /\ cancelled' = cancelled
    BY <1>2 DEF Return
  <2>3. cancelled \/ \A i \in Inputs : results[i].status # "unset"
    <3>1. \A v \in Workers : ~Checking(v)
      BY <1>2 DEF Return, Checking
    <3>2. \A i \in 1..(next - 1) : results[i].status # "unset"
      BY <3>1 DEF IInv, Held
    <3>3. cancelled \/ next = N + 1
      BY <2>2 DEF IInv, Stops
    <3> QED BY <3>2, <3>3, RunAssumption DEF Inputs
  <2>4. Batch!Return
    BY <1>2, <2>2, <2>3 DEF Batch!Return, Batch!Undecided, Inputs
  <2> QED BY <2>4 DEF Batch!Next
<1>3. CASE results' = results /\ Cancel
  <2>1. ~cancelled /\ cancelled' = TRUE /\ dispatcher' = dispatcher
    BY <1>3 DEF Cancel
  <2> QED BY <1>3, <2>1 DEF Batch!Next, Batch!Cancel
<1>4. CASE results' = results /\ ~Return /\ ~Cancel
  <2>1. cancelled' = cancelled /\ (dispatcher' = "returned" <=> dispatcher = "returned")
    BY <1>4 DEF Next, Worker, Run, Finished, vars, Dispatch, StopSending, AllSent,
                Exit, Parse, Poll, BackoffEnds, BackoffCancelled,
                ProbeSucceeds, ProbeFails, Verdict, CountDone, CountLive, ShowLine
  <2> QED BY <1>4, <2>1 DEF Batch!vars
<1> QED BY <1>1, <1>2, <1>3, <1>4

(* The pool implements the abstract batch, its fairness aside. *)
THEOREM ImplementsBatchSafety == Spec => Batch!Init /\ [][Batch!Next]_(Batch!vars)
<1>1. Init => Batch!Init
  BY DEF Init, Batch!Init, NoResult, Inputs
<1> QED BY <1>1, BatchStep, ParsedInvariance, PTL DEF Spec

-----------------------------------------------------------------------------
(* What the log of an input says.                                          *)

AllOk(s) == \A k \in 1..Len(s) : s[k] = Success

LastFailure(s, kind) ==
  \E k \in 1..Len(s) : /\ s[k] # Success /\ s[k].kind = kind
                       /\ \A m \in (k + 1)..Len(s) : s[m] = Success

(* Another probe may still change the verdict.                             *)
Unsettled(s) == Oks(s) < MinSuccesses /\ \A k \in 1..Len(s) : s[k].stage # "dial"

(* Every probe but the last was made while the verdict was unsettled.      *)
Frugal(s) == \A k \in 1..(Len(s) - 1) :
               s[k].stage # "dial" /\ Oks(SubSeq(s, 1, k)) < MinSuccesses

(* lastErr is the error of the last probe that failed.                     *)
ErrOf(e, s) == (e = NoErr /\ AllOk(s)) \/ LastFailure(s, e.kind)

Complete(s) == Len(s) = Attempts \/ (Len(s) > 0 /\ s[Len(s)].stage = "dial")

(* The locals of check() match the log of the input the worker holds.      *)
Own(w) ==
  /\ pc[w] = "parse" => log[job[w]] = <<>>
  /\ pc[w] \in {"poll", "backoff", "probe", "verdict"} =>
       /\ cur[w].successes = Oks(log[job[w]])
       /\ Len(log[job[w]]) = IF pc[w] = "probe" THEN cur[w].attempts - 1 ELSE cur[w].attempts
       /\ ErrOf(cur[w].lastErr, log[job[w]]) \/ (pc[w] = "verdict" /\ cancelled)
  /\ pc[w] \in {"poll", "backoff", "probe"} => Unsettled(log[job[w]])
  /\ pc[w] = "verdict" => \/ cancelled \/ Complete(log[job[w]])
                          \/ Oks(log[job[w]]) >= MinSuccesses
  /\ pc[w] = "probe" => job[w] \notin late

(* What holds of an input once it has its result, or was not handed out.   *)
Past(i) ==
  /\ Frugal(log[i])
  /\ i >= next \/ results[i].status = "invalid" => log[i] = <<>>
  /\ results[i].status \in {"live", "dead"} =>
       /\ results[i].status = "live" <=> Oks(log[i]) >= MinSuccesses
       /\ results[i].successes = Oks(log[i]) /\ results[i].attempts = Len(log[i])
  /\ results[i].status = "dead" /\ ~cancelled =>
       Complete(log[i]) /\ LastFailure(log[i], results[i].kind)
  /\ i \in late => cancelled /\ i < next /\ log[i] = <<>>

History == (\A w \in Workers : Own(w)) /\ (\A i \in Inputs : Past(i))

(* What the counters have still to count.                                  *)
Counting == {w \in Workers : pc[w] = "count"}
CountingLive == {w \in Workers : pc[w] = "count" /\ results[job[w]].status = "live"}
Counted == {w \in Workers : pc[w] = "countlive"}

HasResult == {i \in Inputs : results[i].status # "unset"}
IsLive == {i \in Inputs : results[i].status = "live"}

Tally ==
  /\ \A w \in Workers : pc[w] = "count" => job[w] \in HasResult
  /\ done + Cardinality(Counting) = Cardinality(HasResult)
  /\ live + Cardinality(Counted) + Cardinality(CountingLive) = Cardinality(IsLive)
  /\ live + Cardinality(Counted) <= done

-----------------------------------------------------------------------------
(* Counting the successes in a log.                                        *)

OkAt(s) == {k \in 1..Len(s) : s[k] = Success}

LEMMA OksIsCard == ASSUME NEW s PROVE Oks(s) = Cardinality(OkAt(s))
BY DEF Oks, Count, OkAt

LEMMA UpTo == \A n \in Nat : IsFiniteSet(1..n) /\ Cardinality(1..n) = n
<1> TAKE n \in Nat
<1>1. 1 \in Int /\ n \in Int
  OBVIOUS
<1>2. IsFiniteSet(1..n) /\ Cardinality(1..n) = IF 1 > n THEN 0 ELSE n - 1 + 1
  BY <1>1, FS_Interval
<1> QED BY <1>2

LEMMA OksType ==
  ASSUME NEW s \in Seq(Outcomes)
  PROVE  /\ IsFiniteSet(OkAt(s)) /\ Oks(s) \in Nat /\ Oks(s) <= Len(s)
         /\ AllOk(s) => Oks(s) = Len(s)
<1>1. Len(s) \in Nat /\ OkAt(s) \in SUBSET (1..Len(s))
  BY DEF OkAt
<1>2. IsFiniteSet(1..Len(s)) /\ Cardinality(1..Len(s)) = Len(s)
  BY <1>1, UpTo
<1>3. IsFiniteSet(OkAt(s)) /\ Cardinality(OkAt(s)) <= Len(s)
  BY <1>1, <1>2, FS_Subset
<1>4. Cardinality(OkAt(s)) \in Nat
  BY <1>3, FS_CardinalityType
<1>5. ASSUME AllOk(s) PROVE Cardinality(OkAt(s)) = Len(s)
  <2>1. OkAt(s) = 1..Len(s)
    BY <1>5 DEF AllOk, OkAt
  <2> QED BY <1>2, <2>1
<1>6. Oks(s) = Cardinality(OkAt(s))
  BY OksIsCard
<1> QED BY <1>3, <1>4, <1>5, <1>6

LEMMA OksEmpty == Oks(<<>>) = 0
<1>1. OkAt(<<>>) = {}
  BY DEF OkAt
<1> QED BY <1>1, OksIsCard, FS_EmptySet

LEMMA Appended ==
  ASSUME NEW s \in Seq(Outcomes), NEW o \in Outcomes
  PROVE  /\ Append(s, o) \in Seq(Outcomes)
         /\ Len(s) \in Nat /\ Len(Append(s, o)) = Len(s) + 1
         /\ Append(s, o)[Len(s) + 1] = o
         /\ \A k \in 1..Len(s) : Append(s, o)[k] = s[k]
OBVIOUS

LEMMA OksAppend ==
  ASSUME NEW s \in Seq(Outcomes), NEW o \in Outcomes
  PROVE  Oks(Append(s, o)) = IF o = Success THEN Oks(s) + 1 ELSE Oks(s)
<1>1. /\ IsFiniteSet(OkAt(s)) /\ Len(s) \in Nat /\ Len(s) + 1 \notin OkAt(s)
  BY OksType DEF OkAt
<1>2. CASE o = Success
  <2>1. OkAt(Append(s, o)) = OkAt(s) \cup {Len(s) + 1}
    BY <1>2, Appended DEF OkAt
  <2>2. Cardinality(OkAt(s) \cup {Len(s) + 1}) = Cardinality(OkAt(s)) + 1
    BY <1>1, FS_AddElement
  <2>3. Cardinality(OkAt(Append(s, o))) = Cardinality(OkAt(s)) + 1
    BY <2>1, <2>2
  <2> QED BY <1>2, <2>3, OksIsCard
<1>3. CASE o # Success
  <2>1. OkAt(Append(s, o)) = OkAt(s)
    BY <1>3, Appended DEF OkAt
  <2> QED BY <1>3, <2>1, OksIsCard
<1> QED BY <1>2, <1>3

(* The beginning of a longer log.                                          *)
LEMMA Prefix ==
  ASSUME NEW s \in Seq(Outcomes), NEW o \in Outcomes, NEW k \in 1..Len(s)
  PROVE  /\ SubSeq(Append(s, o), 1, k) = SubSeq(s, 1, k)
         /\ Oks(SubSeq(s, 1, k)) <= Oks(s)
         /\ Oks(SubSeq(s, 1, k)) \in Nat
<1>1. SubSeq(Append(s, o), 1, k) = SubSeq(s, 1, k)
  OBVIOUS
<1> DEFINE p == SubSeq(s, 1, k)
<1>2. p \in Seq(Outcomes) /\ Len(p) = k /\ \A m \in 1..k : p[m] = s[m]
  OBVIOUS
<1>3. Len(s) \in Nat /\ IsFiniteSet(OkAt(s))
  BY OksType
<1> HIDE DEF p
<1>4. OkAt(p) \in SUBSET OkAt(s)
  BY <1>2, <1>3 DEF OkAt
<1>5. Cardinality(OkAt(p)) <= Cardinality(OkAt(s))
  BY <1>3, <1>4, FS_Subset
<1>6. Oks(p) \in Nat
  BY <1>2, OksType
<1> QED BY <1>1, <1>5, <1>6, OksIsCard DEF p

(* A probe made while the verdict was unsettled is not wasted.             *)
LEMMA StaysFrugal ==
  ASSUME NEW s \in Seq(Outcomes), NEW o \in Outcomes, Unsettled(s)
  PROVE  Frugal(Append(s, o))
<1> SUFFICES ASSUME NEW k \in 1..Len(s)
             PROVE  /\ Append(s, o)[k].stage # "dial"
                    /\ Oks(SubSeq(Append(s, o), 1, k)) < MinSuccesses
  BY Appended DEF Frugal
<1>1. Oks(s) < MinSuccesses /\ s[k].stage # "dial"
  BY DEF Unsettled
<1>2. Oks(s) \in Nat /\ MinSuccesses \in Nat
  BY OksType, RunAssumption
<1>3. Append(s, o)[k] = s[k]
  BY Appended
<1>4. Oks(SubSeq(Append(s, o), 1, k)) <= Oks(s) /\ Oks(SubSeq(Append(s, o), 1, k)) \in Nat
  BY Prefix
<1> QED BY <1>1, <1>2, <1>3, <1>4

(* The error to report after one more probe.                               *)
LEMMA ErrAfterSuccess ==
  ASSUME NEW s \in Seq(Outcomes), NEW e, ErrOf(e, s)
  PROVE  ErrOf(e, Append(s, Success))
<1> DEFINE t == Append(s, Success)
<1>1. /\ Len(s) \in Nat /\ Len(t) = Len(s) + 1 /\ t[Len(s) + 1] = Success
      /\ \A k \in 1..Len(s) : t[k] = s[k]
  BY Appended DEF Outcomes
<1> HIDE DEF t
<1>2. CASE e = NoErr /\ AllOk(s)
  <2>1. AllOk(t)
    BY <1>1, <1>2 DEF AllOk
  <2> QED BY <1>2, <2>1 DEF ErrOf, t
<1>3. CASE LastFailure(s, e.kind)
  <2>1. PICK k \in 1..Len(s) : /\ s[k] # Success /\ s[k].kind = e.kind
                               /\ \A m \in (k + 1)..Len(s) : s[m] = Success
    BY <1>3 DEF LastFailure
  <2>2. k \in 1..Len(t) /\ t[k] # Success /\ t[k].kind = e.kind
    BY <1>1, <2>1
  <2>3. \A m \in (k + 1)..Len(t) : t[m] = Success
    BY <1>1, <2>1
  <2>4. LastFailure(t, e.kind)
    BY <2>2, <2>3 DEF LastFailure
  <2> QED BY <2>4 DEF ErrOf, t
<1> QED BY <1>2, <1>3 DEF ErrOf

LEMMA ErrAfterFailure ==
  ASSUME NEW s \in Seq(Outcomes), NEW e \in Outcomes, e # Success
  PROVE  ErrOf(e, Append(s, e))
<1> DEFINE t == Append(s, e)
<1>1. Len(s) \in Nat /\ Len(t) = Len(s) + 1 /\ t[Len(s) + 1] = e
  BY Appended
<1> HIDE DEF t
<1>2. LastFailure(t, e.kind)
  <2> SUFFICES /\ Len(s) + 1 \in 1..Len(t)
               /\ t[Len(s) + 1] # Success /\ t[Len(s) + 1].kind = e.kind
               /\ \A m \in (Len(s) + 1 + 1)..Len(t) : t[m] = Success
    BY DEF LastFailure
  <2> QED BY <1>1
<1> QED BY <1>2 DEF ErrOf, t

(* Errors are not successes.                                               *)
LEMMA ErrorsFail == \A e \in ProbeErrors \cup CancelErrors : e \in Outcomes /\ e # Success
BY ErrorAssumption DEF Outcomes, CancelErrors, Success, Stages

-----------------------------------------------------------------------------
(* The steps, one by one.  A worker's locals concern only the input it     *)
(* holds, and nobody else holds that.                                      *)

LEMMA OwnKept ==
  ASSUME NEW v \in Workers, Own(v),
         job'[v] = job[v], pc'[v] = pc[v], cur'[v] = cur[v],
         Checking(v) => log'[job[v]] = log[job[v]],
         cancelled => cancelled',
         job[v] \in late' => job[v] \in late \/ pc[v] # "probe"
  PROVE  Own(v)'
<1>1. ASSUME log'[job'[v]] = log[job[v]]
      PROVE  /\ Oks(log[job[v]])' = Oks(log[job[v]])
             /\ Unsettled(log[job[v]])' <=> Unsettled(log[job[v]])
             /\ Complete(log[job[v]])' <=> Complete(log[job[v]])
             /\ ErrOf(cur[v].lastErr, log[job[v]])' <=> ErrOf(cur[v].lastErr, log[job[v]])
  BY <1>1 DEF ErrOf, LastFailure, AllOk, Unsettled, Complete, Oks, Count
<1>2. CASE Checking(v)
  BY <1>1, <1>2 DEF Own
<1>3. CASE ~Checking(v)
  BY <1>3 DEF Own, Checking
<1> QED BY <1>2, <1>3

(* Own and Past after a step, by the new values of what they depend on.    *)
LEMMA OwnIs ==
  ASSUME NEW w \in Workers, NEW s, NEW c, NEW at,
         log'[job'[w]] = s, cur'[w] = c, pc'[w] = at, at # "parse",
         at \in {"poll", "backoff", "probe", "verdict"} =>
           /\ c.successes = Oks(s)
           /\ Len(s) = IF at = "probe" THEN c.attempts - 1 ELSE c.attempts
           /\ ErrOf(c.lastErr, s) \/ (at = "verdict" /\ cancelled'),
         at \in {"poll", "backoff", "probe"} => Unsettled(s),
         at = "verdict" => cancelled' \/ Complete(s) \/ Oks(s) >= MinSuccesses,
         at = "probe" => job'[w] \notin late'
  PROVE  Own(w)'
<1>1. /\ Oks(log[job[w]])' = Oks(s)
      /\ Unsettled(log[job[w]])' <=> Unsettled(s)
      /\ Complete(log[job[w]])' <=> Complete(s)
      /\ ErrOf(cur[w].lastErr, log[job[w]])' <=> ErrOf(c.lastErr, s)
  BY DEF ErrOf, LastFailure, AllOk, Unsettled, Complete, Oks, Count
<1> QED BY <1>1 DEF Own

LEMMA PastIs ==
  ASSUME NEW i \in Inputs, NEW s, NEW r, log'[i] = s, results'[i] = r, Frugal(s),
         i >= next' \/ r.status = "invalid" => s = <<>>,
         r.status \in {"live", "dead"} =>
           /\ r.status = "live" <=> Oks(s) >= MinSuccesses
           /\ r.successes = Oks(s) /\ r.attempts = Len(s),
         r.status = "dead" /\ ~cancelled' => Complete(s) /\ LastFailure(s, r.kind),
         i \in late' => cancelled' /\ i < next' /\ s = <<>>
  PROVE  Past(i)'
<1>1. /\ Oks(log[i])' = Oks(s)
      /\ Frugal(log[i])' <=> Frugal(s)
      /\ Complete(log[i])' <=> Complete(s)
      /\ LastFailure(log[i], results[i].kind)' <=> LastFailure(s, r.kind)
  BY DEF LastFailure, Frugal, Complete, Oks, Count
<1> QED BY <1>1 DEF Past

LEMMA OwnGone ==
  ASSUME NEW v \in Workers, pc'[v] \notin {"parse", "poll", "backoff", "probe", "verdict"}
  PROVE  Own(v)'
BY DEF Own

(* An input whose log and result stay as they are.                         *)
LEMMA PastKept ==
  ASSUME NEW i \in Inputs, Past(i), log'[i] = log[i], results'[i] = results[i],
         i >= next' => i >= next, i < next => i < next',
         cancelled => cancelled', i \in late' => i \in late
  PROVE  Past(i)'
BY DEF Past, Frugal, LastFailure, Complete, Oks, Count

(* Steps after which every worker is where it was or has nothing to hold.  *)
LEMMA QuietStep ==
  ASSUME IInv, History, UNCHANGED <<next, job, cur, results, log, late>>,
         cancelled => cancelled',
         \A v \in Workers : pc'[v] = pc[v] \/ pc'[v] \in {"idle", "count", "countlive", "print", "exited"}
  PROVE  History'
<1>1. ASSUME NEW v \in Workers PROVE Own(v)'
  <2>1. CASE pc'[v] = pc[v]
    BY <2>1, OwnKept DEF History
  <2>2. CASE pc'[v] \in {"idle", "count", "countlive", "print", "exited"}
    BY <2>2, OwnGone
  <2> QED BY <2>1, <2>2
<1>2. ASSUME NEW i \in Inputs PROVE Past(i)'
  BY PastKept DEF History
<1> QED BY <1>1, <1>2 DEF History

LEMMA DispatchHistory ==
  ASSUME IInv, History, NEW w \in Workers, Dispatch(w)
  PROVE  History'
<1>1. /\ next \in 1..N /\ next' = next + 1 /\ N \in Nat
      /\ pc' = [pc EXCEPT ![w] = "parse"] /\ pc \in [Workers -> PCs] /\ pc[w] = "idle"
      /\ job' = [job EXCEPT ![w] = next] /\ job \in [Workers -> 0..N]
      /\ UNCHANGED <<cancelled, cur, results, log>>
      /\ late' = IF cancelled THEN late \cup {next} ELSE late
  BY RunAssumption DEF Dispatch, IInv, TypeOK
<1>2. next \in Inputs /\ log[next] = <<>>
  BY <1>1 DEF History, Past, Inputs
<1>3. ASSUME NEW v \in Workers PROVE Own(v)'
  <2>1. CASE v = w
    BY <1>1, <1>2, <2>1 DEF Own
  <2>2. CASE v # w
    <3>1. pc[v] = "probe" => job[v] # next
      BY <1>1 DEF IInv, DisjointSlots, Checking
    <3> QED BY <1>1, <2>2, <3>1, OwnKept DEF History
  <2> QED BY <2>1, <2>2
<1>4. ASSUME NEW i \in Inputs PROVE Past(i)'
  <2>1. CASE i \in late' /\ i \notin late
    <3>1. i = next /\ cancelled
      BY <1>1, <2>1
    <3>2. Past(i)
      BY DEF History
    <3>3. results[i].status = "unset"
      BY <1>1, <3>1, NoResultStatus DEF IInv, DisjointSlots
    <3>4. Frugal(log[i])'
      BY <1>1, <3>2 DEF Past, Frugal, Oks, Count
    <3> QED BY <1>1, <1>2, <3>1, <3>3, <3>4 DEF Past, Frugal
  <2>2. CASE ~(i \in late' /\ i \notin late)
    BY <1>1, <2>2, PastKept DEF History, Inputs
  <2> QED BY <2>1, <2>2
<1> QED BY <1>3, <1>4 DEF History

(* A worker's step that leaves the other workers and their inputs alone.   *)
LEMMA OthersKept ==
  ASSUME IInv, History, NEW w \in Workers, Checking(w),
         UNCHANGED <<next, cancelled, job, late>>,
         \A v \in Workers \ {w} : pc'[v] = pc[v] /\ cur'[v] = cur[v],
         \A i \in Inputs : i # job[w] => log'[i] = log[i] /\ results'[i] = results[i],
         Own(w)', job[w] \in Inputs => Past(job[w])'
  PROVE  History'
<1>1. \A v \in Workers : Checking(v) => job[v] \in Inputs /\ (v # w => job[v] # job[w])
  <2>1. next \in 1..(N + 1) /\ N \in Nat
    BY RunAssumption DEF IInv, TypeOK
  <2> QED BY <2>1 DEF IInv, DisjointSlots, Inputs
<1>2. ASSUME NEW v \in Workers PROVE Own(v)'
  <2>1. CASE v # w
    BY <1>1, <2>1, OwnKept DEF History
  <2> QED BY <2>1
<1>3. ASSUME NEW i \in Inputs PROVE Past(i)'
  <2>1. CASE i # job[w]
    BY <2>1, PastKept DEF History
  <2> QED BY <2>1
<1> QED BY <1>2, <1>3 DEF History

LEMMA ParseHistory ==
  ASSUME IInv, History, NEW w \in Workers, Parse(w)
  PROVE  History'
<1>1. /\ Checking(w) /\ pc[w] = "parse" /\ pc \in [Workers -> PCs] /\ cur \in [Workers -> CurType]
      /\ UNCHANGED <<next, dispatcher, cancelled, job, log, late>>
      /\ cur' = [cur EXCEPT ![w] = Fresh]
  BY DEF Parse, Checking, IInv, TypeOK
<1>2. log[job[w]] = <<>>
  BY <1>1 DEF History, Own
<1>3. \A v \in Workers \ {w} : pc'[v] = pc[v] /\ cur'[v] = cur[v]
  BY <1>1 DEF Parse
<1>4. /\ job[w] \in Inputs /\ results[job[w]].status = "unset"
      /\ results \in [Inputs -> ResultType]
      /\ \A i \in Inputs : i # job[w] => results'[i] = results[i]
  BY <1>1, SettledSlot
<1>5. Past(job[w])
  BY <1>4 DEF History
<1>6. CASE job[w] \in Parsable
  <2>1. results' = results /\ pc'[w] = "poll" /\ cur'[w] = Fresh
    BY <1>1, <1>6 DEF Parse
  <2>2. Own(w)'
    <3>1. Oks(<<>>) = 0 /\ Len(<<>>) = 0 /\ ErrOf(NoErr, <<>>)
      BY OksEmpty DEF ErrOf, AllOk
    <3>2. Unsettled(<<>>)
      BY OksEmpty, RunAssumption DEF Unsettled
    <3>3. Fresh.successes = 0 /\ Fresh.attempts = 0 /\ Fresh.lastErr = NoErr
      BY DEF Fresh
    <3>4. log'[job'[w]] = <<>>
      BY <1>1, <1>2
    <3> QED BY <2>1, <3>1, <3>2, <3>3, <3>4 DEF Own
  <2>3. Past(job[w])'
    BY <1>1, <1>4, <1>5, <2>1, PastKept
  <2> QED BY <1>1, <1>3, <1>4, <2>2, <2>3, OthersKept
<1>7. CASE job[w] \notin Parsable
  <2>1. /\ results' = [results EXCEPT ![job[w]].status = "invalid"]
        /\ pc'[w] = "count"
    BY <1>1, <1>7 DEF Parse
  <2>2. results'[job[w]].status = "invalid"
    <3>1. results[job[w]] \in ResultType
      BY <1>4
    <3> QED BY <1>4, <2>1, <3>1 DEF ResultType
  <2>3. Own(w)'
    BY <2>1, OwnGone
  <2>4. Past(job[w])'
    BY <1>1, <1>2, <1>5, <2>2 DEF Past, Frugal
  <2> QED BY <1>1, <1>3, <1>4, <2>3, <2>4, OthersKept
<1> QED BY <1>6, <1>7

(* The verdict is drawn from locals that match the log.                    *)
LEMMA VerdictHistory ==
  ASSUME IInv, History, NEW w \in Workers, Verdict(w)
  PROVE  History'
<1> DEFINE i == job[w]
           s == log[i]
           c == cur[w]
           r == results'[i]
<1>1. /\ Checking(w) /\ pc[w] = "verdict" /\ pc \in [Workers -> PCs] /\ cur \in [Workers -> CurType]
      /\ UNCHANGED <<next, dispatcher, cancelled, job, cur, log, late>>
      /\ pc'[w] = "count" /\ \A v \in Workers \ {w} : pc'[v] = pc[v]
  BY DEF Verdict, Checking, IInv, TypeOK
<1>2. /\ i \in Inputs /\ results[i].status = "unset" /\ results \in [Inputs -> ResultType]
      /\ \A j \in Inputs : j # i => results'[j] = results[j]
  BY <1>1, SettledSlot
<1>3. r = VerdictOf(c)
  BY <1>2 DEF Verdict
<1>4. /\ c.successes = Oks(s) /\ Len(s) = c.attempts
      /\ cancelled \/ ErrOf(c.lastErr, s)
      /\ cancelled \/ Complete(s) \/ Oks(s) >= MinSuccesses
  BY <1>1 DEF History, Own
<1>5. /\ Frugal(s) /\ (i \in late => cancelled /\ i < next /\ s = <<>>) /\ ~(i >= next)
  <2>1. next \in 1..(N + 1) /\ N \in Nat /\ i \in 1..(next - 1)
    BY <1>1, RunAssumption DEF IInv, TypeOK, DisjointSlots
  <2> QED BY <1>2, <2>1 DEF History, Past
<1>6. s \in Seq(Outcomes) /\ Oks(s) \in Nat /\ MinSuccesses \in 1..Attempts /\ Attempts \in Nat
  BY <1>2, OksType, RunAssumption DEF IInv, TypeOK
<1>7. /\ r.status = "live" <=> Oks(s) >= MinSuccesses
      /\ r.status \in {"live", "dead"}
      /\ r.successes = Oks(s) /\ r.attempts = Len(s)
      /\ r.status = "dead" => r.kind = c.lastErr.kind
  BY <1>3, <1>4 DEF VerdictOf
<1>8. ASSUME r.status = "dead", ~cancelled
      PROVE  Complete(s) /\ LastFailure(s, r.kind)
  <2>1. Complete(s) /\ Oks(s) < MinSuccesses /\ ErrOf(c.lastErr, s)
    BY <1>4, <1>6, <1>7, <1>8
  <2>2. ~AllOk(s)
    <3>1. CASE Len(s) = Attempts
      <4>1. Oks(s) # Len(s)
        BY <1>6, <2>1, <3>1
      <4> HIDE DEF s
      <4> QED BY <1>6, <4>1, OksType
    <3>2. CASE Len(s) > 0 /\ s[Len(s)].stage = "dial"
      <4>1. s[Len(s)] # Success /\ Len(s) \in 1..Len(s)
        BY <1>6, <3>2 DEF Success
      <4> QED BY <4>1 DEF AllOk
    <3> QED BY <2>1, <3>1, <3>2 DEF Complete
  <2> QED BY <1>7, <1>8, <2>1, <2>2 DEF ErrOf
<1>9. Past(i)'
  <2>1. PICK j \in Inputs : j = i
    BY <1>2
  <2>2. r.status # "invalid"
    BY <1>7
  <2>3. log'[j] = s /\ results'[j] = r /\ next' = next /\ cancelled' = cancelled /\ late' = late
    BY <1>1, <2>1
  <2>4. /\ ~(j >= next') /\ (j \in late' => cancelled' /\ j < next' /\ s = <<>>)
        /\ ~cancelled' => ~cancelled
    BY <1>5, <2>1, <2>3
  <2>5. Past(j)'
    <3> HIDE DEF r, s, i
    <3> QED BY <1>5, <1>7, <1>8, <2>2, <2>3, <2>4, PastIs
  <2> QED BY <1>1, <2>1, <2>5
<1>10. Own(w)'
  BY <1>1, OwnGone
<1> QED BY <1>1, <1>2, <1>9, <1>10, OthersKept

-----------------------------------------------------------------------------
(* The loop of check().                                                    *)

(* What a worker in the loop holds.                                        *)
LEMMA InLoopFacts ==
  ASSUME IInv, History, NEW w \in Workers, pc[w] \in {"poll", "backoff", "probe"}
  PROVE  /\ Checking(w) /\ job[w] \in Inputs /\ results[job[w]].status = "unset"
         /\ job[w] < next
         /\ cur[w] \in CurType /\ cur \in [Workers -> CurType] /\ pc \in [Workers -> PCs]
         /\ log[job[w]] \in Seq(Outcomes) /\ log \in [Inputs -> Seq(Outcomes)]
         /\ Own(w) /\ Past(job[w])
<1>1. Checking(w)
  BY DEF Checking
<1>2. next \in 1..(N + 1) /\ N \in Nat /\ job[w] \in 1..(next - 1) /\ results[job[w]].status = "unset"
  BY <1>1, RunAssumption DEF IInv, TypeOK, DisjointSlots
<1>3. job[w] \in Inputs /\ job[w] < next
  BY <1>2 DEF Inputs
<1> QED BY <1>1, <1>2, <1>3 DEF IInv, TypeOK, History

(* Steps between two probes.                                               *)
LEMMA WaitHistory ==
  ASSUME IInv, History, NEW w \in Workers, Poll(w) \/ BackoffEnds(w) \/ BackoffCancelled(w)
  PROVE  History'
<1>1. pc[w] \in {"poll", "backoff"}
  BY DEF Poll, BackoffEnds, BackoffCancelled
<1>2. /\ UNCHANGED <<next, cancelled, job, log, late, results>>
      /\ \A v \in Workers \ {w} : pc'[v] = pc[v] /\ cur'[v] = cur[v]
  BY <1>1, InLoopFacts DEF Poll, BackoffEnds, BackoffCancelled
<1>3. Past(job[w])'
  BY <1>1, <1>2, InLoopFacts, PastKept
<1>4. /\ cur[w].successes = Oks(log[job[w]])
      /\ Len(log[job[w]]) = cur[w].attempts
      /\ ErrOf(cur[w].lastErr, log[job[w]])
      /\ Unsettled(log[job[w]])
  BY <1>1, InLoopFacts DEF Own
<1>5. cur[w].attempt = cur[w].attempts + 1 /\ cur[w] \in CurType
  <2>1. cur[w] \in CurType /\ cur[w].attempts = cur[w].attempt - 1
    BY <1>1, InLoopFacts DEF IInv, Loop
  <2> QED BY <2>1, RunAssumption DEF CurType
<1>6. /\ log'[job'[w]] = log[job[w]] /\ job'[w] = job[w]
      /\ Oks(log[job[w]])' = Oks(log[job[w]])
  BY <1>2 DEF Oks, Count
<1>7. CASE cancelled
  <2>1. \/ pc'[w] = "verdict" /\ cur'[w].successes = cur[w].successes /\ cur'[w].attempts = cur[w].attempts
        \/ pc'[w] = "poll" /\ cur'[w] = cur[w]
    <3>1. cur[w] \in CurType /\ cur \in [Workers -> CurType] /\ pc \in [Workers -> PCs]
      BY <1>1, InLoopFacts
    <3>2. CASE Poll(w)
      BY <1>7, <3>1, <3>2 DEF Poll, CurType
    <3>3. CASE BackoffEnds(w) \/ BackoffCancelled(w)
      BY <3>1, <3>3 DEF BackoffEnds, BackoffCancelled
    <3> QED BY <3>2, <3>3
  <2>2. CASE pc'[w] = "verdict"
    <3>1. Own(w)'
      BY <1>2, <1>4, <1>6, <1>7, <2>1, <2>2, OwnIs
    <3> QED BY <1>1, <1>2, <1>3, <3>1, InLoopFacts, OthersKept
  <2>3. CASE pc'[w] = "poll" /\ cur'[w] = cur[w]
    <3>1. Own(w)'
      BY <1>2, <1>4, <1>6, <2>3, OwnIs
    <3> QED BY <1>1, <1>2, <1>3, <3>1, InLoopFacts, OthersKept
  <2> QED BY <2>1, <2>2, <2>3
<1>8. CASE ~cancelled
  <2>1. \/ pc'[w] = "poll" /\ cur'[w] = cur[w]
        \/ /\ pc'[w] = "probe" /\ cur'[w].successes = cur[w].successes
           /\ cur'[w].attempts = cur[w].attempt /\ cur'[w].lastErr = cur[w].lastErr
    <3>1. cur[w] \in CurType /\ cur \in [Workers -> CurType] /\ pc \in [Workers -> PCs]
      BY <1>1, InLoopFacts
    <3>2. CASE Poll(w)
      BY <1>8, <3>1, <3>2 DEF Poll, CurType
    <3>3. CASE BackoffEnds(w) \/ BackoffCancelled(w)
      BY <1>8, <3>1, <3>3 DEF BackoffEnds, BackoffCancelled
    <3> QED BY <3>2, <3>3
  <2>2. late = {} \/ job[w] \notin late
    BY <1>1, <1>8, InLoopFacts DEF Past
  <2>3. cur[w].attempt - 1 = cur[w].attempts
    BY <1>5 DEF CurType
  <2>4. Own(w)'
    BY <1>2, <1>4, <1>6, <2>1, <2>2, <2>3, OwnIs
  <2> QED BY <1>1, <1>2, <1>3, <2>4, InLoopFacts, OthersKept
<1> QED BY <1>7, <1>8

(* A probe: o is its outcome, c the locals that take it into account.      *)
LEMMA ProbeHistory ==
  ASSUME IInv, History, NEW w \in Workers, pc[w] = "probe",
         NEW o \in Outcomes, NEW c \in CurType,
         c.attempt = cur[w].attempt, c.attempts = cur[w].attempts,
         c.successes = Oks(Append(log[job[w]], o)),
         ErrOf(c.lastErr, Append(log[job[w]], o)),
         log' = [log EXCEPT ![job[w]] = Append(@, o)],
         UNCHANGED <<next, dispatcher, cancelled, job, results, done, live, number, lines, late>>,
         \/ LeaveLoop(w, c) /\ (c.successes >= MinSuccesses \/ o.stage = "dial")
         \/ Continue(w, c) /\ c.successes < MinSuccesses /\ o.stage # "dial"
  PROVE  History'
<1> DEFINE i == job[w]
           s == log[i]
           t == Append(s, o)
<1>1. /\ Checking(w) /\ i \in Inputs /\ results[i].status = "unset" /\ i < next
      /\ cur \in [Workers -> CurType] /\ pc \in [Workers -> PCs]
      /\ s \in Seq(Outcomes) /\ log \in [Inputs -> Seq(Outcomes)]
  BY InLoopFacts
<1>2. /\ Unsettled(s) /\ Len(s) = c.attempts - 1 /\ i \notin late
  BY InLoopFacts DEF Own
<1>3. c.attempts = c.attempt /\ c.attempt \in 1..Attempts /\ c.attempts \in 0..Attempts /\ Attempts \in Nat
  BY RunAssumption DEF IInv, Loop, CurType
<1>4. /\ log'[i] = t /\ \A j \in Inputs : j # i => log'[j] = log[j]
      /\ Len(t) = c.attempts /\ t[Len(t)] = o /\ Frugal(t)
  BY <1>1, <1>2, <1>3, Appended, StaysFrugal
<1>5. Past(i)'
  <2>1. log'[i] = t /\ results'[i].status = "unset" /\ ~(i >= next') /\ i \notin late' /\ Frugal(t)
    <3>1. next \in Nat /\ i \in Nat
      BY <1>1, RunAssumption DEF IInv, TypeOK, Inputs
    <3> QED BY <1>1, <1>2, <1>4, <3>1
  <2>2. PICK j \in Inputs : j = i
    BY <1>1
  <2>3. Past(j)'
    <3> HIDE DEF t
    <3> QED BY <2>1, <2>2, PastIs
  <2> QED BY <2>2, <2>3
<1>6. ASSUME NEW d \in CurType, cur' = [cur EXCEPT ![w] = d], d.successes = c.successes,
             d.attempts = c.attempts, d.lastErr = c.lastErr,
             \/ pc' = [pc EXCEPT ![w] = "verdict"] /\ (Complete(t) \/ Oks(t) >= MinSuccesses)
             \/ pc' = [pc EXCEPT ![w] = "backoff"] /\ Unsettled(t)
      PROVE  History'
  <2>1. cur'[w] = d /\ \A v \in Workers \ {w} : pc'[v] = pc[v] /\ cur'[v] = cur[v]
    BY <1>1, <1>6
  <2>2. \/ pc'[w] = "verdict" /\ (Complete(t) \/ Oks(t) >= MinSuccesses)
        \/ pc'[w] = "backoff" /\ Unsettled(t)
    BY <1>1, <1>6
  <2>3. /\ log'[job'[w]] = t /\ Oks(t) = d.successes /\ ErrOf(d.lastErr, t)
        /\ Len(t) = d.attempts /\ pc'[w] \notin {"parse", "probe"}
    BY <1>4, <1>6, <2>2
  <2> HIDE DEF t
  <2>4. Own(w)'
    BY <2>1, <2>2, <2>3, OwnIs
  <2> QED BY <1>1, <1>4, <1>5, <2>1, <2>4, OthersKept
<1>7. ASSUME Complete(t) \/ Oks(t) >= MinSuccesses, LeaveLoop(w, c) PROVE History'
  BY <1>6, <1>7 DEF LeaveLoop
<1>8. CASE LeaveLoop(w, c) /\ (c.successes >= MinSuccesses \/ o.stage = "dial")
  <2>1. Complete(t) \/ Oks(t) >= MinSuccesses
    BY <1>3, <1>4, <1>8 DEF Complete
  <2> QED BY <1>7, <1>8, <2>1
<1>9. CASE Continue(w, c) /\ c.successes < MinSuccesses /\ o.stage # "dial"
  <2>1. CASE c.attempt < Attempts
    <3> DEFINE d == [c EXCEPT !.attempt = c.attempt + 1]
    <3>1. /\ d \in CurType /\ d.successes = c.successes
          /\ d.attempts = c.attempts /\ d.lastErr = c.lastErr
      BY <1>3, <2>1 DEF CurType
    <3>2. cur' = [cur EXCEPT ![w] = d] /\ pc' = [pc EXCEPT ![w] = "backoff"]
      BY <1>9, <2>1 DEF Continue
    <3>3. Unsettled(t)
      <4>1. Len(s) \in Nat /\ Len(t) = Len(s) + 1 /\ \A k \in 1..Len(s) : t[k] = s[k]
        BY <1>1, Appended
      <4>2. \A k \in 1..Len(t) : t[k].stage # "dial"
        <5> TAKE k \in 1..Len(t)
        <5>1. CASE k \in 1..Len(s)
          BY <1>2, <4>1, <5>1 DEF Unsettled
        <5>2. CASE k = Len(t)
          BY <1>4, <1>9, <5>2
        <5>3. k \in 1..Len(s) \/ k = Len(t)
          BY <4>1
        <5> QED BY <5>1, <5>2, <5>3
      <4> QED BY <1>9, <4>2 DEF Unsettled
    <3> HIDE DEF d, t
    <3> QED BY <1>6, <3>1, <3>2, <3>3
  <2>2. CASE ~(c.attempt < Attempts)
    <3>1. Complete(t)
      BY <1>3, <1>4, <2>2 DEF Complete
    <3>2. LeaveLoop(w, c)
      BY <1>9, <2>2 DEF Continue, LeaveLoop
    <3> QED BY <1>7, <3>1, <3>2
  <2> QED BY <2>1, <2>2
<1> QED BY <1>8, <1>9

LEMMA SucceedsHistory ==
  ASSUME IInv, History, NEW w \in Workers, ProbeSucceeds(w)
  PROVE  History'
<1> DEFINE c == [cur[w] EXCEPT !.successes = cur[w].successes + 1]
           s == log[job[w]]
<1>1. pc[w] = "probe"
  BY DEF ProbeSucceeds
<1>2. /\ cur[w] \in CurType /\ s \in Seq(Outcomes) /\ cur[w].successes = Oks(s)
      /\ ErrOf(cur[w].lastErr, s) /\ Success \in Outcomes
  BY <1>1, InLoopFacts DEF Own, Outcomes
<1>3. cur[w].successes + 1 \in 0..Attempts
  BY <1>1, <1>2, RunAssumption DEF IInv, Loop, CurType
<1>4. /\ c \in CurType /\ c.successes = cur[w].successes + 1 /\ c.lastErr = cur[w].lastErr
      /\ c.attempt = cur[w].attempt /\ c.attempts = cur[w].attempts
  BY <1>2, <1>3 DEF CurType
<1>5. c.successes = Oks(Append(s, Success)) /\ ErrOf(c.lastErr, Append(s, Success))
  BY <1>2, <1>4, OksAppend, ErrAfterSuccess
<1>6. Success.stage # "dial" /\ c.successes \in Nat /\ MinSuccesses \in Nat
  BY <1>3, <1>4, RunAssumption DEF Success
<1>7. /\ log' = [log EXCEPT ![job[w]] = Append(@, Success)]
      /\ UNCHANGED <<next, dispatcher, cancelled, job, results, done, live, number, lines, late>>
      /\ \/ LeaveLoop(w, c) /\ c.successes >= MinSuccesses
         \/ Continue(w, c) /\ ~(c.successes >= MinSuccesses)
  BY DEF ProbeSucceeds
<1> HIDE DEF c
<1>8. \/ LeaveLoop(w, c) /\ (c.successes >= MinSuccesses \/ Success.stage = "dial")
      \/ Continue(w, c) /\ c.successes < MinSuccesses /\ Success.stage # "dial"
  BY <1>6, <1>7
<1> QED BY <1>1, <1>2, <1>4, <1>5, <1>7, <1>8, ProbeHistory

LEMMA FailsHistory ==
  ASSUME IInv, History, NEW w \in Workers, ProbeFails(w)
  PROVE  History'
<1>1. PICK e \in ProbeErrors \cup CancelErrors :
        /\ log' = [log EXCEPT ![job[w]] = Append(@, e)]
        /\ \/ e.stage = "dial" /\ LeaveLoop(w, [cur[w] EXCEPT !.lastErr = e])
           \/ e.stage # "dial" /\ Continue(w, [cur[w] EXCEPT !.lastErr = e])
  BY DEF ProbeFails
<1> DEFINE c == [cur[w] EXCEPT !.lastErr = e]
           s == log[job[w]]
<1>2. pc[w] = "probe" /\ UNCHANGED <<next, dispatcher, cancelled, job, results, done, live, number, lines, late>>
  BY DEF ProbeFails
<1>3. /\ cur[w] \in CurType /\ s \in Seq(Outcomes) /\ cur[w].successes = Oks(s)
      /\ Oks(s) < MinSuccesses
  BY <1>2, InLoopFacts DEF Own, Unsettled
<1>4. e \in Outcomes /\ e # Success /\ e \in Errors
  BY ErrorsFail DEF Errors
<1>5. /\ c \in CurType /\ c.successes = cur[w].successes /\ c.lastErr = e
      /\ c.attempt = cur[w].attempt /\ c.attempts = cur[w].attempts
  BY <1>3, <1>4 DEF CurType
<1>6. Oks(Append(s, e)) = Oks(s) /\ ErrOf(e, Append(s, e))
  BY <1>3, <1>4, OksAppend, ErrAfterFailure
<1>7. \/ LeaveLoop(w, c) /\ e.stage = "dial"
      \/ Continue(w, c) /\ e.stage # "dial"
  BY <1>1
<1> HIDE DEF c
<1>8. c.successes < MinSuccesses
  BY <1>3, <1>5
<1> QED BY <1>1, <1>2, <1>3, <1>4, <1>5, <1>6, <1>7, <1>8, ProbeHistory

-----------------------------------------------------------------------------
LEMMA InitHistory == Init => History
<1> SUFFICES ASSUME Init PROVE History
  OBVIOUS
<1>1. \A w \in Workers : Own(w)
  BY DEF Init, Own
<1>2. ASSUME NEW i \in Inputs PROVE Past(i)
  <2>1. log[i] = <<>> /\ results[i].status = "unset" /\ late = {}
    BY NoResultStatus DEF Init
  <2> QED BY <2>1 DEF Past, Frugal
<1> QED BY <1>1, <1>2 DEF History

LEMMA StepHistory == IInv /\ History /\ [Next]_vars => History'
<1> SUFFICES ASSUME IInv, History, [Next]_vars PROVE History'
  OBVIOUS
<1>1. pc \in [Workers -> PCs]
  BY DEF IInv, TypeOK
<1>2. ASSUME NEW w \in Workers, Exit(w) \/ CountDone(w) \/ CountLive(w) \/ ShowLine(w) PROVE History'
  <2>1. CASE Exit(w)
    BY <1>1, <2>1, QuietStep DEF Exit
  <2>2. CASE CountDone(w)
    BY <1>1, <2>2, QuietStep DEF CountDone
  <2>3. CASE CountLive(w)
    BY <1>1, <2>3, QuietStep DEF CountLive
  <2>4. CASE ShowLine(w)
    BY <1>1, <2>4, QuietStep DEF ShowLine
  <2> QED BY <1>2, <2>1, <2>2, <2>3, <2>4
<1>3. CASE StopSending \/ AllSent \/ Return \/ Cancel \/ UNCHANGED vars
  <2>1. /\ UNCHANGED <<next, job, cur, results, log, late, pc>>
        /\ cancelled => cancelled'
    BY <1>3 DEF StopSending, AllSent, Return, Cancel, vars
  <2> HIDE DEF vars
  <2>2. \A v \in Workers : pc'[v] = pc[v]
    BY <2>1
  <2> QED BY <2>1, <2>2, QuietStep
<1> QED BY <1>2, <1>3, DispatchHistory, ParseHistory, VerdictHistory, WaitHistory,
           SucceedsHistory, FailsHistory DEF Next, Finished, Worker, Run

LEMMA HistoryInvariance == Spec => [](IInv /\ History)
<1> QED BY InitHistory, StepHistory, Invariance, PTL DEF Spec

-----------------------------------------------------------------------------
LEMMA SettledLog ==
  ASSUME IInv, History, NEW i \in Inputs, NEW w \in Workers
  PROVE  results[i].status # "unset" => ~(Checking(w) /\ job[w] = i)
BY DEF IInv, DisjointSlots

LEMMA LogOks ==
  ASSUME IInv, NEW i \in Inputs
  PROVE  /\ Oks(log[i]) \in Nat /\ MinSuccesses \in Nat /\ MinSuccesses >= 1
         /\ log[i] = <<>> => ~(Oks(log[i]) >= MinSuccesses)
         /\ results[i].status \in {"unset", "live", "dead", "invalid"}
<1>1. log[i] \in Seq(Outcomes) /\ results[i] \in ResultType
  BY DEF IInv, TypeOK
<1>2. Oks(log[i]) \in Nat /\ MinSuccesses \in Nat /\ MinSuccesses >= 1
  BY <1>1, OksType, RunAssumption
<1>3. log[i] = <<>> => Oks(log[i]) = 0
  BY OksEmpty
<1>4. results[i].status \in {"unset", "live", "dead", "invalid"}
  BY <1>1 DEF ResultType
<1> QED BY <1>2, <1>3, <1>4

(* Whatever the links, the outcomes of the probes and the moment of the    *)
(* cancellation, the verdict of an input is the one its own probes earned: *)
(* no local of check() leaks from one input into the next.                 *)
THEOREM VerdictsAreEarned == Spec => []VerdictEarned
<1>1. IInv /\ History => VerdictEarned
  <2> SUFFICES ASSUME IInv, History, NEW i \in Inputs
      PROVE LET r == results[i]  s == log[i] IN
            /\ r.status = "live" <=> Oks(s) >= MinSuccesses /\ ~\E w \in Workers : Checking(w) /\ job[w] = i
            /\ r.status \in {"live", "dead"} => r.successes = Oks(s) /\ r.attempts = Len(s)
            /\ r.status = "dead" /\ ~cancelled =>
                 /\ Len(s) = Attempts \/ s[Len(s)].stage = "dial"
                 /\ \E k \in 1..Len(s) : /\ s[k] # Success /\ s[k].kind = r.kind
                                         /\ \A m \in (k + 1)..Len(s) : s[m] = Success
    BY DEF VerdictEarned
  <2>1. Past(i)
    BY DEF History
  <2>2. ASSUME results[i].status = "live"
        PROVE  Oks(log[i]) >= MinSuccesses /\ ~\E w \in Workers : Checking(w) /\ job[w] = i
    BY <2>1, <2>2, SettledLog DEF Past
  <2>3. ASSUME Oks(log[i]) >= MinSuccesses, ~\E w \in Workers : Checking(w) /\ job[w] = i
        PROVE  results[i].status = "live"
    <3>1. results[i].status # "dead"
      BY <2>1, <2>3 DEF Past
    <3>2. log[i] # <<>>
      BY <2>3, LogOks
    <3>3. results[i].status # "invalid" /\ ~(i >= next)
      BY <2>1, <3>2 DEF Past
    <3>4. results[i].status # "unset"
      <4>1. next \in 1..(N + 1) /\ N \in Nat /\ i \in 1..N
        BY RunAssumption DEF IInv, TypeOK, Inputs
      <4>2. i \in 1..(next - 1)
        BY <3>3, <4>1
      <4> QED BY <2>3, <4>2 DEF IInv, Held
    <3> QED BY <3>1, <3>3, <3>4, LogOks
  <2>4. results[i].status \in {"live", "dead"} =>
          results[i].successes = Oks(log[i]) /\ results[i].attempts = Len(log[i])
    BY <2>1 DEF Past
  <2>5. results[i].status = "dead" /\ ~cancelled =>
          Complete(log[i]) /\ LastFailure(log[i], results[i].kind)
    BY <2>1 DEF Past
  <2> QED BY <2>2, <2>3, <2>4, <2>5 DEF Complete, LastFailure
<1> QED BY <1>1, HistoryInvariance, PTL

(* No connection is spent once the outcome is settled, and an input handed *)
(* out after the cancellation is never probed.                             *)
THEOREM NoProbeIsWasted == Spec => []NoWastedProbe
<1>1. IInv /\ History => NoWastedProbe
  <2> SUFFICES ASSUME IInv, History PROVE NoWastedProbe
    OBVIOUS
  <2>1. \A i \in Inputs : Frugal(log[i])
    BY DEF History, Past
  <2>2. ASSUME NEW i \in late PROVE log[i] = <<>> /\ results[i].status # "live"
    <3>1. i \in Inputs
      BY DEF IInv, TypeOK
    <3> QED BY <3>1, LogOks DEF History, Past
  <2> QED BY <2>1, <2>2 DEF NoWastedProbe, Frugal
<1> QED BY <1>1, HistoryInvariance, PTL

-----------------------------------------------------------------------------
(* The counters.  A result is counted once, after it was stored.           *)

LEMMA Finite == IsFiniteSet(Workers) /\ IsFiniteSet(Inputs)
BY WorkersAssumption, RunAssumption, UpTo DEF Inputs

LEMMA OneMoreOrLess ==
  ASSUME NEW T, IsFiniteSet(T), NEW S \in SUBSET T, NEW x
  PROVE  /\ Cardinality(S) \in Nat
         /\ x \notin S => Cardinality(S \cup {x}) = Cardinality(S) + 1
         /\ x \in S => Cardinality(S \ {x}) = Cardinality(S) - 1
<1>1. IsFiniteSet(S)
  BY FS_Subset
<1> QED BY <1>1, FS_CardinalityType, FS_AddElement, FS_RemoveElement

LEMMA TallyParts ==
  /\ Counting \in SUBSET Workers /\ CountingLive \in SUBSET Workers
  /\ Counted \in SUBSET Workers
  /\ HasResult \in SUBSET Inputs /\ IsLive \in SUBSET Inputs
BY DEF Counting, CountingLive, Counted, HasResult, IsLive

LEMMA InitTally == Init => Tally
<1> SUFFICES ASSUME Init PROVE Tally
  OBVIOUS
<1>1. \A i \in Inputs : results[i].status = "unset"
  BY NoResultStatus DEF Init
<1>2. Counting = {} /\ CountingLive = {} /\ Counted = {} /\ HasResult = {} /\ IsLive = {}
  BY <1>1 DEF Init, Counting, CountingLive, Counted, HasResult, IsLive
<1>3. Cardinality({}) = 0
  BY FS_EmptySet
<1>4. done = 0 /\ live = 0
  BY DEF Init
<1> QED BY <1>1, <1>2, <1>3, <1>4 DEF Tally, Init

(* Steps that neither store nor count a result.                            *)
LEMMA TallyKept ==
  ASSUME Tally, UNCHANGED <<done, live, results>>,
         \A w \in Workers : /\ pc'[w] = pc[w] \/ {pc'[w], pc[w]} \cap {"count", "countlive"} = {}
                            /\ pc[w] = "count" => job'[w] = job[w]
  PROVE  Tally'
<1>1. /\ Counting' = Counting /\ CountingLive' = CountingLive /\ Counted' = Counted
      /\ HasResult' = HasResult /\ IsLive' = IsLive
  BY DEF Counting, CountingLive, Counted, HasResult, IsLive
<1>2. \A w \in Workers : pc'[w] = "count" => job'[w] \in HasResult
  BY DEF Tally
<1> QED BY <1>1, <1>2 DEF Tally

(* A result is stored.                                                     *)
LEMMA StoreTally ==
  ASSUME IInv, Tally, NEW w \in Workers, Checking(w), NEW i \in Inputs, job[w] = i,
         results[i].status = "unset", results'[i].status # "unset",
         \A j \in Inputs : j # i => results'[j] = results[j],
         pc' = [pc EXCEPT ![w] = "count"], UNCHANGED <<job, done, live>>
  PROVE  Tally'
<1>1. pc[w] \notin {"count", "countlive"} /\ pc'[w] = "count"
      /\ \A v \in Workers : v # w => pc'[v] = pc[v]
  BY DEF Checking, IInv, TypeOK
<1>2. \A v \in Workers : pc[v] = "count" => job[v] \in Inputs /\ job[v] # i
  BY DEF Tally, HasResult
<1>3. /\ HasResult' = HasResult \cup {i} /\ i \notin HasResult
      /\ Counting' = Counting \cup {w} /\ w \notin Counting /\ Counted' = Counted
  BY <1>1 DEF HasResult, Counting, Counted
<1>4. /\ Cardinality(HasResult') = Cardinality(HasResult) + 1
      /\ Cardinality(Counting') = Cardinality(Counting) + 1
      /\ Cardinality(HasResult) \in Nat /\ Cardinality(Counting) \in Nat
  BY <1>3, Finite, TallyParts, OneMoreOrLess
<1>5. \/ /\ IsLive' = IsLive \cup {i} /\ i \notin IsLive
         /\ CountingLive' = CountingLive \cup {w} /\ w \notin CountingLive
      \/ IsLive' = IsLive /\ CountingLive' = CountingLive
  BY <1>1, <1>2 DEF IsLive, CountingLive
<1>6. /\ Cardinality(IsLive') - Cardinality(CountingLive') = Cardinality(IsLive) - Cardinality(CountingLive)
      /\ Cardinality(IsLive) \in Nat /\ Cardinality(CountingLive) \in Nat
      /\ Cardinality(IsLive') \in Nat /\ Cardinality(CountingLive') \in Nat
  <2>1. Cardinality(IsLive) \in Nat /\ Cardinality(CountingLive) \in Nat
    BY Finite, TallyParts, OneMoreOrLess
  <2>2. CASE /\ IsLive' = IsLive \cup {i} /\ i \notin IsLive
             /\ CountingLive' = CountingLive \cup {w} /\ w \notin CountingLive
    <3>1. /\ Cardinality(IsLive') = Cardinality(IsLive) + 1
          /\ Cardinality(CountingLive') = Cardinality(CountingLive) + 1
      BY <2>2, Finite, TallyParts, OneMoreOrLess
    <3> QED BY <2>1, <3>1
  <2>3. CASE IsLive' = IsLive /\ CountingLive' = CountingLive
    BY <2>1, <2>3
  <2> QED BY <1>5, <2>2, <2>3
<1>7. \A v \in Workers : pc'[v] = "count" => job'[v] \in HasResult'
  BY <1>1, <1>3 DEF Tally
<1>8. /\ done \in Nat /\ live \in Nat /\ Cardinality(Counted) \in Nat
      /\ done + Cardinality(Counting) = Cardinality(HasResult)
      /\ live + Cardinality(Counted) + Cardinality(CountingLive) = Cardinality(IsLive)
      /\ live + Cardinality(Counted) <= done
  BY Finite, TallyParts, OneMoreOrLess DEF Tally, IInv, TypeOK
<1>9. /\ done' + Cardinality(Counting') = Cardinality(HasResult')
      /\ live' + Cardinality(Counted') + Cardinality(CountingLive') = Cardinality(IsLive')
      /\ live' + Cardinality(Counted') <= done'
  BY <1>3, <1>4, <1>6, <1>8
<1> QED BY <1>7, <1>9 DEF Tally

(* A result is counted: done first, then live.                             *)
LEMMA CountDoneTally ==
  ASSUME IInv, Tally, NEW w \in Workers, CountDone(w)
  PROVE  Tally'
<1>1. /\ pc[w] = "count" /\ done' = done + 1 /\ UNCHANGED <<results, job, live>>
      /\ pc'[w] = IF results[job[w]].status = "live" THEN "countlive" ELSE "print"
      /\ \A v \in Workers : v # w => pc'[v] = pc[v]
  BY DEF CountDone, IInv, TypeOK
<1>2. /\ HasResult' = HasResult /\ IsLive' = IsLive
      /\ Counting' = Counting \ {w} /\ w \in Counting
  BY <1>1 DEF HasResult, IsLive, Counting
<1>3. /\ Cardinality(Counting') = Cardinality(Counting) - 1
      /\ Cardinality(Counting) \in Nat /\ Cardinality(Counted) \in Nat
      /\ Cardinality(CountingLive) \in Nat /\ Cardinality(IsLive) \in Nat
      /\ Cardinality(HasResult) \in Nat
  BY <1>2, Finite, TallyParts, OneMoreOrLess
<1>4. \/ /\ CountingLive' = CountingLive \ {w} /\ w \in CountingLive
         /\ Counted' = Counted \cup {w} /\ w \notin Counted
      \/ CountingLive' = CountingLive /\ Counted' = Counted
  BY <1>1 DEF CountingLive, Counted
<1>5. \/ /\ Cardinality(CountingLive') = Cardinality(CountingLive) - 1
         /\ Cardinality(Counted') = Cardinality(Counted) + 1
      \/ /\ Cardinality(CountingLive') = Cardinality(CountingLive)
         /\ Cardinality(Counted') = Cardinality(Counted)
  BY <1>4, Finite, TallyParts, OneMoreOrLess
<1>6. \A v \in Workers : pc'[v] = "count" => job'[v] \in HasResult'
  BY <1>1, <1>2 DEF Tally
<1>7. /\ done \in Nat /\ live \in Nat
      /\ done + Cardinality(Counting) = Cardinality(HasResult)
      /\ live + Cardinality(Counted) + Cardinality(CountingLive) = Cardinality(IsLive)
      /\ live + Cardinality(Counted) <= done
  BY DEF Tally, IInv, TypeOK
<1>8. /\ done' + Cardinality(Counting') = Cardinality(HasResult')
      /\ live' + Cardinality(Counted') + Cardinality(CountingLive') = Cardinality(IsLive')
      /\ live' + Cardinality(Counted') <= done'
  BY <1>1, <1>2, <1>3, <1>5, <1>7
<1> QED BY <1>6, <1>8 DEF Tally

LEMMA CountLiveTally ==
  ASSUME IInv, Tally, NEW w \in Workers, CountLive(w)
  PROVE  Tally'
<1>1. /\ pc[w] = "countlive" /\ live' = live + 1 /\ UNCHANGED <<results, job, done>>
      /\ pc'[w] = "print" /\ \A v \in Workers : v # w => pc'[v] = pc[v]
  BY DEF CountLive, IInv, TypeOK
<1>2. /\ HasResult' = HasResult /\ IsLive' = IsLive /\ Counting' = Counting
      /\ CountingLive' = CountingLive /\ Counted' = Counted \ {w} /\ w \in Counted
  BY <1>1 DEF HasResult, IsLive, Counting, CountingLive, Counted
<1>3. /\ Cardinality(Counted') = Cardinality(Counted) - 1
      /\ Cardinality(Counted) \in Nat /\ Cardinality(CountingLive) \in Nat
  BY <1>2, Finite, TallyParts, OneMoreOrLess
<1>4. \A v \in Workers : pc'[v] = "count" => job'[v] \in HasResult'
  BY <1>1, <1>2 DEF Tally
<1>5. /\ done \in Nat /\ live \in Nat
      /\ done + Cardinality(Counting) = Cardinality(HasResult)
      /\ live + Cardinality(Counted) + Cardinality(CountingLive) = Cardinality(IsLive)
      /\ live + Cardinality(Counted) <= done
  BY DEF Tally, IInv, TypeOK
<1>6. /\ done' + Cardinality(Counting') = Cardinality(HasResult')
      /\ live' + Cardinality(Counted') + Cardinality(CountingLive') = Cardinality(IsLive')
      /\ live' + Cardinality(Counted') <= done'
  BY <1>1, <1>2, <1>3, <1>5
<1> QED BY <1>4, <1>6 DEF Tally

LEMMA ParseTally ==
  ASSUME IInv, Tally, NEW w \in Workers, Parse(w)
  PROVE  Tally'
<1>1. /\ Checking(w) /\ pc[w] = "parse" /\ pc \in [Workers -> PCs]
      /\ UNCHANGED <<job, done, live>>
  BY DEF Parse, Checking, IInv, TypeOK
<1>2. /\ job[w] \in Inputs /\ results[job[w]].status = "unset"
      /\ results \in [Inputs -> ResultType]
      /\ \A i \in Inputs : i # job[w] => results'[i] = results[i]
  BY <1>1, SettledSlot
<1>3. CASE job[w] \in Parsable
  BY <1>1, <1>3, TallyKept DEF Parse
<1>4. CASE job[w] \notin Parsable
  <2>1. pc' = [pc EXCEPT ![w] = "count"] /\ results' = [results EXCEPT ![job[w]].status = "invalid"]
    BY <1>1, <1>4 DEF Parse
  <2>2. results'[job[w]].status = "invalid"
    <3>1. results[job[w]] \in ResultType
      BY <1>2
    <3> QED BY <1>2, <2>1, <3>1 DEF ResultType
  <2>3. PICK i \in Inputs : job[w] = i
    BY <1>2
  <2>4. results[i].status = "unset" /\ results'[i].status # "unset"
        /\ \A j \in Inputs : j # i => results'[j] = results[j]
    BY <1>1, <1>2, <2>2, <2>3
  <2> QED BY <1>1, <2>1, <2>3, <2>4, StoreTally
<1> QED BY <1>3, <1>4

LEMMA VerdictTally ==
  ASSUME IInv, Tally, NEW w \in Workers, Verdict(w)
  PROVE  Tally'
<1>1. /\ Checking(w) /\ UNCHANGED <<job, done, live>> /\ pc' = [pc EXCEPT ![w] = "count"]
      /\ results' = [results EXCEPT ![job[w]] = VerdictOf(cur[w])]
  BY DEF Verdict, Checking
<1>2. /\ job[w] \in Inputs /\ results[job[w]].status = "unset"
      /\ results \in [Inputs -> ResultType]
      /\ \A i \in Inputs : i # job[w] => results'[i] = results[i]
  BY <1>1, SettledSlot
<1>3. PICK i \in Inputs : job[w] = i
  BY <1>2
<1>4. results'[i] = VerdictOf(cur[w])
  BY <1>1, <1>2, <1>3
<1>5. results'[i].status # "unset"
  BY <1>4 DEF VerdictOf
<1>6. results[i].status = "unset" /\ \A j \in Inputs : j # i => results'[j] = results[j]
  BY <1>2, <1>3
<1> QED BY <1>1, <1>3, <1>5, <1>6, StoreTally

LEMMA StepTally == IInv /\ Tally /\ [Next]_vars => Tally'
<1> SUFFICES ASSUME IInv, Tally, [Next]_vars PROVE Tally'
  OBVIOUS
<1>1. pc \in [Workers -> PCs] /\ job \in [Workers -> 0..N]
  BY DEF IInv, TypeOK
<1>2. ASSUME NEW w \in Workers, Exit(w) \/ Dispatch(w) \/ ShowLine(w) PROVE Tally'
  BY <1>1, <1>2, TallyKept DEF Exit, Dispatch, ShowLine
<1>3. CASE StopSending \/ AllSent \/ Return \/ Cancel \/ UNCHANGED vars
  BY <1>3, TallyKept DEF StopSending, AllSent, Return, Cancel, vars
<1>4. ASSUME NEW w \in Workers, Poll(w) \/ BackoffEnds(w) \/ BackoffCancelled(w) PROVE Tally'
  BY <1>1, <1>4, TallyKept DEF Poll, BackoffEnds, BackoffCancelled
<1>5. ASSUME NEW w \in Workers, ProbeSucceeds(w) \/ ProbeFails(w) PROVE Tally'
  <2>1. /\ pc[w] = "probe" /\ UNCHANGED <<done, live, results, job>>
        /\ pc' = [pc EXCEPT ![w] = "verdict"] \/ pc' = [pc EXCEPT ![w] = "backoff"]
    BY <1>5 DEF ProbeSucceeds, ProbeFails, LeaveLoop, Continue
  <2> QED BY <1>1, <2>1, TallyKept
<1> QED BY <1>2, <1>3, <1>4, <1>5, ParseTally, VerdictTally, CountDoneTally, CountLiveTally
        DEF Next, Finished, Worker, Run

-----------------------------------------------------------------------------
(* The progress lines.  Their numbers are those the workers were given by  *)
(* done.Add: each is in a line already or still in the hand of one worker, *)
(* and the last addition to live is shown by a line or by one to come.     *)
Shows(w) == pc[w] \in {"countlive", "print"}

Numbered ==
  /\ \A w \in Workers : Shows(w) => number[w] \in 1..done
  /\ \A v, w \in Workers : Shows(v) /\ Shows(w) /\ number[v] = number[w] => v = w
  /\ \A l \in lines : l.n \in 1..done /\ l.live <= live
  /\ \A l \in lines : \A w \in Workers : Shows(w) => number[w] # l.n
  /\ \A k, l \in lines : k.n = l.n => k = l

AllShown ==
  /\ \A n \in 1..done : (\E l \in lines : l.n = n) \/ (\E w \in Workers : Shows(w) /\ number[w] = n)
  /\ live > 0 => (\E l \in lines : l.live = live) \/ (\E w \in Workers : pc[w] = "print")

LinesInv == Numbered /\ AllShown

LEMMA InitLines == Init => LinesInv
BY DEF Init, LinesInv, Numbered, AllShown, Shows

(* Steps that neither count nor print.                                     *)
LEMMA LinesKept ==
  ASSUME LinesInv, UNCHANGED <<done, live, number, lines>>,
         \A w \in Workers : pc'[w] = pc[w] \/ {pc'[w], pc[w]} \cap {"countlive", "print"} = {}
  PROVE  LinesInv'
<1>1. \A w \in Workers : (Shows(w)' <=> Shows(w)) /\ (pc'[w] = "print" <=> pc[w] = "print")
  BY DEF Shows
<1>2. Numbered'
  BY <1>1 DEF LinesInv, Numbered
<1>3. AllShown'
  BY <1>1 DEF LinesInv, AllShown
<1> QED BY <1>2, <1>3 DEF LinesInv

LEMMA CountDoneLines ==
  ASSUME TypeOK, LinesInv, NEW w \in Workers, CountDone(w)
  PROVE  LinesInv'
<1>1. /\ done \in Nat /\ live \in Nat /\ done' = done + 1 /\ live' = live /\ lines' = lines
      /\ number'[w] = done + 1 /\ ~Shows(w) /\ Shows(w)' /\ pc[w] # "print"
      /\ \A v \in Workers : v # w => number'[v] = number[v] /\ pc'[v] = pc[v]
  BY DEF CountDone, TypeOK, Shows
<1>2. \A v \in Workers : v # w => (Shows(v)' <=> Shows(v))
  BY <1>1 DEF Shows
<1>3. \A n \in 1..done' : n \in 1..done \/ n = done + 1
  BY <1>1
<1>4. /\ \A n \in 1..done : n \in 1..done' /\ n # done + 1
      /\ done + 1 \in 1..done'
  BY <1>1
<1>5. Numbered'
  BY <1>1, <1>2, <1>4 DEF LinesInv, Numbered
<1>6. AllShown'
  <2>1. \A n \in 1..done' : (\E l \in lines : l.n = n) \/ (\E v \in Workers : Shows(v)' /\ number'[v] = n)
    BY <1>1, <1>2, <1>3 DEF LinesInv, AllShown
  <2>2. \A v \in Workers : pc[v] = "print" => pc'[v] = "print"
    BY <1>1
  <2>3. live > 0 => (\E l \in lines : l.live = live) \/ (\E v \in Workers : pc'[v] = "print")
    BY <2>2 DEF LinesInv, AllShown
  <2> QED BY <1>1, <2>1, <2>3 DEF AllShown
<1> QED BY <1>5, <1>6 DEF LinesInv

LEMMA CountLiveLines ==
  ASSUME TypeOK, LinesInv, NEW w \in Workers, CountLive(w)
  PROVE  LinesInv'
<1>1. /\ live \in Nat /\ live' = live + 1 /\ UNCHANGED <<done, lines, number>>
      /\ Shows(w) /\ pc'[w] = "print" /\ \A v \in Workers : v # w => pc'[v] = pc[v]
  BY DEF CountLive, TypeOK, Shows
<1>2. \A v \in Workers : Shows(v)' <=> Shows(v)
  BY <1>1 DEF Shows
<1>3. \A l \in lines : l.live <= live => l.live <= live + 1
  BY <1>1 DEF TypeOK
<1>4. Numbered'
  BY <1>1, <1>2, <1>3 DEF LinesInv, Numbered
<1>5. AllShown'
  BY <1>1, <1>2 DEF LinesInv, AllShown
<1> QED BY <1>4, <1>5 DEF LinesInv

LEMMA ShowLineLines ==
  ASSUME TypeOK, LinesInv, NEW w \in Workers, ShowLine(w)
  PROVE  LinesInv'
<1> DEFINE line == [n |-> number[w], live |-> live]
<1>1. /\ lines' = lines \cup {line} /\ UNCHANGED <<done, live>> /\ live \in Nat
      /\ Shows(w) /\ ~Shows(w)'
      /\ \A v \in Workers : v # w => number'[v] = number[v] /\ pc'[v] = pc[v]
  BY DEF ShowLine, TypeOK, Shows
<1>2. line.n = number[w] /\ line.live = live
  OBVIOUS
<1> HIDE DEF line
<1>3. \A v \in Workers : Shows(v)' <=> v # w /\ Shows(v)
  BY <1>1 DEF Shows
<1>4. Numbered'
  BY <1>1, <1>2, <1>3 DEF LinesInv, Numbered
<1>5. AllShown'
  <2>1. ASSUME NEW n \in 1..done
        PROVE  (\E l \in lines' : l.n = n) \/ (\E v \in Workers : Shows(v)' /\ number'[v] = n)
    BY <1>1, <1>2, <1>3 DEF LinesInv, AllShown
  <2>2. \E l \in lines' : l.live = live
    BY <1>1, <1>2
  <2> QED BY <1>1, <2>1, <2>2 DEF AllShown
<1> QED BY <1>4, <1>5 DEF LinesInv

LEMMA StepLines == TypeOK /\ LinesInv /\ [Next]_vars => LinesInv'
<1> SUFFICES ASSUME TypeOK, LinesInv, [Next]_vars PROVE LinesInv'
  OBVIOUS
<1>1. pc \in [Workers -> PCs]
  BY DEF TypeOK
<1>2. ASSUME NEW w \in Workers, Exit(w) \/ Dispatch(w) \/ Parse(w) \/ Verdict(w) PROVE LinesInv'
  BY <1>1, <1>2, LinesKept DEF Exit, Dispatch, Parse, Verdict
<1>3. CASE StopSending \/ AllSent \/ Return \/ Cancel \/ UNCHANGED vars
  BY <1>3, LinesKept DEF StopSending, AllSent, Return, Cancel, vars
<1>4. ASSUME NEW w \in Workers, Poll(w) \/ BackoffEnds(w) \/ BackoffCancelled(w) PROVE LinesInv'
  BY <1>1, <1>4, LinesKept DEF Poll, BackoffEnds, BackoffCancelled
<1>5. ASSUME NEW w \in Workers, ProbeSucceeds(w) \/ ProbeFails(w) PROVE LinesInv'
  <2>1. /\ pc[w] = "probe" /\ UNCHANGED <<done, live, number, lines>>
        /\ pc' = [pc EXCEPT ![w] = "verdict"] \/ pc' = [pc EXCEPT ![w] = "backoff"]
    BY <1>5 DEF ProbeSucceeds, ProbeFails, LeaveLoop, Continue
  <2> QED BY <1>1, <2>1, LinesKept
<1> QED BY <1>2, <1>3, <1>4, <1>5, CountDoneLines, CountLiveLines, ShowLineLines
        DEF Next, Finished, Worker, Run

(* However the workers interleave their additions, loads and lines, live   *)
(* never passes done, the lines are numbered without a gap or a repetition *)
(* and never ahead of what is decided, and when Run has returned counters  *)
(* and lines agree with the results.                                       *)
THEOREM CountersAreRight == Spec => []CountersAgree
<1>1. IInv /\ Tally /\ LinesInv => CountersAgree
  <2> SUFFICES ASSUME IInv, Tally, LinesInv PROVE CountersAgree
    OBVIOUS
  <2>1. /\ Cardinality(Counting) \in Nat /\ Cardinality(Counted) \in Nat
        /\ Cardinality(CountingLive) \in Nat /\ Cardinality(HasResult) \in Nat
        /\ Cardinality(IsLive) \in Nat
    BY Finite, TallyParts, OneMoreOrLess
  <2>2. /\ done \in Nat /\ live \in Nat
        /\ lines \in SUBSET [n : Nat, live : Nat]
    BY DEF IInv, TypeOK
  <2>3. live <= done /\ live <= Cardinality(IsLive)
    BY <2>1, <2>2 DEF Tally
  <2>4. \A k, l \in lines : k.n = l.n => k = l
    BY DEF LinesInv, Numbered
  <2>5. \A l \in lines : l.n \in 1..done /\ l.live \in Nat /\ l.live <= live
    BY <2>2 DEF LinesInv, Numbered
  <2>6. \A l \in lines : l.live <= Cardinality(IsLive)
    BY <2>1, <2>2, <2>3, <2>5
  <2>7. ASSUME dispatcher = "returned"
        PROVE  /\ done = Cardinality(HasResult) /\ live = Cardinality(IsLive)
               /\ {l.n : l \in lines} = 1..done
               /\ done > 0 => \E l \in lines : l.live = live
    <3>1. \A w \in Workers : pc[w] = "exited"
      BY <2>7 DEF IInv, Stops
    <3>2. Counting = {} /\ CountingLive = {} /\ Counted = {}
      BY <3>1 DEF Counting, CountingLive, Counted
    <3>3. Cardinality({}) = 0
      BY FS_EmptySet
    <3>4. done = Cardinality(HasResult) /\ live = Cardinality(IsLive)
      BY <2>1, <2>2, <3>2, <3>3 DEF Tally
    <3>5. \A n \in 1..done : \E l \in lines : l.n = n
      BY <3>1 DEF LinesInv, AllShown, Shows
    <3>6. {l.n : l \in lines} = 1..done
      BY <2>5, <3>5
    <3>7. ASSUME done > 0 PROVE \E l \in lines : l.live = live
      <4>1. CASE live > 0
        BY <3>1, <4>1 DEF LinesInv, AllShown
      <4>2. CASE live = 0
        <5>1. 1 \in 1..done
          BY <2>2, <3>7
        <5>2. PICK l \in lines : l.n = 1
          BY <3>5, <5>1
        <5>3. l.live = 0
          BY <2>5, <4>2
        <5> QED BY <4>2, <5>3
      <4> QED BY <2>2, <4>1, <4>2
    <3> QED BY <3>4, <3>6, <3>7
  <2> QED BY <2>3, <2>4, <2>6, <2>7 DEF CountersAgree, HasResult, IsLive
<1>2. IInv => TypeOK
  BY DEF IInv
<1>3. Spec => [](IInv /\ Tally /\ LinesInv)
  BY <1>2, InitTally, StepTally, InitLines, StepLines, Invariance, PTL DEF Spec
<1> QED BY <1>1, <1>3, PTL
=============================================================================
