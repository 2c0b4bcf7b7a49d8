----------------------------- MODULE CheckerRun -----------------------------
(***************************************************************************)
(* The batch checker of internal/checker: Run feeds input indices through  *)
(* an unbuffered channel to a pool of workers; a worker runs check() on    *)
(* each: parse, then probe up to Attempts times with a backoff between     *)
(* attempts, then the verdict.  The context can be cancelled at any time.  *)
(*                                                                         *)
(* A step is the code between two points where another goroutine or the    *)
(* cancellation can be seen.  What a probe does on the wire is the         *)
(* subject of other modules; here it is a choice among its outcomes.       *)
(* The options are the ones Options.Defaults returns.                      *)
(***************************************************************************)
EXTENDS Naturals, Sequences, FiniteSets

CONSTANTS N,             \* number of inputs
          Parsable,      \* the inputs proxy.Parse accepts
          Workers,       \* Options.Concurrency goroutines
          Attempts,      \* Options.Attempts
          MinSuccesses,  \* Options.MinSuccesses, clamped by Defaults
          ProbeErrors    \* errors a probe ends with: [stage, kind] records

Inputs == 1..N

Stages == {"dial", "handshake", "protocol"}

ASSUME RunAssumption ==
  /\ N \in Nat
  /\ Parsable \subseteq Inputs
  /\ Attempts \in Nat /\ Attempts >= 1
  /\ MinSuccesses \in 1..Attempts

ASSUME WorkersAssumption == IsFiniteSet(Workers)

ASSUME ErrorAssumption ==
  \A e \in ProbeErrors : e.stage \in Stages /\ e.kind \notin {"unset", "canceled"}

NoErr == [stage |-> "none", kind |-> "other"]        \* lastErr == nil
CtxErr == [stage |-> "none", kind |-> "canceled"]    \* lastErr == ctx.Err()
Success == [stage |-> "ok", kind |-> "unset"]

(* A probe under a cancelled context may also fail because of that: in the *)
(* dial, or in the session set-up of a web proxy.                          *)
CancelErrors == {[stage |-> s, kind |-> "canceled"] : s \in {"dial", "handshake"}}

VARIABLES next,       \* loop variable of Run: the next input to send
          dispatcher, \* Run itself: "sending", "waiting" (closed jobs), "returned"
          cancelled,  \* ctx.Err() # nil
          pc,         \* where each worker is
          job,        \* the input each worker holds
          cur,        \* the locals of check() in each worker
          results,    \* the slice Run returns
          done, live, \* the atomic counters of newProgress
          number,     \* n in each worker's call of the closure, 0 outside
          lines,      \* history: the progress lines written, [n, live]
          log,        \* history: the outcomes of the probes of each input
          late        \* history: the inputs handed out after the cancellation

vars == <<next, dispatcher, cancelled, pc, job, cur, results, done, live, number, lines, log, late>>

NoResult == [status |-> "unset", attempts |-> 0, successes |-> 0, kind |-> "unset"]
Fresh == [attempt |-> 1, attempts |-> 0, successes |-> 0, lastErr |-> NoErr]

Errors == ProbeErrors \cup CancelErrors \cup {NoErr, CtxErr}
Outcomes == {Success} \cup ProbeErrors \cup CancelErrors

Init == /\ next = 1
        /\ dispatcher = "sending"
        /\ cancelled = FALSE
        /\ pc = [w \in Workers |-> "idle"]
        /\ job = [w \in Workers |-> 0]
        /\ cur = [w \in Workers |-> Fresh]
        /\ results = [i \in Inputs |-> NoResult]
        /\ done = 0
        /\ live = 0
        /\ number = [w \in Workers |-> 0]
        /\ lines = {}
        /\ log = [i \in Inputs |-> <<>>]
        /\ late = {}

-----------------------------------------------------------------------------
(* Run.  Sending on the unbuffered channel is a rendezvous with a worker    *)
(* blocked in its range loop.  A cancelled context does not disable it:     *)
(* select picks either ready case.                                          *)

(* Mutant: the goroutine captures the loop variable after it advanced. *)
DispatchCaptured(w) ==
  /\ dispatcher = "sending" /\ next <= N
  /\ pc[w] = "idle"
  /\ next' = next + 1
  /\ pc' = [pc EXCEPT ![w] = "parse"]
  /\ job' = [job EXCEPT ![w] = next']
  /\ late' = IF cancelled THEN late \cup {next} ELSE late
  /\ UNCHANGED <<dispatcher, cancelled, cur, results, done, live, number, lines, log>>

Dispatch(w) ==
  /\ dispatcher = "sending" /\ next <= N
  /\ pc[w] = "idle"
  /\ next' = next + 1
  /\ pc' = [pc EXCEPT ![w] = "parse"]
  /\ job' = [job EXCEPT ![w] = next]
  /\ late' = IF cancelled THEN late \cup {next} ELSE late
  /\ UNCHANGED <<dispatcher, cancelled, cur, results, done, live, number, lines, log>>

(* Mutant: the cancelled branch returns without wg.Wait(). *)
StopNoWait ==
  /\ dispatcher = "sending" /\ next <= N /\ cancelled
  /\ dispatcher' = "returned"
  /\ UNCHANGED <<next, cancelled, pc, job, cur, results, done, live, number, lines, log, late>>

StopSending ==   \* <-ctx.Done() in the select: close(jobs)
  /\ dispatcher = "sending" /\ next <= N /\ cancelled
  /\ dispatcher' = "waiting"
  /\ UNCHANGED <<next, cancelled, pc, job, cur, results, done, live, number, lines, log, late>>

AllSent ==       \* the loop is over: close(jobs)
  /\ dispatcher = "sending" /\ next > N
  /\ dispatcher' = "waiting"
  /\ UNCHANGED <<next, cancelled, pc, job, cur, results, done, live, number, lines, log, late>>

(* Mutant: wg.Add runs inside the goroutines, so Wait can miss busy ones. *)
ReturnEarly ==
  /\ dispatcher = "waiting"
  /\ \E w \in Workers : pc[w] = "exited"
  /\ dispatcher' = "returned"
  /\ UNCHANGED <<next, cancelled, pc, job, cur, results, done, live, number, lines, log, late>>

Return ==        \* wg.Wait() is over
  /\ dispatcher = "waiting"
  /\ \A w \in Workers : pc[w] = "exited"
  /\ dispatcher' = "returned"
  /\ UNCHANGED <<next, cancelled, pc, job, cur, results, done, live, number, lines, log, late>>

Exit(w) ==       \* range over the closed channel
  /\ dispatcher # "sending"
  /\ pc[w] = "idle"
  /\ pc' = [pc EXCEPT ![w] = "exited"]
  /\ UNCHANGED <<next, dispatcher, cancelled, job, cur, results, done, live, number, lines, log, late>>

Cancel ==        \* the signal handler of main
  /\ ~cancelled
  /\ cancelled' = TRUE
  /\ UNCHANGED <<next, dispatcher, pc, job, cur, results, done, live, number, lines, log, late>>

-----------------------------------------------------------------------------
(* check() *)

(* Mutant: the locals of check() are hoisted out of the worker's loop. *)
ParseKeepsLocals(w) ==
  /\ pc[w] = "parse"
  /\ pc' = [pc EXCEPT ![w] = IF job[w] \in Parsable THEN "poll" ELSE "count"]
  /\ results' = IF job[w] \in Parsable THEN results
                ELSE [results EXCEPT ![job[w]].status = "invalid"]
  /\ UNCHANGED <<next, dispatcher, cancelled, job, cur, done, live, number, lines, log, late>>

Parse(w) ==
  /\ pc[w] = "parse"
  /\ cur' = [cur EXCEPT ![w] = Fresh]
  /\ IF job[w] \in Parsable
       THEN /\ pc' = [pc EXCEPT ![w] = "poll"]
            /\ UNCHANGED results
       ELSE /\ pc' = [pc EXCEPT ![w] = "count"]
            /\ results' = [results EXCEPT ![job[w]].status = "invalid"]
  /\ UNCHANGED <<next, dispatcher, cancelled, job, done, live, number, lines, log, late>>

BackoffEnds(w) ==        \* the timer of sleepBackoff fires
  /\ pc[w] = "backoff"
  /\ pc' = [pc EXCEPT ![w] = "poll"]
  /\ UNCHANGED <<next, dispatcher, cancelled, job, cur, results, done, live, number, lines, log, late>>

BackoffCancelled(w) ==   \* sleepBackoff returns false, lastErr stays
  /\ pc[w] = "backoff" /\ cancelled
  /\ pc' = [pc EXCEPT ![w] = "verdict"]
  /\ UNCHANGED <<next, dispatcher, cancelled, job, cur, results, done, live, number, lines, log, late>>

Poll(w) ==               \* if ctx.Err() != nil
  /\ pc[w] = "poll"
  /\ IF cancelled
       THEN /\ cur' = [cur EXCEPT ![w].lastErr = CtxErr]
            /\ pc' = [pc EXCEPT ![w] = "verdict"]
       ELSE /\ cur' = [cur EXCEPT ![w].attempts = cur[w].attempt]
            /\ pc' = [pc EXCEPT ![w] = "probe"]
  /\ UNCHANGED <<next, dispatcher, cancelled, job, results, done, live, number, lines, log, late>>

(* The end of the loop body: the next attempt, or out of the loop. *)
(* Mutant: the loop bound lets one attempt too many through. *)
ContinueOnceMore(w, c) ==
  IF c.attempt <= Attempts
    THEN /\ cur' = [cur EXCEPT ![w] = [c EXCEPT !.attempt = c.attempt + 1]]
         /\ pc' = [pc EXCEPT ![w] = "backoff"]
    ELSE /\ cur' = [cur EXCEPT ![w] = c]
         /\ pc' = [pc EXCEPT ![w] = "verdict"]

Continue(w, c) ==
  IF c.attempt < Attempts
    THEN /\ cur' = [cur EXCEPT ![w] = [c EXCEPT !.attempt = c.attempt + 1]]
         /\ pc' = [pc EXCEPT ![w] = "backoff"]
    ELSE /\ cur' = [cur EXCEPT ![w] = c]
         /\ pc' = [pc EXCEPT ![w] = "verdict"]

LeaveLoop(w, c) ==
  /\ cur' = [cur EXCEPT ![w] = c]
  /\ pc' = [pc EXCEPT ![w] = "verdict"]

ProbeSucceeds(w) ==
  LET c == [cur[w] EXCEPT !.successes = cur[w].successes + 1] IN
  /\ pc[w] = "probe"
  /\ log' = [log EXCEPT ![job[w]] = Append(@, Success)]
  /\ IF c.successes >= MinSuccesses THEN LeaveLoop(w, c) ELSE Continue(w, c)
  /\ UNCHANGED <<next, dispatcher, cancelled, job, results, done, live, number, lines, late>>

(* Mutant: errors.As misses the wrapped error, so a dial failure is retried. *)
ProbeFailsRetry(w) ==
  /\ pc[w] = "probe"
  /\ \E e \in ProbeErrors \cup (IF cancelled THEN CancelErrors ELSE {}) :
       /\ log' = [log EXCEPT ![job[w]] = Append(@, e)]
       /\ Continue(w, [cur[w] EXCEPT !.lastErr = e])
  /\ UNCHANGED <<next, dispatcher, cancelled, job, results, done, live, number, lines, late>>

ProbeFails(w) ==
  /\ pc[w] = "probe"
  /\ \E e \in ProbeErrors \cup (IF cancelled THEN CancelErrors ELSE {}) :
       LET c == [cur[w] EXCEPT !.lastErr = e] IN
       /\ log' = [log EXCEPT ![job[w]] = Append(@, e)]
       /\ IF e.stage = "dial" THEN LeaveLoop(w, c) ELSE Continue(w, c)
  /\ UNCHANGED <<next, dispatcher, cancelled, job, results, done, live, number, lines, late>>

(* The verdict on the locals of check(); a live one leaves ErrorKind empty. *)
VerdictOf(c) ==
  [status |-> IF c.successes >= MinSuccesses THEN "live" ELSE "dead",
   attempts |-> c.attempts,
   successes |-> c.successes,
   kind |-> IF c.successes >= MinSuccesses THEN "unset" ELSE c.lastErr.kind]

(* The geo lookup and the audit follow the verdict and change none of the   *)
(* fields above; then results[i] is assigned.                               *)
Verdict(w) ==
  /\ pc[w] = "verdict"
  /\ results' = [results EXCEPT ![job[w]] = VerdictOf(cur[w])]
  /\ pc' = [pc EXCEPT ![w] = "count"]
  /\ UNCHANGED <<next, dispatcher, cancelled, job, cur, done, live, number, lines, log, late>>

(* OnResult, called by every worker: the closure of newProgress (a run with *)
(* --quiet, and one of a single input, has none).                           *)
CountDone(w) ==
  /\ pc[w] = "count"
  /\ done' = done + 1
  /\ number' = [number EXCEPT ![w] = done + 1]
  /\ pc' = [pc EXCEPT ![w] = IF results[job[w]].status = "live" THEN "countlive" ELSE "print"]
  /\ UNCHANGED <<next, dispatcher, cancelled, job, cur, results, live, lines, log, late>>

CountLive(w) ==
  /\ pc[w] = "countlive"
  /\ live' = live + 1
  /\ pc' = [pc EXCEPT ![w] = "print"]
  /\ UNCHANGED <<next, dispatcher, cancelled, job, cur, results, done, number, lines, log, late>>

(* Mutant: the line is made from done.Load() in place of the sum Add gave. *)
ShowLine_Reloads(w) ==
  /\ pc[w] = "print"
  /\ lines' = lines \cup {[n |-> done, live |-> live]}
  /\ number' = [number EXCEPT ![w] = 0]
  /\ pc' = [pc EXCEPT ![w] = "idle"]
  /\ UNCHANGED <<next, dispatcher, cancelled, job, cur, results, done, live, log, late>>

(* live.Load() and the line: the n of a while ago, the live of now.  Lines  *)
(* is a set: that a write may come after those of others is left in it.     *)
ShowLine(w) ==
  /\ pc[w] = "print"
  /\ lines' = lines \cup {[n |-> number[w], live |-> live]}
  /\ number' = [number EXCEPT ![w] = 0]
  /\ pc' = [pc EXCEPT ![w] = "idle"]
  /\ UNCHANGED <<next, dispatcher, cancelled, job, cur, results, done, live, log, late>>

Worker(w) == \/ Exit(w) \/ Parse(w) \/ Poll(w)
             \/ BackoffEnds(w) \/ BackoffCancelled(w)
             \/ ProbeSucceeds(w) \/ ProbeFails(w)
             \/ Verdict(w) \/ CountDone(w) \/ CountLive(w) \/ ShowLine(w)

Run == \/ \E w \in Workers : Dispatch(w)
       \/ StopSending \/ AllSent \/ Return

Finished == dispatcher = "returned" /\ UNCHANGED vars

Next == \/ \E w \in Workers : Worker(w)
        \/ Run
        \/ Cancel
        \/ Finished

(* Every wait of a worker is bounded (backoff timers, probe deadlines, the  *)
(* geo client's timeout), so each goroutine keeps moving.  Nobody has to    *)
(* cancel.                                                                  *)
Fairness == WF_vars(Run) /\ \A w \in Workers : WF_vars(Worker(w))

Spec == Init /\ [][Next]_vars
FairSpec == Spec /\ Fairness

-----------------------------------------------------------------------------
(* Type invariant. *)
PCs == {"idle", "parse", "poll", "backoff", "probe", "verdict",
        "count", "countlive", "print", "exited"}

CurType == [attempt : 1..Attempts, attempts : 0..Attempts,
            successes : 0..Attempts, lastErr : Errors]

ResultType == [status : {"unset", "live", "dead", "invalid"},
               attempts : 0..Attempts, successes : 0..Attempts,
               kind : {"unset"} \cup {e.kind : e \in Errors}]

TypeOK == /\ next \in 1..(N + 1)
          /\ dispatcher \in {"sending", "waiting", "returned"}
          /\ cancelled \in BOOLEAN
          /\ pc \in [Workers -> PCs]
          /\ job \in [Workers -> 0..N]
          /\ cur \in [Workers -> CurType]
          /\ results \in [Inputs -> ResultType]
          /\ done \in Nat /\ live \in Nat
          /\ number \in [Workers -> Nat]
          /\ lines \in SUBSET [n : Nat, live : Nat]
          /\ log \in [Inputs -> Seq(Outcomes)]
          /\ late \subseteq Inputs

(* A worker is on its input from the rendezvous until results[i] is set. *)
Checking(w) == pc[w] \in {"parse", "poll", "backoff", "probe", "verdict"}

(* The workers write disjoint slots of the results slice: an input that has *)
(* no result yet is held by at most one worker, one that nobody was given   *)
(* has none, and a result is never written over (checker.go:118-131 has no  *)
(* lock around results).                                                    *)
DisjointSlots ==
  /\ \A w \in Workers : Checking(w) => /\ job[w] \in 1..(next - 1)
                                       /\ results[job[w]].status = "unset"
  /\ \A v, w \in Workers : Checking(v) /\ Checking(w) /\ job[v] = job[w] => v = w
  /\ \A i \in next..N : results[i] = NoResult

(* When Run returns no goroutine is left behind, every input it handed out  *)
(* has its result, and inputs without one exist only after a cancellation.  *)
CompleteReturn ==
  dispatcher = "returned" =>
    /\ \A w \in Workers : pc[w] = "exited"
    /\ \A i \in 1..(next - 1) : results[i].status # "unset"
    /\ ~cancelled => \A i \in Inputs : results[i].status # "unset"

Count(s, Test(_)) == Cardinality({k \in 1..Len(s) : Test(s[k])})
Oks(s) == Count(s, LAMBDA o : o = Success)

(* The verdict is the one the probes of this input earned: live exactly if  *)
(* MinSuccesses of them succeeded, and a dead one that the cancellation did *)
(* not cut short used all its attempts or met a dial failure, with the kind *)
(* of the last failure.  Locals that survived from the worker's previous    *)
(* input would break it.                                                    *)
VerdictEarned ==
  \A i \in Inputs :
    LET r == results[i]  s == log[i] IN
    /\ r.status = "live" <=> Oks(s) >= MinSuccesses /\ ~\E w \in Workers : Checking(w) /\ job[w] = i
    /\ r.status \in {"live", "dead"} => r.successes = Oks(s) /\ r.attempts = Len(s)
    /\ r.status = "dead" /\ ~cancelled =>
         /\ Len(s) = Attempts \/ s[Len(s)].stage = "dial"
         /\ \E k \in 1..Len(s) : /\ s[k] # Success /\ s[k].kind = r.kind
                                 /\ \A m \in (k + 1)..Len(s) : s[m] = Success

(* No connection is spent once the outcome is settled: the probes before    *)
(* the last one neither reached MinSuccesses nor failed in the dial, and    *)
(* an input handed out after the cancellation is never probed.              *)
NoWastedProbe ==
  /\ \A i \in Inputs : \A k \in 1..(Len(log[i]) - 1) :
       /\ log[i][k].stage # "dial"
       /\ Oks(SubSeq(log[i], 1, k)) < MinSuccesses
  /\ \A i \in late : log[i] = <<>> /\ results[i].status # "live"

(* The counters never hold more live proxies than finished checks, and when *)
(* Run has returned they agree with the results.  Of the progress lines: no *)
(* two have the same n, none shows a live proxy that is not decided, and    *)
(* when Run has returned every n was written and the final number of live   *)
(* proxies was in one of the lines.  A line on its own need not add up      *)
(* (LineAddsUp), and the complete one need not be the last                  *)
(* (CompleteLineIsLast).                                                    *)
CountersAgree ==
  /\ live <= done
  /\ \A k, l \in lines : k.n = l.n => k = l
  /\ \A l \in lines : l.live <= Cardinality({i \in Inputs : results[i].status = "live"})
  /\ dispatcher = "returned" =>
       /\ done = Cardinality({i \in Inputs : results[i].status # "unset"})
       /\ live = Cardinality({i \in Inputs : results[i].status = "live"})
       /\ {l.n : l \in lines} = 1..done
       /\ done > 0 => \E l \in lines : l.live = live

(* A result, once stored, is final. *)
ResultsFinal == [][\A i \in Inputs : results[i].status # "unset" => results'[i] = results[i]]_vars

(* Summarize counts a result whose status is neither live nor dead as       *)
(* invalid (checker.go:383-396).                                            *)
CountedInvalid == {i \in Inputs : results[i].status \notin {"live", "dead"}}

(* README.md:150 says INVALID means that the link could not be parsed.  The *)
(* code does not keep this once the run was interrupted.                    *)
InvalidMeansUnparsable ==
  dispatcher = "returned" => CountedInvalid \subseteq Inputs \ Parsable

(* "checking 1/3 (2 live)": n is from before the load of live.             *)
LineAddsUp == \A l \in lines : l.live <= l.n

(* The line that says N of N is written over by one with a smaller n.      *)
CompleteLineIsLast ==
  (\E l \in lines : l.n = N) => \A w \in Workers : pc[w] \notin {"countlive", "print"}

-----------------------------------------------------------------------------
(* The run implements the abstract batch. *)
Batch == INSTANCE BatchCheck WITH
           verdict <- [i \in Inputs |-> results[i].status],
           returned <- (dispatcher = "returned")

ImplementsBatch == Batch!Spec
=============================================================================
