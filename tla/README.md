# mtproto-checker in TLA+

`mtproto-checker` takes links to Telegram proxies (MTProto, FakeTLS, SOCKS5, WEB
proxies), probes each of them over the network and reports which are alive, how
fast they are and what they do to the traffic. This directory models it in TLA+,
checks the models with TLC on small instances and proves the most important
properties with TLAPS for every value of the constants. Paths below are relative
to the repository root as `src/`.

`PROJECT.json` lists the components, the runs with their properties, a mutant
for every property (a plausible bug, written beside the definition it would
replace, that the property must detect), the source lines of every definition,
the hazards and the theorems.

## 1. Inventory

| part | source | state it keeps | operations | what is hard about it |
|---|---|---|---|---|
| Batch runner | `internal/checker` (`Run`, `check`) | the shared `results` slice, the `jobs` channel, per-worker locals, two atomic progress counters | dispatch, parse, attempt, back off, judge, count | a pool of goroutines without locks, cancellation at any point, retries that stop for four reasons |
| Probe | `internal/mtproto/probe.go`, `webproxy.go`, `socks5.go` | nothing across probes; a deadline on the connection | dial, candidate loop over DCs and transports, quick and full handshake | which failures end the search, which of them turn a live proxy dead, how long all of it may take |
| Transports | `obfuscate.go`, `transport.go`, `faketls.go`, `socks5.go` | two CTR keystreams, record buffer, tag not yet sent | negotiate, encode, decode, read, write | partial reads and keystream position, length boundaries, padding nobody announces |
| Key exchange | `auth.go`, `rsa.go`, `factorize.go`, `respq.go`, `ige.go` | nonces, the stream's deadline, the cache of checked primes | three round trips | agreement with the right server, replayed or substituted answers, the cache shared by all workers |
| Session | `session.go`, `api.go` | salt, session id, sequence number, last message id | ping, invoke, await, dispatch, hold | answers that are late, duplicated, out of order, wrapped in containers; salt changes |
| Audit | `audit.go` | results of goroutines | masking, wrong secret, connection limit | concurrent connections, earlier ones the proxy still serves, a verdict drawn from a failure |
| Web carrier | `internal/webproxy` | uplink sequence, downlink cursor, window debt, read buffer, eof, closed | dial, write, read, pump, close, delete | retries of uncommitted batches, lost answers, credit, release of relay sessions |
| Geo cache | `internal/geo` | a mutex-protected map | lookup | look up outside the lock |
| Input and filters | `internal/input`, `internal/proxy`, `internal/filter` | none | collect, deduplicate, exclude, select | which links count as the same |
| Report and program | `internal/report`, `cmd/mtproto-checker` | none; files written | sort, summarise, save, exit code | partial failure of the saves |

How they interact: `main` collects the links, filters them and calls `Run`.
`Run` hands them over an unbuffered channel to its workers. A worker calls the
probe for every attempt, then the geo cache and the audit; it writes its result
into its own slot and calls back into `main` to count it. The probe composes a
transport, a key exchange and a session over a TCP connection or a web carrier,
all in the worker's goroutine; the carrier speaks HTTPS to a relay. What the
workers share is the results slice, the progress counters, the geo cache and
the cache of checked primes. `main` then sorts, prints and saves the slice.

What makes each part correct:

- *Batch runner*: one result per input, each written once, each verdict from the
  probes of its own input; `Run` ends on every path and leaves no goroutine.
- *Probe*: bounded in time whatever the peer does; a verdict with its cause; no
  socket left.
- *Transports*: packets whole, once and in order as long as no read gave up inside
  one; both ends at the same byte of stream, record and keystream.
- *Key exchange*: a key only if the server made the same one in the same
  exchange; only sound groups.
- *Session*: an answer only to one's own question; losses counted once; failures
  of optional stages do not change the verdict.
- *Web carrier*: an in-order byte stream over exchanges that may be lost or
  repeated, no credit lost, the relay session released.
- *Geo cache, audit*: no answer for another host; a count below what the proxy
  serves only for a cause outside the check.
- *Program*: no proxy lost or checked twice; what is shown, saved and returned
  as exit code agrees; a saved list reads back as the proxies it was made from.

## 2. The modules

| module | lines up with | what it is |
|---|---|---|
| `BatchCheck` | what `Run` promises | abstract: every input is decided once, then the batch returns |
| `CheckerRun` | `checker.go`: `Run`, `check`, `main`'s counters | the dispatcher, the workers, the attempts of `check`, one action per step between two points where another goroutine can interfere |
| `Backoff` | `checker.go`: `sleepBackoff` | its arithmetic as an operator on wrapping integers |
| `Probe` | `probe.go`, `socks5.go`, `webproxy.go` | the candidate loop against a clock |
| `KeyExchange` | `auth.go`, `respq.go` | several exchanges, their cache, an external server and proxy |
| `Session` | `session.go`, `api.go`, hold in `audit.go` | one connection after the key exchange, external server |
| `PacketChannel` | what `stream.recvRaw` promises | abstract: whole packets, once and in order, until a read tears the channel |
| `Framing` | `transport.go` | the lengths on the wire of the three transports, as operators |
| `Tunnel` | `socks5.go`, `faketls.go`, `obfuscate.go`, `transport.go` | one connection from the greeting or the hello to the packets, read byte by byte |
| `ClientHello` | `faketls.go`: `buildClientHello` | the hello by its lengths, as operators |
| `Factor` | `factorize.go` | the factorization of pq on words of any size, as operators |
| `ByteStream` | what a carrier promises | abstract: two in-order streams |
| `WebCarrier` | `webproxy/carrier.go`, `https.go`, `websocket.go` | carrier with both of its transports, external relay |
| `Audit` | `audit.go`, `runAudit` | the three checks of a live proxy |
| `GeoCache` | `geo/geo.go` | `Client.Lookup` by concurrent workers |
| `ProxyLink` | `proxy/target.go`, `input.go` | what a link means, its canonical form, extraction, duplicates, as operators |
| `Report` | `report.go`, `checker.go`: `rate` | score, grade, best proxy and groups, as operators |
| `Program` | `main.go`, `input.go`, `filter.go`, `report.go` | from the sources to the exit code; extends `ProxyLink` |
| `MC*` | | the values of the constants for TLC, and the assumptions about the operators |
| `*_proofs` | | the theorems and their proofs; `AfterProbe_proofs` is about what follows a successful probe, `Audit` and `GeoCache` |

How state and actions correspond to the code:

- **CheckerRun.** `next` is the index of the dispatch loop, `pc[w]` where a
  worker is, `job[w]` the index it received, `cur[w]` the locals of `check`
  (`result`, `lastErr`), `results` the slice. `Dispatch` is the rendezvous on the
  unbuffered channel, `StopSending` the `ctx.Done()` branch of its `select`;
  `Parse`, `Poll`, `ProbeSucceeds`, `ProbeFails`, `Verdict` follow the body of
  the worker and of `check`; `CountDone`, `CountLive` and `ShowLine` are `OnResult`:
  the two atomic adds, then the load and the progress line, with the sum of the
  first of them kept in `number`. `lines`, `log` and `late` are history: which
  progress lines were printed, what the probes of an input came to, and which inputs
  were handed out after the cancellation.
- **Probe.** `now` is the time since `Probe` was called, `dl` the deadline set on
  the connection. An operation takes any time up to the limit the code gives it
  (`SetDeadline`, `stream.step`, the dialer, the context) and then passes or
  fails; a step replaces the deadline, as `stream.step` does. Computing takes no
  time. `Listen` is all of a plain TCP probe: one read with a grace of 500 ms, in
  which silence is a success. `open` counts the sockets the probe closes itself;
  `idle` are the WEB candidates whose HTTP client, made anew for each, keeps a
  connection open: a request leaves it there, only the peer or `IdleConnTimeout`
  ends it (`KeepAliveEnds`).
- **Tunnel.** A unit on the wire is a byte of a head or of a record header, or a
  word of a body; a data unit carries its position `k` in the stream, which is the
  position of the keystream that decrypts it. `Take` is one byte of an
  `io.ReadFull` and, with the last one, what `obfConn` and `decode` do with the
  piece; `ReadRecord` the same of `tlsConn.Read`; `TimeOut` the deadline passing
  between two of them. Bytes that do not decrypt may say any length. The set-up
  reads each answer in one step, since whatever goes wrong there ends the attempt.
  `Tunnel` is what `Session` stands on: a line of packets that is "torn" once a
  read gave up inside one is `PacketChannel`, and `ImplementsChannel` shows that
  the code below provides it.
- **KeyExchange.** Cryptography is symbolic: a value under the temporary key
  carries the pair of nonces the key is derived from, the shared key is the pair
  of exponents. `requests` and `answers` are the messages ever sent; a faulty
  proxy may deliver any of them to anybody, any number of times, in any order.
- **Session.** Message ids are positions in `log`. `Send`, `ReceivePong`,
  `ReceiveResult`, `ReceiveFails` and `TimeOut` are the client (`ping`, `invoke`,
  `dispatch`, the hold); `Serve`, `ServeTwo`, `Push`, `Rotate` and `Close` the
  server. A time-out inside a packet leaves the line "torn".
- **WebCarrier.** A unit stands for the payload of one DATA frame. `ex` is the
  HTTP exchange the caller waits for together with what follows it; a request
  given up on stays on `wire` and may reach the relay later. `relay` is the
  other end, modelled from what the client relies on. Over the WebSocket `wire`
  holds fragments and control frames in order, and `receive` takes them one by
  one, the deadline passing between any two.
- **Audit.** One goroutine per connection; the proxy serves `Limit` clients and
  may notice late that one has gone. `lingering` are the connections of the probe,
  of the masking check and of the decoy that it still serves though they are closed,
  `held` how many of them there were when the limit check began.
- **GeoCache.** The critical sections under the mutex are one step each, the
  lookup lies between them.
- **Program.** One action per stage of `main.run`; `Run` is represented by what
  `BatchCheck` promises. A link is a record of the parts of its URL; `Parse` maps
  it to a target and `Canonical` a target back to a link, as the code does.
  What is done to a text as such (lower case, the decoding of a secret, the dots
  `Extract` trims) is a constant operator, given by cases in `MCProgram`. The
  append loops over a list (`Dedup`, `Spec.Links`, `Spec.Results`, `report.Filter`)
  keep the elements at some positions, `At`, and the stable sort is the same
  operator, `Arrange`, with another order of the positions: what is proved of
  `Arrange` is proved of all of them.

## 3. The runs

Every run ends within five minutes with two workers of TLC.

| run | module, configuration | what it shows |
|---|---|---|
| `pool` | `MCCheckerRun`, `CheckerRun.cfg` | `DisjointSlots`, `CompleteReturn`, `VerdictEarned`, `NoWastedProbe`, `CountersAgree`, and that the pool implements `BatchCheck`, its fairness included; on the way `DelayIsBounded` about the back-off |
| `carrier` | `MCWebCarrier`, `WebCarrier.cfg` | `CreditConserved`, `UplinkInOrder`, `NoTruncation`, `CloseReleases`, `CallsEnd`, and that the carrier implements `ByteStream`, over HTTPS and over a WebSocket |
| `tunnel` | `MCTunnel`, `Tunnel.cfg` | `InStep`, `BlameIsRight`, `TagOnce`, `PacketsArrive`, and that the tunnel implements `PacketChannel` |
| `session` | `Session.cfg` | `OwnAnswers`, `ReportHonest`, `VerdictEarned`, `SecondCopyIsNewer`, `HoldLossExplained`, `SessionEnds` |
| `probe_time` | `MCProbe`, `Probe.cfg` | `EndsInTime`, `VerdictHasCause`, `SocketsAreClosed`, `ProbeEnds` |
| `keyex` | `MCKeyExchange`, `KeyExchange.cfg` | `Agreement`, `AnswerIsMine`, `GroupsAreSound` |
| `program` | `MCProgram`, `Program.cfg` | `OncePerProxy`, `ShownIsRight`, `ExitHonest`, `FailureStopsSaves`, `SavedReadsBack` |
| `audit` | `Audit.cfg` | `ShortfallHasCause` |
| `geo` | `GeoCache.cfg` | `AskedOnce`, `OwnHost` |
| `nearest_kills` | `SessionNearest.cfg` | `LiveStaysLive` is violated (section 4) |
| `budget_exceeded` | `MCProbe`, `ProbeBudget.cfg` | `StaysInBudget` is violated |
| `dedup_merges` | `MCProgram`, `ProgramDedup.cfg` | `DifferentProxiesChecked` is violated |

`NoTruncation` says that at the end of the stream everything the relay ever sent has
been read or is about to be, whichever frame ended it, and `CreditConserved` that
no credit is lost as long as no send failed; both hold over both transports, the
first up to a receive that gave up inside a message.

`pool` and `probe_time` also check the type invariant their proofs start from.
The longest run is `carrier`, about three minutes, then `keyex` with two.

Pure algorithms are checked as assumptions of the MC modules, which TLC evaluates
before the run:

| assumption | in | what it says |
|---|---|---|
| `DelayIsBounded` | `MCCheckerRun` | a back-off is positive, within the cap, and not shorter than the one before, although the shift wraps |
| `FramingIsExact`, `RecordsAreCut` | `MCTunnel` | with the real constants, what a transport encodes it decodes to the same length from as many bytes, at every length up to 1100 and around each boundary; data is cut into records without loss |
| `HelloIsExact`, `GreaseVaries` | `MCTunnel` | for a name of any length every length field of the ClientHello counts what follows it, the random is where the digest is put, and the hello is padded to 517 bytes; neighbouring GREASE values differ |
| `ModularArithmetic` | `MCKeyExchange` | `addmod` and `mulmod` are arithmetic modulo n although sums and products do not fit a word |
| `FactorizationSound`, `FactorizationFinds` | `MCKeyExchange` | whatever is drawn, an answer of `factorize` is a factorization in ascending order and a prime has none; most draws factor a product of two primes |
| `RatingIsMonotone` | `MCProgram` | a proxy that is no worse in any measure has no worse score or grade |
| `BestIsBest`, `GroupsCount` | `MCProgram` | the best proxy is live and no live one beats it; every labelled result is in one group, and no group the limit hides has more live proxies than one it shows |

### Bounds, and why they are enough

- `pool`: three inputs for two workers, so that one worker takes a second input
  and both compete for it; the second input does not parse; two successes of
  three attempts are needed, so every reason to leave the loop occurs, also after
  a success; one error of the dial and one of a later stage. More workers or
  inputs repeat these situations, and the theorems hold for any number.
- `carrier`: over HTTPS two writes, three frames down, a window of two with a
  grant of two, so that credit is used up and granted again; one exchange lost,
  delayed or answered in vain and two refusals against two tries, so that a
  refused batch is repeated and given up. Over the WebSocket two frames in one
  message, so that it is cut into fragments, and one ping to come in between.
- `tunnel`: every kind of connection with a transport the code uses on it; two
  packets down, of a length with the short and with the long abridged head, with
  and without padding, cut into records of three units so that records and
  packets never end together; one empty, ChangeCipherSpec or alert record
  anywhere. Two packets are enough for the second to be read out of step after
  the first was torn; digits in base 4 and a limit of eight bytes stand for the
  real ones, which `FramingIsExact` covers; `HeadsRoundTrip` proves the same for any
  base and length.
- `session`: two pings (the second may fail without killing the proxy), one
  fatal and one optional call, one ping of the hold. The code reads up to four
  packets for a ping and sixteen for a call; the model two, so that the budget is
  exhausted with two unasked packets. Two faults suffice for a salt changed twice
  and for a late rejection together with another one.
- `probe_time`: a time-out of two units distinguishes "at the deadline", "before"
  and "at once"; three candidates are more than the window has time for.
- `keyex`: two exchanges and a quick check, two nonces and two exponents at the
  server: enough for an answer of another exchange, and for a repeated request
  that makes the server draw a second exponent. The three groups are a good one,
  one whose modulus only the primality tests refuse, and one that is bad although
  its modulus may be cached. Exchanges, nonces and exponents are interchangeable
  and symmetry is used; the run checks no liveness.
- `program`: eight lists of sources with the links that matter (spellings of one
  proxy, hosts in two cases, ports, accounts, secrets that differ in case, WEB
  proxies on the standard and another port, two of which are one after a save, bare
  addresses, an escaped link, a
  broken one, comments, prose), combinations of the options, three lists of saves,
  one with two writes to one file, each save failing or not.
- `audit`: four connections against a limit of three, one broken otherwise, up to
  three earlier ones still served (two of the probe and those of the masking check
  and of two decoy candidates): too few are counted with and without a break.
- `geo`: three workers, two hosts, five lookups.
- `Factor`: words of six bits, batches of four differences and a budget of forty
  steps stand for 64, 128 and 2^20: batches are cut short, products vanish and are
  walked again, and the budget runs out; all odd numbers and all draws.
- `DelayIsBounded`: 12 bits with a cap of 20 stand for 64 bits with a cap of 2 s;
  all bases of 12 bits and fourteen attempts, which is past the last shift tried.

`CHECK_DEADLOCK FALSE` appears where the program ends without a stuttering step
of its own: `WebCarrier` (the carrier's owner may stop using it) and `Program`.

### Fairness

- `CheckerRun`: weak fairness of the dispatcher and of each worker: the Go
  scheduler runs every goroutine that can run, and a probe ends because
  it is bounded in time (`EndsInTime`). The cancellation is not fair.
- `WebCarrier`: of dialling, of the client's next step, of the relay handling a
  request, and of the deadline passing. Calls of the owner are not fair.
- `Tunnel`: weak fairness of calling `recvRaw` again (`ping` and `invoke` do
  until their budget is used up), of the far side flushing what it has sent, and
  strong fairness of reading a byte: every call sets its deadline ahead, so a
  byte that stays there cannot be missed by all of them.
- `Session`, `Probe`: of the client, whose every wait has a deadline. The server
  need not do anything.
- The other modules claim safety only.

## 4. Where the code and its documentation part

Three statements of the repository are checked and found violated:

- `nearest_kills`: a comment (`probe.go:487-488`) calls everything after the
  pings optional, but a failing `help.getNearestDc` turns the proxy dead.
- `budget_exceeded`: "TotalBudget bounds one attempt end to end"
  (`probe.go:392`), but each step sets a deadline of its own; `EndsInTime` gives
  the bound that does hold.
- `dedup_merges`: "deduplication of identical proxies" (`README.md:11`) also
  drops proxies that differ in the SOCKS5 password or in the case of a base64
  secret.

Fourteen more statements are in the modules without a run of their own. Each is an
invariant or an action property TLC refutes when it is added to the configuration named:

| definition | configuration | what happens |
|---|---|---|
| `InvalidMeansUnparsable` | `CheckerRun.cfg` | after an interrupt, links never handed out have the zero Result and are counted as INVALID (`checker.go:391`, against `README.md:150`) |
| `LineAddsUp` | `CheckerRun.cfg` | a progress line shows more live proxies than finished ones, "1/3 (2 live)": `n` is from before the load of `live` (`main.go:235-239`) |
| `CompleteLineIsLast` | `CheckerRun.cfg` | the line that says 3/3 is written over by one with a smaller number (`main.go:239`) |
| `NothingLeftOpen` | `Probe.cfg` | a WEB probe leaves the keep-alive connections of its HTTP clients behind, one for each candidate: neither `Carrier.Close` nor a failed `Dial` closes them (`carrier.go:155-169`, `carrier.go:391-402`) |
| `NoSessionLeft` | `WebCarrier.cfg` | a `Dial` that fails after the session was created leaves it at the relay (`carrier.go:140`) |
| `NothingSkipped` | `WebCarrier.cfg` | after a receive that gave up inside a message the next one goes on with the rest as if it were a message: bytes are skipped (`websocket.go:124`, against `carrier.go:69-70`) |
| `KeptMeansBoth` | `Session.cfg` with `"config"` in place of `"speed"` | the late rejection of an abandoned ping uses up a query's retry: "server kept rejecting the salt" although its second copy never was (`api.go:188`) |
| `HoldNotMistaken` | `Session.cfg` | the late pong of a ping the series gave up ends the hold, although the server has answered the hold's own ping (`session.go:183-184`) |
| `OnlyListedSkipped` | `Program.cfg` | excluding one link also skips the other links of its host (`filter.go:107`) |
| `DeadFileHoldsDead` | `Program.cfg` | the file of `--save-dead` also holds invalid links and zero Results (`main.go:192`) |
| `NothingLostInSave` | `Program.cfg` | a saved link drops the port of a WEB proxy and the secret of a SOCKS5 link, and a dot at the end of a password is trimmed when it is read again (`target.go:59`, against the help of `--save-links`) |
| `NeverTooMany` | `Audit.cfg` | the limit check counts more clients than the proxy serves at a time: a connection is closed as soon as its own handshake is done (`audit.go:180`, against `audit.go:167-168`) |
| `NeverTooFew` | `Audit.cfg` | it also counts fewer, with no connection failing: the proxy still serves those of the probe and of the earlier checks, closed just before (`checker.go:196`, `audit.go:65`) |
| `RejectsIsEarned` | `Audit.cfg` | a proxy "rejects a wrong secret" that never got one (`audit.go:130`) |

## 5. What is proved

All theorems hold for every value of the constants that satisfies the named
assumptions beside them (numbers are numbers, `MinSuccesses <= Attempts`, `None`
is none of the values, and the like); TLC evaluates the assumptions in the runs.

- **`CheckerRun_proofs`**: `TypeCorrect`, `SlotsAreDisjoint`,
  `ReturnIsComplete`, `ResultsAreFinal`, `ImplementsBatchSafety`. The inductive
  invariant adds to types and slots: an input handed out without a result is
  still held by a worker (`Held`; without it completeness on return does not
  follow from the workers having ended), the dispatcher stops only when all is
  sent or the run is cancelled and workers leave only then (`Stops`), and how
  attempts and successes relate at each point of the loop (`Loop`; without it the
  counters could pass their bounds). The refinement adds that a stored verdict
  "invalid" belongs to an input that does not parse (`Parsed`), and maps each step
  to a step of `BatchCheck` or to a stutter.
  On top of it: `VerdictsAreEarned`, `NoProbeIsWasted`,
  `CountersAreRight`. `History` ties the locals of
  `check()` to the log of the input the worker holds, at each point of the loop
  (`Own`), and a stored result to the log of its input (`Past`); it needs the
  disjoint slots, or another worker's probe could enter the log. `Tally` says what
  the counters have still to count at any moment: the results stored and not yet
  added to `done`, the live ones added to `done` and not yet to `live`. `LinesInv`
  says the same of the lines: no number is with two workers or lines (`Numbered`),
  each one given out is with a worker or in a line, and the last value of `live` is
  in a line or a worker is about to print it (`AllShown`). The workers
  are finitely many (`WorkersAssumption`: `Options.Concurrency` is an `int`).
- **`Probe_proofs`**: `TypeCorrect`, `ProbeIsBounded`, `PlainIsInBudget`,
  `VerdictIsCaused`, `SocketsStayClosed`. The bound on the whole is inductive
  only with a bound on what is left at every point: `Rest(s)` is the time the
  steps from `s` on may still take, and `Clock` says that the time used plus the
  rest stays within the total; a plain TCP probe has its one grace as rest.
  What the HTTP clients keep concerns nothing else of the probe and has an invariant
  of its own (`Kept`).
  `PlainIsInBudget` is the case in which the total is
  `TotalBudget`.
- **`KeyExchange_proofs`**: `KeysAgree`, `AnswersAreOwn`, `GroupsStaySound`.
  The invariant adds what is true of every message ever sent: a request names the
  exchange that asks (`RequestsOK`), a resPQ belongs to a session opened for its
  nonce and the hash of a dh_gen_ok to a key the server keeps (`AnswersOK`).
  Because it is about the messages and not about who receives them, no
  misdelivery can break it.
- **`Session_proofs`**: `CallsGetTheirAnswers`, `ReportIsHonest`,
  `VerdictIsEarned`, `SecondCopyCarriesNewerSalt`, `HoldLossIsExplained`. The
  invariant says that what an
  answer under way claims is true of the message it names (`Messages`: without it
  a held or late answer could be anything), that the message waited for is the last
  one and nothing was heard of it (`Waits`, which is what makes an answer to an
  older copy recognisable), where `fullHandshake` is and what it must have by then
  (`Flow`), and that the report counts what the log credits (`Tally`, `Held`). The
  theorem on the salts is an action property: a second copy is sent only after a
  refusal, and a refusal of the first copy itself told a newer salt. So is the one on
  holds, which also needs that every pong under way is for another ping, and for one
  not credited (`Late`): then a pong a hold trips over can only be for a ping of the
  series that was given up.
- **`WebCarrier_proofs`**: `CreditIsConserved`, `UplinkIsInOrder`,
  `CloseEndsSession`, `EndLosesNothing`, `CarrierIsAStream`, on top of two
  invariants. `Inv` accounts by numbers: two ghost functions give, for every n, the
  credit and the units in the batches 1..n, whatever became of the requests that
  carried them (`Books`), so that what was consumed is what the relay got, what is
  on its way or in hand, and the debt (`Balance`); `Order` says that the batch in
  hand has the last number and that the relay is behind by more only after a send
  failed; `Release` follows the DELETE. `Content` says which unit is where: which
  one each batch up brings (`Uplink`), and, down, how what the relay sent is cut
  into the pieces on the socket and in the message being collected, and how far the
  client has filed it away (`Downlink`: `Track` and `Filed`). Numbers alone do
  not show that nothing is skipped or read twice; the contents need the numbers,
  since a batch is taken as the next one by its number. `CarrierIsAStream` is the
  refinement of `ByteStream`, step by step: each action of the carrier is an action
  of the stream or a stutter, and once a receive gave up inside a message one of those
  the stream allows when it is torn.
- **`AfterProbe_proofs`**: of `Audit`, `ShortfallIsCaused`. The earlier connections
  still served become only fewer while the limit is checked (`Left`); a place
  the proxy keeps for a connection that got no answer was taken by one that broke
  (`WastedPlaces`); and either only broken connections were lost, or one was turned
  away, and then the places that were taken belong to good ones but for the broken
  and the earlier (`Fates`). Of `GeoCache`, `AsksAreBounded` and `AnswersMatchHosts`: a host somebody
  asked for is in the cache or about to be stored, and the cache never forgets
  (`WhereAsked`).
- **`Tunnel_proofs`**: `TagGoesOutOnce`, `BlameIsOnTheRightSide`,
  `BothEndsInStep`, `TunnelImplementsChannel`, `HeadsRoundTrip`,
  `RecordsHoldAll`, on top of three invariants. `Negotiated` says, step by step
  of the set-up, what has been written and what the far side has answered to it
  (`Script`, `Answered`); without it a byte of a SOCKS5 reply could still lie in
  front of the stream when it begins. `Matched` holds until a read gives up inside
  a packet: all that is on the way, from the piece being read over the record
  buffer and the wire to what the far side has not flushed, is one run of the
  stream with no gap, and begins where the client is (`Numbered`), a record never
  ends before its header said (`Carried`), and a piece is never longer than what the
  transport waits for (`Placed`). `InStep` names the same positions but is not
  inductive: it does not say which value a unit of a head has, nor how the records on
  the wire are cut. `Orderly` holds whether or not a read gave up: there
  the bytes may be taken for what they are not, so it keeps only that positions
  rise and that all that comes lies behind all that was handed out (`Ahead`). The
  refinement follows: by `Matched` a packet returned is the next one, by
  `Orderly` it is, on a torn channel, a later one or nothing that was sent.
  `HeadsRoundTrip` and `RecordsHoldAll` are about the operators of `Framing`, at
  every length: a head takes as many bytes to read as to write and says the length
  it was written for, and the records of a write hold its bytes.

- **`Program_proofs`**: `EveryProxyOnce`, `ResultsAreRight`, `ExitIsHonest`,
  `FailuresStop`, `SavedListsReadBack`, for all sources, settings and reports, and
  `NoWorseNoLess` about the score. The state of `Program` is mostly lists, so the
  proofs are in two parts.
  *Lists.* Under a strict total order on finitely many positions every number of
  predecessors belongs to exactly one position (`EveryPlace`), hence `Arrange` lists
  each position once, in order (`ArrangeProperties`); that removing duplicates,
  filtering, sorting and selecting repeat and lose nothing follows by composing the
  positions (`Keeps`, `Picks`). `Precedes` is such an order because it falls back on
  the position (`PrecedesIsOrder`), which is what "stable" means.
  *The run.* The invariant says which function of the stages before each list is
  (`Linked`, `Arranges`: without it nothing relates the results shown at the end to
  the lines collected at the beginning) and which saves are in the files (`Filed`):
  of those made so far, the last one with a path is what the file holds, and no
  other file was touched. `ExitHonest` is not inductive: it speaks of the end only,
  and of the last save with a path, which while saving may still be ahead.
  *Reading back.* `FoundParses` follows one proxy through `Canonical`, `Extract` and
  `Parse`: the kind and the host always survive, the rest if `Carries` holds. Keys
  are distinct among the proxies saved, because the links checked were (`SavedOwn`),
  but not among the links written: two links that lost different things may have
  one key, and `Dedup` keeps the first (`ReadBackOf`). An earlier form of
  `SavedReadsBack`, every proxy whose link carries it is read back, was refuted in
  the attempt: a WEB proxy on port 8443 saved before one of the same host on 443,
  their base64 secrets differing in case, hides the second one. The property now
  excepts the proxies another of their kind and host may be taken for, and the
  input that shows it is in `MCProgram`.
  The proofs assume what the words of the inputs may be (`InputsAssumption`), that
  a valid secret has no punctuation `Extract` would trim (`SecretsAssumption`:
  `DecodeSecret` takes hexadecimal and base64 only), that Telegram's own words are in
  lower case (`LowerAssumption`), and the types of settings and reports.

Only model-checked: the liveness properties (`PacketsArrive` and the others) and
the liveness part of the refinements, which are outside what the prover does. What
the operators of `Factor`, `ClientHello`, the rest of `Report` (`BestOf`,
`Breakdown`) and the back-off compute is evaluated over the ranges above: `Factor`
is made of recursive operators, which the prover does not support, and `BestOf` is a
fold, which needs an induction over the list; the names `ClientHello` encodes
have at most 255 bytes, so that the evaluation is complete.

What needs an induction (the units of a sequence of frames, `UnitsOf` of
`WebCarrier`, and the position of a packet, `Before` of `Tunnel`) is a recursive
function, not a recursive operator; its lemmas take the least element of the set of
lengths that fail (`LeastNat`, from the well-foundedness of the naturals in the
library), since the library's induction rules themselves take a predicate as
parameter. So do the lemmas on `FlattenSeq` in `Program_proofs` (`JoinRange`: what is
extracted from a file is what is extracted from its lines). `SelectSeq` cannot be
expanded by the prover at all; the modules proofs are about do without it.

## 6. What is not modelled

- RSA, IGE, SHA and the TL encoding: 2048-bit arithmetic is out of TLC's reach.
  In `KeyExchange` they are symbolic; whether `factorize` succeeds is a choice there
  and computed in `Factor`.
- The keystreams and MACs of `Tunnel` are positions and flags: that AES-CTR
  decrypts what it encrypted is taken for granted.
- The syntax of a URL (`net/url`), the pattern that finds links in prose, flags,
  colours, columns, CSV and JSON layout.
- The masking check's verdict is a function of a certificate; in `Audit` it is a
  step without a result.
- The frame head and the masking of the WebSocket; `Frame` encoding of the
  carrier beyond which frames a payload holds.
- Time spent computing.

## 7. State

Every component of section 1 is modelled, some in part (section 6), every safety and action property of the
runs is also a theorem, and the liveness properties are checked by TLC. What could
follow: the masking check with the certificates it compares, and a model of the
TL encoding for the lengths of its strings.
