---------------------------- MODULE KeyExchange ----------------------------
(***************************************************************************)
(* createAuthKey and quickCheck: the unencrypted exchanges a probe has     *)
(* with Telegram through the proxy, several of them at once (one per       *)
(* worker), with the one cache of checked primes they share.  The server   *)
(* is external.  A proxy should carry each connection by itself; a faulty  *)
(* one mixes connections up, repeats requests and answers or sends noise,  *)
(* and the code must not take what it did not ask for.                     *)
(*                                                                         *)
(* An exchange draws its nonce, its new nonce and its exponent b afresh,   *)
(* so the exchange itself stands for all three.  A value under the         *)
(* temporary key is a record with the pair the key is derived from (tmp):  *)
(* with another pair decryption yields noise that fails the hash.  The     *)
(* shared key is the pair of exponents.                                    *)
(***************************************************************************)
EXTENDS Naturals, FiniteSets

CONSTANTS Exchanges,   \* the exchanges under way, each on its own connection
          Quick,       \* those that stop at resPQ (DepthQuick)
          Nonces,      \* bound: the server nonces there are
          Exponents,   \* bound: the exponents the server draws
          Groups,      \* the groups the server may offer: [g, prime, ga]
          SafePrimes,  \* the 2048-bit primes that pass both tests
          Long,        \* the moduli of 2048 bits
          Faults,      \* what may go wrong
          None

ASSUME QuickAssumption == Quick \subseteq Exchanges
ASSUME PrimesAssumption == SafePrimes \subseteq Long
ASSUME NoneAssumption == None \notin Exchanges \cup Nonces \cup Exponents
ASSUME KeyAssumption ==
  \A a \in Exponents \cup {None}, x \in Exchanges, s \in Nonces \cup {None} :
    [key |-> <<a, x>>, salt |-> <<x, s>>] # None
ASSUME FaultsAssumption == Faults \subseteq {"mixed", "noise", "refuse", "weak"}

VARIABLES
  pc,          \* the message an exchange waits for, or how it ended
  serverNonce, \* server_nonce, once resPQ arrived
  group,       \* g, dh_prime and the range of g_a, once taken
  gA,          \* the server's exponent behind g_a
  authKey,     \* the authKey returned
  primeCache,  \* the moduli known to be safe primes
  requests,    \* what the exchanges have sent
  answers,     \* what the server has sent
  handled,     \* the requests the server has answered
  sessions,    \* what the server knows of each nonce it gave out
  keys         \* the auth keys the server has made

client == <<pc, serverNonce, group, gA, authKey, primeCache>>
server == <<handled, sessions, keys>>
vars == <<client, requests, answers, server>>

Ended == {"live", "done", "failed"}

-----------------------------------------------------------------------------
(* Messages *)

ReqPQ(x) == [type |-> "req_pq", nonce |-> x]

ReqDH(x, s) == [type |-> "req_DH_params", nonce |-> x, server |-> s,
                inner |-> [nonce |-> x, server |-> s, new |-> x]]

SetDH(x, s) == [type |-> "set_client_DH_params", nonce |-> x, server |-> s,
                tmp |-> <<x, s>>, inner |-> [nonce |-> x, server |-> s, gB |-> x]]

(* known: a fingerprint of an embedded key is on offer; pq: it factorises. *)
ResPQ(x, s, offer) == [type |-> "resPQ", nonce |-> x, server |-> s, offer |-> offer]

DHParams(x, s, new, grp, a) ==
  [type |-> "server_DH_params_ok", nonce |-> x, server |-> s, tmp |-> <<new, s>>,
   inner |-> [nonce |-> x, server |-> s, group |-> grp, gA |-> a]]

GenOK(x, s, new, a, b) == [type |-> "dh_gen_ok", nonce |-> x, server |-> s,
                           hash |-> <<new, a, b>>]

Refusal(type, x, s) == [type |-> type, nonce |-> x, server |-> s]

Noise == [type |-> "noise"]

(* What a resPQ offers; unusable: a pq that does not factor, or no known key. *)
Offers == {"good"} \cup (IF "refuse" \in Faults THEN {"unusable"} ELSE {})

(* What a connection may carry to exchange x: the server's answers to x,   *)
(* in order, or, through a faulty proxy, any answer there ever was.        *)
Turn == [resPQ |-> {"resPQ"}, dh |-> {"server_DH_params_ok", "server_DH_params_fail"},
         gen |-> {"dh_gen_ok", "dh_gen_retry", "dh_gen_fail"}]

Delivered(x) ==
  (IF "mixed" \in Faults THEN answers
   ELSE {m \in answers : m.nonce = x /\ m.type \in Turn[pc[x]]})
  \cup (IF "noise" \in Faults THEN {Noise} ELSE {})

-----------------------------------------------------------------------------
Init ==
  /\ pc = [x \in Exchanges |-> "start"]
  /\ serverNonce = [x \in Exchanges |-> None]
  /\ group = [x \in Exchanges |-> None]
  /\ gA = [x \in Exchanges |-> None]
  /\ authKey = [x \in Exchanges |-> None]
  /\ primeCache = {}
  /\ requests = {} /\ answers = {} /\ handled = {} /\ keys = {}
  /\ sessions = [s \in Nonces |-> [nonce |-> None, new |-> None, a |-> None]]

(***************************************************************************)
(* The client                                                              *)
(***************************************************************************)

Start(x) ==
  /\ pc[x] = "start"
  /\ requests' = requests \cup {ReqPQ(x)}
  /\ pc' = [pc EXCEPT ![x] = "resPQ"]
  /\ UNCHANGED <<serverNonce, group, gA, authKey, primeCache, answers, server>>

QuickAnswerMutNonce(x, m) == m.type = "resPQ"

(* quickCheck looks at the constructor and the nonce and no further.       *)
QuickAnswer(x, m) == m.type = "resPQ" /\ m.nonce = x

GoodResPQ(x, m) == QuickAnswer(x, m) /\ m.offer = "good"

TakeQuick(x, m) ==
  /\ pc[x] = "resPQ" /\ x \in Quick
  /\ QuickAnswer(x, m)
  /\ pc' = [pc EXCEPT ![x] = "live"]
  /\ UNCHANGED <<serverNonce, group, gA, authKey, primeCache, requests, answers, server>>

TakeResPQ(x, m) ==
  /\ pc[x] = "resPQ" /\ x \notin Quick
  /\ GoodResPQ(x, m)
  /\ serverNonce' = [serverNonce EXCEPT ![x] = m.server]
  /\ requests' = requests \cup {ReqDH(x, m.server)}
  /\ pc' = [pc EXCEPT ![x] = "dh"]
  /\ UNCHANGED <<group, gA, authKey, primeCache, answers, server>>

SoundGroupMut(grp) ==
  \/ grp.prime \in primeCache
  \/ grp.g \in 2..7 /\ grp.prime \in Long \cap SafePrimes /\ grp.ga = "in range"

(* checkDHParams: the range of g and of g_a are checked every time, the    *)
(* primality of a modulus once.                                            *)
SoundGroup(grp) ==
  /\ grp.g \in 2..7
  /\ grp.prime \in Long
  /\ grp.ga = "in range"
  /\ grp.prime \in primeCache \cup SafePrimes

(* parseServerDHParams.                                                    *)
GoodDHParams(x, m) ==
  /\ m.type = "server_DH_params_ok"
  /\ m.nonce = x /\ m.server = serverNonce[x]
  /\ m.tmp = <<x, serverNonce[x]>>
  /\ m.inner.nonce = x /\ m.inner.server = serverNonce[x]
  /\ SoundGroup(m.inner.group)

TakeDHParams(x, m) ==
  /\ pc[x] = "dh"
  /\ GoodDHParams(x, m)
  /\ group' = [group EXCEPT ![x] = m.inner.group]
  /\ gA' = [gA EXCEPT ![x] = m.inner.gA]
  /\ primeCache' = primeCache \cup {m.inner.group.prime}
  /\ requests' = requests \cup {SetDH(x, serverNonce[x])}
  /\ pc' = [pc EXCEPT ![x] = "gen"]
  /\ UNCHANGED <<serverNonce, authKey, answers, server>>

GoodDHGenMutHash(x, m) ==
  m.type = "dh_gen_ok" /\ m.nonce = x /\ m.server = serverNonce[x]

(* verifyDHGen: only dh_gen_ok over the key this side computed.            *)
GoodDHGen(x, m) ==
  /\ m.type = "dh_gen_ok"
  /\ m.nonce = x /\ m.server = serverNonce[x]
  /\ m.hash = <<x, gA[x], x>>

TakeDHGen(x, m) ==
  /\ pc[x] = "gen"
  /\ GoodDHGen(x, m)
  /\ authKey' = [authKey EXCEPT ![x] = [key |-> <<gA[x], x>>, salt |-> <<x, serverNonce[x]>>]]
  /\ pc' = [pc EXCEPT ![x] = "done"]
  /\ UNCHANGED <<serverNonce, group, gA, primeCache, requests, answers, server>>

(* Anything else ends the exchange with an error; nothing is asked again.  *)
Refuse(x, m) ==
  /\ \/ pc[x] = "resPQ" /\ x \in Quick /\ ~QuickAnswer(x, m)
     \/ pc[x] = "resPQ" /\ x \notin Quick /\ ~GoodResPQ(x, m)
     \/ pc[x] = "dh" /\ ~GoodDHParams(x, m)
     \/ pc[x] = "gen" /\ ~GoodDHGen(x, m)
  /\ pc' = [pc EXCEPT ![x] = "failed"]
  /\ UNCHANGED <<serverNonce, group, gA, authKey, primeCache, requests, answers, server>>

(* The deadline of the step passes, or the proxy closes the connection.    *)
Timeout(x) ==
  /\ pc[x] \in {"resPQ", "dh", "gen"}
  /\ pc' = [pc EXCEPT ![x] = "failed"]
  /\ UNCHANGED <<serverNonce, group, gA, authKey, primeCache, requests, answers, server>>

Receive(x) ==
  /\ pc[x] \in {"resPQ", "dh", "gen"}
  /\ \E m \in Delivered(x) :
       TakeQuick(x, m) \/ TakeResPQ(x, m) \/ TakeDHParams(x, m) \/ TakeDHGen(x, m) \/ Refuse(x, m)

(***************************************************************************)
(* The server (external).  A proxy that repeats a request makes it answer  *)
(* again: with another nonce, or with another exponent.                    *)
(***************************************************************************)

Pending(type) == {r \in requests : r.type = type /\ ("mixed" \in Faults \/ r \notin handled)}

ServerPQ ==
  /\ \E r \in Pending("req_pq"), offer \in Offers,
        s \in {n \in Nonces : sessions[n].nonce = None} :
       /\ sessions' = [sessions EXCEPT ![s].nonce = r.nonce]
       /\ answers' = answers \cup {ResPQ(r.nonce, s, offer)}
       /\ handled' = handled \cup {r}
  /\ UNCHANGED <<client, requests, keys>>

Offered == {grp \in Groups : \/ "weak" \in Faults
                             \/ /\ grp.g \in 2..7 /\ grp.ga = "in range"
                                /\ grp.prime \in SafePrimes}

Drawn == {sessions[s].a : s \in Nonces} \cup {k.a : k \in keys}

ServerDH ==
  /\ \E r \in Pending("req_DH_params"), grp \in Offered, a \in Exponents \ Drawn :
       /\ r.inner.nonce = sessions[r.server].nonce
       /\ sessions' = [sessions EXCEPT ![r.server].new = r.inner.new, ![r.server].a = a]
       /\ answers' = answers \cup {DHParams(r.nonce, r.server, r.inner.new, grp, a)}
       /\ handled' = handled \cup {r}
  /\ UNCHANGED <<client, requests, keys>>

ServerGen ==
  /\ \E r \in Pending("set_client_DH_params") :
       /\ r.tmp = <<sessions[r.server].new, r.server>>
       /\ keys' = keys \cup {[nonce |-> r.nonce, server |-> r.server,
                              new |-> sessions[r.server].new,
                              a |-> sessions[r.server].a, b |-> r.inner.gB]}
       /\ answers' = answers \cup {GenOK(r.nonce, r.server, sessions[r.server].new,
                                         sessions[r.server].a, r.inner.gB)}
       /\ handled' = handled \cup {r}
  /\ UNCHANGED <<client, requests, sessions>>

ServerRefuses ==
  /\ "refuse" \in Faults
  /\ \E r \in Pending("req_DH_params") \cup Pending("set_client_DH_params"),
        type \in {"server_DH_params_fail", "dh_gen_retry", "dh_gen_fail"} :
       /\ (type = "server_DH_params_fail") = (r.type = "req_DH_params")
       /\ answers' = answers \cup {Refusal(type, r.nonce, r.server)}
       /\ handled' = handled \cup {r}
  /\ UNCHANGED <<client, requests, sessions, keys>>

Finished == (\A x \in Exchanges : pc[x] \in Ended) /\ UNCHANGED vars

Server == ServerPQ \/ ServerDH \/ ServerGen \/ ServerRefuses

Client(x) == Start(x) \/ Receive(x) \/ Timeout(x)

Next == (\E x \in Exchanges : Client(x)) \/ Server \/ Finished

Spec == Init /\ [][Next]_vars

-----------------------------------------------------------------------------
(* Properties *)

(* The stages of an exchange and what is known in each of them.            *)
TypeOK ==
  /\ pc \in [Exchanges -> {"start", "resPQ", "dh", "gen"} \cup Ended]
  /\ serverNonce \in [Exchanges -> Nonces \cup {None}]
  /\ gA \in [Exchanges -> Exponents \cup {None}]
  /\ primeCache \subseteq Long
  /\ \A x \in Exchanges : authKey[x] # None <=> pc[x] = "done"

(* An auth key returned by createAuthKey is one the server made in this    *)
(* very exchange, from the same three nonces: whatever a proxy mixes up or *)
(* repeats, the two sides never believe in different keys.                 *)
Agreement ==
  \A x \in Exchanges : authKey[x] # None =>
    \E k \in keys : /\ k.nonce = x /\ k.server = serverNonce[x] /\ k.new = x
                    /\ authKey[x].key = <<k.a, k.b>>
                    /\ authKey[x].salt = <<k.new, k.server>>

(* A proxy is called live, and an exchange goes on, only on an answer the  *)
(* server gave to this exchange's own request.                             *)
AnswerIsMine ==
  \A x \in Exchanges :
    /\ pc[x] = "live" => \E s \in Nonces : sessions[s].nonce = x
    /\ pc[x] \in {"dh", "gen", "done"} => \E s \in Nonces :
                                            s = serverNonce[x] /\ sessions[s].nonce = x

(* No key comes from a group that fails a check, not even when another     *)
(* exchange has put its modulus in the cache; the cache never holds a      *)
(* modulus that is no safe prime.                                          *)
GroupsAreSound ==
  /\ primeCache \subseteq SafePrimes
  /\ \A x \in Exchanges : pc[x] \in {"gen", "done"} =>
       /\ group[x].prime \in SafePrimes
       /\ group[x].g \in 2..7 /\ group[x].ga = "in range"
=============================================================================
