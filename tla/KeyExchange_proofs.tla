------------------------- MODULE KeyExchange_proofs -------------------------
(***************************************************************************)
(* What KeyExchange promises for every set of exchanges, nonces, groups    *)
(* and faults.  The inductive invariant adds what the messages under way   *)
(* say of the server's state: a resPQ belongs to a session opened for its  *)
(* nonce, a dh_gen_ok to a key the server keeps.                           *)
(***************************************************************************)
EXTENDS KeyExchange, TLAPS

Sessions == [nonce : Exchanges \cup {None}, new : Exchanges \cup {None},
             a : Exponents \cup {None}]

Typed == /\ TypeOK
         /\ authKey = [x \in Exchanges |-> authKey[x]]
         /\ group = [x \in Exchanges |-> group[x]]
         /\ sessions \in [Nonces -> Sessions]

(* What is asked names the exchange that asks and a nonce the server gave. *)
RequestsOK ==
  \A r \in requests :
    /\ r.type = "req_pq" => r.nonce \in Exchanges
    /\ r.type = "req_DH_params" => r.server \in Nonces /\ r.inner.new \in Exchanges

(* What is answered is true of the server.                                 *)
AnswersOK ==
  \A m \in answers :
    /\ m.type = "resPQ" => /\ m.server \in Nonces /\ m.nonce \in Exchanges
                           /\ sessions[m.server].nonce = m.nonce
    /\ m.type = "server_DH_params_ok" => m.inner.gA \in Exponents
    /\ m.type = "dh_gen_ok" => \E k \in keys : /\ k.nonce = m.nonce /\ k.server = m.server
                                               /\ m.hash = <<k.new, k.a, k.b>>

IInv == Typed /\ RequestsOK /\ AnswersOK /\ Agreement /\ AnswerIsMine /\ GroupsAreSound

-----------------------------------------------------------------------------
(* Nothing is delivered that the server did not send, except noise.        *)
LEMMA DeliveredIsAnswer ==
  ASSUME NEW x, NEW m \in Delivered(x)
  PROVE  m \in answers \/ m = Noise
  BY DEF Delivered

LEMMA InitIInv == Init => IInv
<1> SUFFICES ASSUME Init PROVE IInv
  OBVIOUS
<1>1. Typed
  BY DEF Init, Typed, TypeOK, Sessions, Ended
<1>2. RequestsOK /\ AnswersOK
  BY DEF Init, RequestsOK, AnswersOK
<1>3. Agreement /\ AnswerIsMine
  BY DEF Init, Agreement, AnswerIsMine
<1>4. GroupsAreSound
  BY DEF Init, GroupsAreSound
<1> QED
  BY <1>1, <1>2, <1>3, <1>4 DEF IInv

(* A step that only ends an exchange without a result keeps everything.    *)
LEMMA FailureKeeps ==
  ASSUME IInv, NEW x \in Exchanges,
         pc[x] \in {"resPQ", "dh", "gen"},
         pc' = [pc EXCEPT ![x] = "failed"],
         UNCHANGED <<serverNonce, group, gA, authKey, primeCache, requests, answers, server>>
  PROVE  IInv'
<1> USE DEF IInv, server
<1>1. Typed'
  BY DEF Typed, TypeOK, Ended
<1>2. RequestsOK' /\ AnswersOK'
  BY DEF RequestsOK, AnswersOK
<1>3. Agreement'
  BY DEF Agreement
<1>4. AnswerIsMine'
  BY DEF AnswerIsMine, Typed, TypeOK
<1>5. GroupsAreSound'
  BY DEF GroupsAreSound, Typed, TypeOK
<1> QED
  BY <1>1, <1>2, <1>3, <1>4, <1>5

LEMMA StartKeeps ==
  ASSUME IInv, NEW x \in Exchanges, Start(x)
  PROVE  IInv'
<1> USE DEF IInv, Start, server
<1>1. Typed'
  BY DEF Typed, TypeOK, Ended
<1>2. RequestsOK'
  BY DEF RequestsOK, ReqPQ
<1>3. AnswersOK' /\ Agreement'
  BY DEF AnswersOK, Agreement
<1>4. AnswerIsMine'
  BY DEF AnswerIsMine, Typed, TypeOK
<1>5. GroupsAreSound'
  BY DEF GroupsAreSound, Typed, TypeOK
<1> QED
  BY <1>1, <1>2, <1>3, <1>4, <1>5

LEMMA TakeQuickKeeps ==
  ASSUME IInv, NEW x \in Exchanges, NEW m \in Delivered(x), TakeQuick(x, m)
  PROVE  IInv'
<1> USE DEF IInv, TakeQuick, server
<1>1. Typed'
  BY DEF Typed, TypeOK, Ended
<1>2. RequestsOK' /\ AnswersOK' /\ Agreement'
  BY DEF RequestsOK, AnswersOK, Agreement
<1>3. \E s \in Nonces : sessions[s].nonce = x
  BY DeliveredIsAnswer DEF AnswersOK, QuickAnswer, Noise
<1>4. AnswerIsMine'
  BY <1>3 DEF AnswerIsMine, Typed, TypeOK
<1>5. GroupsAreSound'
  BY DEF GroupsAreSound, Typed, TypeOK
<1> QED
  BY <1>1, <1>2, <1>4, <1>5

LEMMA TakeResPQKeeps ==
  ASSUME IInv, NEW x \in Exchanges, NEW m \in Delivered(x), TakeResPQ(x, m)
  PROVE  IInv'
<1> USE DEF IInv, TakeResPQ, server
<1>1. m.server \in Nonces /\ sessions[m.server].nonce = x
  BY DeliveredIsAnswer DEF AnswersOK, GoodResPQ, QuickAnswer, Noise
<1>2. Typed'
  BY <1>1 DEF Typed, TypeOK, Ended
<1>3. RequestsOK'
  BY <1>1 DEF RequestsOK, ReqDH
<1>4. AnswersOK'
  BY DEF AnswersOK
<1>5. Agreement'
  BY DEF Agreement, Typed, TypeOK
<1>6. AnswerIsMine'
  BY <1>1 DEF AnswerIsMine, Typed, TypeOK
<1>7. GroupsAreSound'
  BY DEF GroupsAreSound, Typed, TypeOK
<1> QED
  BY <1>2, <1>3, <1>4, <1>5, <1>6, <1>7

LEMMA TakeDHParamsKeeps ==
  ASSUME IInv, NEW x \in Exchanges, NEW m \in Delivered(x), TakeDHParams(x, m)
  PROVE  IInv'
<1> USE DEF IInv, TakeDHParams, server
<1>1. m.inner.gA \in Exponents /\ SoundGroup(m.inner.group)
  BY DeliveredIsAnswer DEF AnswersOK, GoodDHParams, Noise
<1>2. m.inner.group.prime \in SafePrimes /\ m.inner.group.prime \in Long
  BY <1>1 DEF SoundGroup, GroupsAreSound
<1>3. Typed'
  BY <1>1, <1>2 DEF Typed, TypeOK, Ended
<1>4. RequestsOK'
  BY DEF RequestsOK, SetDH
<1>5. AnswersOK' /\ Agreement'
  BY DEF AnswersOK, Agreement
<1>6. AnswerIsMine'
  BY DEF AnswerIsMine, Typed, TypeOK
<1>7. GroupsAreSound'
  BY <1>1, <1>2 DEF GroupsAreSound, SoundGroup, Typed, TypeOK
<1> QED
  BY <1>3, <1>4, <1>5, <1>6, <1>7

LEMMA TakeDHGenKeeps ==
  ASSUME IInv, NEW x \in Exchanges, NEW m \in Delivered(x), TakeDHGen(x, m)
  PROVE  IInv'
<1> USE DEF IInv, TakeDHGen, server
<1>1. PICK k \in keys : k.nonce = x /\ k.server = serverNonce[x] /\ <<x, gA[x], x>> = <<k.new, k.a, k.b>>
  BY DeliveredIsAnswer DEF AnswersOK, GoodDHGen, Noise
<1>2. k.new = x /\ k.a = gA[x] /\ k.b = x
  BY <1>1
<1>3. authKey'[x] = [key |-> <<gA[x], x>>, salt |-> <<x, serverNonce[x]>>]
  BY DEF Typed
<1>4. authKey'[x] # None
  BY <1>3, KeyAssumption DEF Typed, TypeOK
<1>5. Typed'
  BY <1>4 DEF Typed, TypeOK, Ended
<1>6. RequestsOK' /\ AnswersOK'
  BY DEF RequestsOK, AnswersOK
<1>7. Agreement'
  <2> SUFFICES ASSUME NEW y \in Exchanges, authKey'[y] # None
               PROVE  \E j \in keys : /\ j.nonce = y /\ j.server = serverNonce[y] /\ j.new = y
                                      /\ authKey'[y].key = <<j.a, j.b>>
                                      /\ authKey'[y].salt = <<j.new, j.server>>
    BY DEF Agreement
  <2>1. CASE y = x
    <3>1. authKey'[y].key = <<k.a, k.b>> /\ authKey'[y].salt = <<k.new, k.server>>
      BY <2>1, <1>1, <1>2, <1>3
    <3> QED
      BY <3>1, <2>1, <1>1, <1>2
  <2>2. CASE y # x
    BY <2>2 DEF Agreement, Typed
  <2> QED
    BY <2>1, <2>2
<1>8. AnswerIsMine'
  BY DEF AnswerIsMine, Typed, TypeOK
<1>9. GroupsAreSound'
  BY DEF GroupsAreSound, Typed, TypeOK
<1> QED
  BY <1>5, <1>6, <1>7, <1>8, <1>9

LEMMA ServerPQKeeps ==
  ASSUME IInv, ServerPQ
  PROVE  IInv'
<1> USE DEF IInv, client
<1>1. PICK r \in Pending("req_pq"), offer \in Offers, s \in {n \in Nonces : sessions[n].nonce = None} :
        /\ sessions' = [sessions EXCEPT ![s].nonce = r.nonce]
        /\ answers' = answers \cup {ResPQ(r.nonce, s, offer)}
        /\ handled' = handled \cup {r}
  BY DEF ServerPQ
<1>2. UNCHANGED <<client, requests, keys>>
  BY DEF ServerPQ
<1>3. r.nonce \in Exchanges
  BY DEF Pending, RequestsOK
<1>4. /\ sessions' \in [Nonces -> Sessions]
      /\ sessions'[s].nonce = r.nonce
      /\ \A n \in Nonces : sessions[n].nonce # None => sessions'[n].nonce = sessions[n].nonce
  BY <1>1, <1>3 DEF Typed, Sessions
<1>5. Typed'
  BY <1>2, <1>4 DEF Typed, TypeOK
<1>6. RequestsOK' /\ Agreement' /\ GroupsAreSound'
  BY <1>2 DEF RequestsOK, Agreement, GroupsAreSound
<1>7. AnswersOK'
  BY <1>1, <1>2, <1>3, <1>4, NoneAssumption DEF AnswersOK, ResPQ
<1>8. AnswerIsMine'
  BY <1>2, <1>4, NoneAssumption DEF AnswerIsMine
<1> QED
  BY <1>5, <1>6, <1>7, <1>8

LEMMA ServerDHKeeps ==
  ASSUME IInv, ServerDH
  PROVE  IInv'
<1> USE DEF IInv, client
<1>1. PICK r \in Pending("req_DH_params"), grp \in Offered, a \in Exponents \ Drawn :
        /\ sessions' = [sessions EXCEPT ![r.server].new = r.inner.new, ![r.server].a = a]
        /\ answers' = answers \cup {DHParams(r.nonce, r.server, r.inner.new, grp, a)}
  BY DEF ServerDH
<1>2. UNCHANGED <<client, requests, keys>>
  BY DEF ServerDH
<1>3. r.server \in Nonces /\ r.inner.new \in Exchanges
  BY DEF Pending, RequestsOK
<1>4. /\ sessions' \in [Nonces -> Sessions]
      /\ \A n \in Nonces : sessions'[n].nonce = sessions[n].nonce
  BY <1>1, <1>3 DEF Typed, Sessions
<1>5. Typed'
  BY <1>2, <1>4 DEF Typed, TypeOK
<1>6. RequestsOK' /\ Agreement' /\ GroupsAreSound'
  BY <1>2 DEF RequestsOK, Agreement, GroupsAreSound
<1>7. AnswersOK'
  BY <1>1, <1>2, <1>4 DEF AnswersOK, DHParams
<1>8. AnswerIsMine'
  BY <1>2, <1>4 DEF AnswerIsMine
<1> QED
  BY <1>5, <1>6, <1>7, <1>8

LEMMA ServerGenKeeps ==
  ASSUME IInv, ServerGen
  PROVE  IInv'
<1> USE DEF IInv, client
<1>1. PICK r \in Pending("set_client_DH_params") :
        /\ keys' = keys \cup {[nonce |-> r.nonce, server |-> r.server,
                               new |-> sessions[r.server].new,
                               a |-> sessions[r.server].a, b |-> r.inner.gB]}
        /\ answers' = answers \cup {GenOK(r.nonce, r.server, sessions[r.server].new,
                                          sessions[r.server].a, r.inner.gB)}
  BY DEF ServerGen
<1>2. UNCHANGED <<client, requests, sessions>>
  BY DEF ServerGen
<1>3. Typed'
  BY <1>2 DEF Typed, TypeOK
<1>4. RequestsOK' /\ AnswerIsMine' /\ GroupsAreSound'
  BY <1>2 DEF RequestsOK, AnswerIsMine, GroupsAreSound
<1>5. AnswersOK'
  <2> DEFINE k == [nonce |-> r.nonce, server |-> r.server, new |-> sessions[r.server].new,
                   a |-> sessions[r.server].a, b |-> r.inner.gB]
             g == GenOK(r.nonce, r.server, sessions[r.server].new, sessions[r.server].a,
                        r.inner.gB)
  <2>1. /\ k \in keys' /\ k.nonce = r.nonce /\ k.server = r.server
        /\ g.hash = <<k.new, k.a, k.b>> /\ g.nonce = r.nonce /\ g.server = r.server
        /\ g.type = "dh_gen_ok"
    BY <1>1 DEF GenOK
  <2>2. answers' = answers \cup {g} /\ keys \subseteq keys' /\ sessions' = sessions
    BY <1>1, <1>2
  <2> HIDE DEF k, g
  <2>3. \A m \in answers : m.type = "dh_gen_ok" =>
          \E j \in keys' : j.nonce = m.nonce /\ j.server = m.server /\ m.hash = <<j.new, j.a, j.b>>
    BY <2>2 DEF AnswersOK
  <2>4. \A m \in answers : m.type \in {"resPQ", "server_DH_params_ok"} =>
          /\ m.type = "resPQ" => /\ m.server \in Nonces /\ m.nonce \in Exchanges
                                 /\ sessions'[m.server].nonce = m.nonce
          /\ m.type = "server_DH_params_ok" => m.inner.gA \in Exponents
    BY <2>2 DEF AnswersOK
  <2> QED
    BY <2>1, <2>2, <2>3, <2>4 DEF AnswersOK
<1>6. Agreement'
  BY <1>1, <1>2 DEF Agreement
<1> QED
  BY <1>3, <1>4, <1>5, <1>6

LEMMA ServerRefusesKeeps ==
  ASSUME IInv, ServerRefuses
  PROVE  IInv'
<1> USE DEF IInv, client
<1>1. PICK r \in Pending("req_DH_params") \cup Pending("set_client_DH_params"),
           type \in {"server_DH_params_fail", "dh_gen_retry", "dh_gen_fail"} :
        answers' = answers \cup {Refusal(type, r.nonce, r.server)}
  BY DEF ServerRefuses
<1>2. UNCHANGED <<client, requests, sessions, keys>>
  BY DEF ServerRefuses
<1>3. Typed'
  BY <1>2 DEF Typed, TypeOK
<1>4. RequestsOK' /\ AnswerIsMine' /\ GroupsAreSound' /\ Agreement'
  BY <1>2 DEF RequestsOK, AnswerIsMine, GroupsAreSound, Agreement
<1>5. AnswersOK'
  BY <1>1, <1>2 DEF AnswersOK, Refusal
<1> QED
  BY <1>3, <1>4, <1>5

LEMMA StutterKeeps ==
  ASSUME IInv, UNCHANGED vars
  PROVE  IInv'
<1> USE DEF IInv, vars, client, server
<1>1. Typed'
  BY DEF Typed, TypeOK
<1>2. RequestsOK' /\ AnswersOK' /\ Agreement'
  BY DEF RequestsOK, AnswersOK, Agreement
<1>3. AnswerIsMine' /\ GroupsAreSound'
  BY DEF AnswerIsMine, GroupsAreSound
<1> QED
  BY <1>1, <1>2, <1>3

LEMMA NextKeeps == IInv /\ [Next]_vars => IInv'
<1> SUFFICES ASSUME IInv, [Next]_vars PROVE IInv'
  OBVIOUS
<1>1. CASE \E x \in Exchanges : Client(x)
  <2>1. PICK x \in Exchanges : Client(x)
    BY <1>1
  <2>2. CASE Start(x)
    BY <2>2, StartKeeps
  <2>3. CASE Timeout(x)
    BY <2>3, FailureKeeps DEF Timeout
  <2>4. CASE Receive(x)
    <3>1. PICK m \in Delivered(x) : \/ TakeQuick(x, m) \/ TakeResPQ(x, m)
                                    \/ TakeDHParams(x, m) \/ TakeDHGen(x, m) \/ Refuse(x, m)
      BY <2>4 DEF Receive
    <3>2. CASE Refuse(x, m)
      BY <3>2, FailureKeeps DEF Refuse
    <3> QED
      BY <3>1, <3>2, TakeQuickKeeps, TakeResPQKeeps, TakeDHParamsKeeps, TakeDHGenKeeps
  <2> QED
    BY <2>1, <2>2, <2>3, <2>4 DEF Client
<1>2. CASE Server
  BY <1>2, ServerPQKeeps, ServerDHKeeps, ServerGenKeeps, ServerRefusesKeeps DEF Server
<1>3. CASE Finished \/ UNCHANGED vars
  BY <1>3, StutterKeeps DEF Finished
<1> QED
  BY <1>1, <1>2, <1>3 DEF Next

-----------------------------------------------------------------------------
LEMMA Invariance == Spec => []IInv
<1> QED
  BY InitIInv, NextKeeps, PTL DEF Spec

(* createAuthKey returns only keys the server made in the same exchange,   *)
(* however a proxy mixes up, repeats, delays or drops what passes through. *)
THEOREM KeysAgree == Spec => []Agreement
<1>1. IInv => Agreement
  BY DEF IInv
<1> QED
  BY <1>1, Invariance, PTL

(* quickCheck and createAuthKey go on only on an answer to their own       *)
(* request: an answer to another probe makes no proxy live.                *)
THEOREM AnswersAreOwn == Spec => []AnswerIsMine
<1>1. IInv => AnswerIsMine
  BY DEF IInv
<1> QED
  BY <1>1, Invariance, PTL

(* checkDHParams lets no unsound group through, with or without its cache. *)
THEOREM GroupsStaySound == Spec => []GroupsAreSound
<1>1. IInv => GroupsAreSound
  BY DEF IInv
<1> QED
  BY <1>1, Invariance, PTL
=============================================================================
