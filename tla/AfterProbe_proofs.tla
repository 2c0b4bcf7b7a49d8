------------------------- MODULE AfterProbe_proofs -------------------------
(***************************************************************************)
(* What happens to a live proxy after its probe: proofs about Audit for    *)
(* every number of connections, every limit of the proxy, every number of  *)
(* connections of the probe and of connections that break for another      *)
(* reason, and about GeoCache for every number of workers and hosts.       *)
(***************************************************************************)
EXTENDS Audit, GeoCache, FiniteSetTheorems, TLAPS

Types == /\ step \in {"masking", "open", "limit", "done"}
         /\ checks \in BOOLEAN
         /\ conn \in [Conns -> {"none", "start", "open", "closed"}]
         /\ ok \in [Conns -> BOOLEAN]
         /\ serving \in SUBSET Conns
         /\ breaks \in Nat

(* The earlier connections the proxy still serves only become fewer once   *)
(* the limit check has begun.                                              *)
Left == /\ lingering \in Nat /\ held \in Nat
        /\ step \in {"limit", "done"} => lingering <= held

(* Nothing is connected before the check of the limit begins, and every    *)
(* goroutine has ended when it is over.                                    *)
Order == /\ step \in {"masking", "open"} => \A c \in Conns : conn[c] = "none"
         /\ step = "done" => \A c \in Conns : conn[c] = "closed"
         /\ \A c \in Conns : conn[c] \in {"none", "start"} => c \notin serving
         /\ \A c \in Conns : ok[c] => conn[c] = "closed"

(* The connections that have or will have an answer unless they break, and *)
(* the ones that ended without one.                                        *)
Good == {c \in Conns : conn[c] = "open" \/ ok[c]}
Lost == {c \in Conns : conn[c] = "closed" /\ ~ok[c]}

(* The places the proxy keeps for connections without an answer were taken *)
(* by broken ones.                                                         *)
WastedPlaces == Cardinality(serving \ Good) <= breaks

(* Either only broken connections were lost, or one was turned away: then  *)
(* all places were taken, and what had not broken of them is good or was   *)
(* left over from before.                                                  *)
Fates == Cardinality(Lost) <= breaks \/ Cardinality(Good) + breaks + held >= Limit

Counted == step = "done" => accepted = Cardinality({c \in Conns : ok[c]})

IInv == Types /\ Left /\ Order /\ WastedPlaces /\ Fates /\ Counted

-----------------------------------------------------------------------------

LEMMA WantIsNat == Want \in Nat /\ Conns = 1..Want
BY MaxConnsAssumption DEF Want, Conns

(* Sets of connections are finite and can be counted.                      *)
LEMMA Finite ==
  ASSUME NEW S \in SUBSET Conns
  PROVE  IsFiniteSet(S) /\ Cardinality(S) \in Nat
<1>1. IsFiniteSet(Conns)
  BY WantIsNat, FS_Interval
<1>2. IsFiniteSet(S)
  BY <1>1, FS_Subset
<1> QED BY <1>2, FS_CardinalityType

LEMMA Smaller ==
  ASSUME NEW S \in SUBSET Conns, NEW T \in SUBSET S
  PROVE  Cardinality(T) <= Cardinality(S)
BY Finite, FS_Subset

(* One connection more or less changes the count by one at most.           *)
LEMMA OneMore ==
  ASSUME NEW S \in SUBSET Conns, NEW T \in SUBSET Conns, NEW c \in Conns, T \subseteq S \cup {c}
  PROVE  Cardinality(T) <= Cardinality(S) + 1
<1>1. IsFiniteSet(S) /\ Cardinality(S) \in Nat
  BY Finite
<1>2. IsFiniteSet(S \cup {c}) /\ Cardinality(S \cup {c}) <= Cardinality(S) + 1
  BY <1>1, FS_AddElement
<1>3. Cardinality(T) <= Cardinality(S \cup {c})
  BY <1>2, FS_Subset
<1>4. Cardinality(T) \in Nat /\ Cardinality(S \cup {c}) \in Nat
  BY Finite
<1> QED BY <1>1, <1>2, <1>3, <1>4

LEMMA InitIInv == Init => IInv
<1> SUFFICES ASSUME Init PROVE IInv
  OBVIOUS
<1>1. Types /\ Left /\ Order /\ Counted
  BY DEF Init, Types, Left, Order, Counted
<1>2. serving \ Good = {} /\ Lost = {}
  BY DEF Init, Good, Lost
<1>3. Cardinality({}) = 0
  BY FS_EmptySet
<1>4. WastedPlaces /\ Fates
  BY <1>2, <1>3, Zenon, SMT DEF Init, WastedPlaces, Fates
<1> QED BY <1>1, <1>4 DEF IInv

(* Steps that leave the connections and their answers as they are.         *)
LEMMA Elsewhere ==
  ASSUME IInv, Types', Left', Order', Counted', UNCHANGED <<conn, ok, serving, held, breaks>>
  PROVE  IInv'
<1>1. Good' = Good /\ Lost' = Lost
  BY DEF Good, Lost
<1>2. WastedPlaces' /\ Fates'
  BY <1>1 DEF IInv, WastedPlaces, Fates
<1> QED BY <1>2 DEF IInv

(* The limit check begins: none of its connections has been made.          *)
LEMMA BeginStep ==
  ASSUME IInv, step = "open", BeginLimit, UNCHANGED OpenConst, lingering' \in Nat
  PROVE  IInv'
<1>1. \A c \in Conns : conn[c] = "none" /\ c \notin serving /\ ~ok[c]
  BY DEF IInv, Order, Types
<1>2. Types' /\ Order' /\ Counted'
  BY <1>1 DEF IInv, Types, Order, Counted, BeginLimit, OpenConst
<1>3. Left'
  BY DEF Left, BeginLimit
<1>4. (serving \ Good)' = {} /\ Lost' = {}
  BY <1>1 DEF IInv, Types, Good, Lost, BeginLimit, OpenConst
<1>5. Cardinality({}) = 0 /\ breaks' \in Nat
  BY <1>2, FS_EmptySet DEF Types
<1>6. WastedPlaces' /\ Fates'
  <2>1. Cardinality((serving \ Good)') <= breaks' /\ Cardinality(Lost') <= breaks'
    BY <1>4, <1>5
  <2> QED BY <2>1 DEF WastedPlaces, Fates
<1> QED BY <1>2, <1>3, <1>6 DEF IInv

LEMMA OpenSecretStep == ASSUME IInv, Masking \/ OpenSecret PROVE IInv'
<1>1. CASE Masking
  <2>1. Types' /\ Order' /\ Counted'
    BY <1>1 DEF Masking, IInv, Types, Order, Counted
  <2>2. Left'
    BY <1>1 DEF Masking, Opened, IInv, Left
  <2> QED BY <1>1, <2>1, <2>2, Elsewhere DEF Masking
<1>2. CASE OpenSecret
  <2>1. step = "open" /\ UNCHANGED OpenConst
    BY <1>2 DEF OpenSecret, LetThrough, Rejected, Silent, Unreached, NoDecoy
  <2>2. lingering' \in Nat
    BY <1>2 DEF OpenSecret, LetThrough, Rejected, Silent, Unreached, NoDecoy, NextCandidate, Opened, IInv, Left
  <2>3. BeginLimit \/ UNCHANGED <<open, step, conn, held>>
    BY <1>2 DEF OpenSecret, LetThrough, Rejected, Silent, Unreached, NoDecoy, NextCandidate, Verdict
  <2>4. CASE UNCHANGED <<open, step, conn, held>>
    <3>1. Types' /\ Order' /\ Counted'
      BY <2>1, <2>4 DEF OpenConst, IInv, Types, Order, Counted
    <3>2. Left'
      BY <2>1, <2>2, <2>4 DEF IInv, Left
    <3> QED BY <2>1, <2>4, <3>1, <3>2, Elsewhere DEF OpenConst
  <2> QED BY <2>1, <2>2, <2>3, <2>4, BeginStep
<1> QED BY <1>1, <1>2

(* What every step of a goroutine and of the proxy keeps.                  *)
LEMMA ConnTypes ==
  ASSUME IInv, NEW c \in Conns, Goroutine(c) \/ Notice(c)
  PROVE  Types' /\ Left' /\ Order' /\ Counted'
<1>1. CASE Connect(c)
  BY <1>1 DEF Connect, LimitConst, IInv, Types, Left, Order, Counted
<1>2. CASE TurnedAway(c)
  BY <1>2 DEF TurnedAway, LimitConst, IInv, Types, Left, Order, Counted
<1>3. CASE Answered(c)
  BY <1>3 DEF Answered, LimitConst, IInv, Types, Left, Order, Counted
<1>4. CASE Break(c)
  BY <1>4 DEF Break, LimitConst, IInv, Types, Left, Order, Counted
<1>5. CASE Notice(c)
  BY <1>5 DEF Notice, LimitConst, IInv, Types, Left, Order, Counted
<1> QED BY <1>1, <1>2, <1>3, <1>4, <1>5 DEF Goroutine

LEMMA ConnStep ==
  ASSUME IInv, NEW c \in Conns, Goroutine(c) \/ Notice(c)
  PROVE  IInv'
<1>1. Types' /\ Left' /\ Order' /\ Counted'
  BY ConnTypes
<1>2. /\ conn \in [Conns -> {"none", "start", "open", "closed"}] /\ ok \in [Conns -> BOOLEAN]
      /\ serving \in SUBSET Conns /\ breaks \in Nat /\ Limit \in Nat
      /\ lingering \in Nat /\ held \in Nat /\ held' = held
      /\ ok[c] => conn[c] = "closed"
      /\ conn[c] = "start" => c \notin serving
  BY LimitAssumption
  DEF IInv, Types, Left, Order, Goroutine, Connect, TurnedAway, Answered, Break, Notice, LimitConst
<1>3. Good \in SUBSET Conns /\ Lost \in SUBSET Conns /\ Good' \in SUBSET Conns /\ Lost' \in SUBSET Conns
  BY DEF Good, Lost
<1>4. /\ Cardinality(Good) \in Nat /\ Cardinality(Lost) \in Nat /\ Cardinality(serving \ Good) \in Nat
      /\ Cardinality(Good') \in Nat /\ Cardinality(Lost') \in Nat
      /\ Cardinality(serving' \ Good') \in Nat
  BY <1>1, <1>2, <1>3, Finite DEF Types
<1>5. Cardinality(serving \ Good) <= breaks
      /\ (Cardinality(Lost) <= breaks \/ Cardinality(Good) + breaks + held >= Limit)
  BY DEF IInv, WastedPlaces, Fates
<1>6. SUFFICES /\ Cardinality(serving' \ Good') <= breaks'
               /\ Cardinality(Lost') <= breaks' \/ Cardinality(Good') + breaks' + held >= Limit
  BY <1>1, <1>2 DEF IInv, WastedPlaces, Fates
<1>7. CASE Connect(c)
  <2>1. serving' \ Good' \subseteq serving \ Good /\ Lost' = Lost /\ Good \subseteq Good' /\ breaks' = breaks
    BY <1>2, <1>7 DEF Connect, Good, Lost
  <2>2. Cardinality(serving' \ Good') <= Cardinality(serving \ Good) /\ Cardinality(Good) <= Cardinality(Good')
    BY <1>2, <1>3, <2>1, Smaller
  <2> QED BY <1>2, <1>4, <1>5, <2>1, <2>2
<1>8. CASE TurnedAway(c)
  (* All places are taken: by good connections, broken or earlier ones.    *)
  <2>1. serving' \ Good' = serving \ Good /\ Good' = Good /\ breaks' = breaks
        /\ Cardinality(serving) + lingering >= Limit /\ lingering <= held
    <3>1. step = "limit"
      BY <1>8 DEF IInv, Types, Order, TurnedAway
    <3> QED BY <1>2, <1>8, <3>1 DEF IInv, Left, TurnedAway, Taken, Good
  <2>2. Cardinality(serving) <= Cardinality(Good) + Cardinality(serving \ Good)
    <3>1. Cardinality(Good \cup (serving \ Good))
            = Cardinality(Good) + Cardinality(serving \ Good) - Cardinality(Good \cap (serving \ Good))
      BY <1>2, <1>3, Finite, FS_Union
    <3>2. Good \cap (serving \ Good) = {} /\ Cardinality({}) = 0
      BY FS_EmptySet
    <3>3. Cardinality(serving) <= Cardinality(Good \cup (serving \ Good))
      BY <1>2, <1>3, Smaller
    <3> QED BY <1>4, <3>1, <3>2, <3>3
  <2>3. Cardinality(serving) \in Nat
    BY <1>2, Finite
  <2>4. Cardinality(serving' \ Good') = Cardinality(serving \ Good) /\ Cardinality(Good') = Cardinality(Good)
    BY <2>1
  <2>5. Cardinality(Good) + breaks + held >= Limit
    <3>1. Cardinality(serving \ Good) <= breaks
      BY <1>5
    <3> QED BY <1>2, <1>4, <2>1, <2>2, <2>3, <3>1
  <2>6. breaks' = breaks
    BY <2>1
  <2> QED BY <1>5, <2>4, <2>5, <2>6
<1>9. CASE Answered(c)
  <2>1. serving' = serving /\ Good' = Good /\ Lost' = Lost /\ breaks' = breaks
    BY <1>2, <1>9 DEF Answered, Good, Lost
  <2> QED BY <1>5, <2>1
<1>10. CASE Break(c)
  <2>1. /\ serving' \ Good' \subseteq (serving \ Good) \cup {c} /\ Good \subseteq Good' \cup {c}
        /\ Lost' \subseteq Lost \cup {c} /\ breaks' = breaks + 1
    BY <1>2, <1>10 DEF Break, Good, Lost
  <2>2. serving \ Good \in SUBSET Conns /\ serving' \ Good' \in SUBSET Conns
    BY <1>1, <1>2 DEF Types
  <2>3. /\ Cardinality(serving' \ Good') <= Cardinality(serving \ Good) + 1
        /\ Cardinality(Good) <= Cardinality(Good') + 1
        /\ Cardinality(Lost') <= Cardinality(Lost) + 1
    BY <1>3, <2>1, <2>2, OneMore
  <2> QED BY <1>2, <1>4, <1>5, <2>1, <2>3
<1>11. CASE Notice(c)
  <2>1. serving' \ Good' \subseteq serving \ Good /\ Good' = Good /\ Lost' = Lost /\ breaks' = breaks
    BY <1>11 DEF Notice, Good, Lost
  <2>2. Cardinality(serving' \ Good') <= Cardinality(serving \ Good)
    BY <1>2, <1>3, <2>1, Smaller
  <2> QED BY <1>2, <1>4, <1>5, <2>1, <2>2
<1> QED BY <1>7, <1>8, <1>9, <1>10, <1>11 DEF Goroutine

LEMMA CountStep == ASSUME IInv, Count PROVE IInv'
<1>1. Types' /\ Left' /\ Order' /\ Counted'
  BY DEF Count, LimitConst, IInv, Types, Left, Order, Counted
<1> QED BY <1>1, Elsewhere DEF Count, LimitConst

LEMMA NoticeEarlierStep == ASSUME IInv, NoticeEarlier PROVE IInv'
<1>1. Types' /\ Left' /\ Order' /\ Counted'
  BY DEF NoticeEarlier, IInv, Types, Left, Order, Counted
<1> QED BY <1>1, Elsewhere DEF NoticeEarlier

LEMMA StepIInv == IInv /\ [Next]_vars => IInv'
<1> SUFFICES ASSUME IInv, [Next]_vars PROVE IInv'
  OBVIOUS
<1>1. CASE UNCHANGED vars
  <2>1. Types' /\ Left' /\ Order' /\ Counted'
    BY <1>1 DEF vars, IInv, Types, Left, Order, Counted
  <2> QED BY <1>1, <2>1, Elsewhere DEF vars
<1> QED BY <1>1, OpenSecretStep, ConnStep, CountStep, NoticeEarlierStep DEF Next, Finished

THEOREM Invariance == Spec => []IInv
<1> QED BY InitIInv, StepIInv, PTL DEF Spec

(* When all goroutines have ended, the good connections are the accepted.  *)
LEMMA Enough == IInv => ShortfallHasCause
<1> SUFFICES ASSUME IInv, step = "done"
             PROVE  accepted + breaks + held >= IF Limit < Want THEN Limit ELSE Want
  BY DEF ShortfallHasCause, Least
<1>1. \A c \in Conns : conn[c] = "closed" /\ ok[c] \in BOOLEAN
  BY DEF IInv, Order, Types
<1>2. Good = {c \in Conns : ok[c]} /\ Lost = Conns \ Good /\ Good \in SUBSET Conns
  BY <1>1 DEF Good, Lost
<1>3. accepted = Cardinality(Good)
  BY <1>2 DEF IInv, Counted
<1>4. Cardinality(Conns) = Want
  BY WantIsNat, FS_Interval
<1>5. Cardinality(Good \cup Lost) = Cardinality(Good) + Cardinality(Lost) - Cardinality(Good \cap Lost)
  BY <1>2, Finite, FS_Union
<1>6. Good \cup Lost = Conns /\ Good \cap Lost = {} /\ Cardinality({}) = 0
  BY <1>2, FS_EmptySet
<1>7. /\ Cardinality(Good) \in Nat /\ Cardinality(Lost) \in Nat
      /\ breaks \in Nat /\ held \in Nat /\ Limit \in Nat /\ Want \in Nat
  BY <1>2, Finite, WantIsNat, LimitAssumption DEF IInv, Types, Left
<1>8. Cardinality(Good) + Cardinality(Lost) = Want
  <2>1. Cardinality(Good \cup Lost) = Want /\ Cardinality(Good \cap Lost) = 0
    BY <1>4, <1>6
  <2> QED BY <1>5, <1>7, <2>1
<1>9. Cardinality(Lost) <= breaks \/ Cardinality(Good) + breaks + held >= Limit
  BY DEF IInv, Fates
<1>10. CASE Cardinality(Lost) <= breaks
  <2>1. Cardinality(Good) + breaks >= Want
    BY <1>7, <1>8, <1>10
  <2> QED BY <1>3, <1>7, <2>1
<1>11. CASE Cardinality(Good) + breaks + held >= Limit
  BY <1>3, <1>7, <1>11
<1> QED BY <1>9, <1>10, <1>11

(* A count of CheckConnLimit short of the proxy's limit, or of all that was *)
(* asked for, has its cause in connections that failed for another reason  *)
(* or in those of the probe and of the earlier checks the proxy still      *)
(* served, however the goroutines and the proxy interleave.                *)
THEOREM ShortfallIsCaused == Spec => []ShortfallHasCause
<1> QED BY Invariance, Enough, PTL

-----------------------------------------------------------------------------
(* The geo cache.  AskedOnce needs to know where the answer of an earlier  *)
(* lookup is: in the cache, which never forgets, or on its way there.      *)

(* A worker past "idle" has a host.                                        *)
HasHost == \A w \in Workers : pc[w] # "idle" => host[w] \in Hosts

(* A host a worker asked for is stored, or about to be; one it is about to *)
(* ask for was never asked for.                                            *)
WhereAsked ==
  \A w \in Workers, h \in Hosts :
    /\ asked[w][h] > 0 => cache[h] # None \/ (pc[w] = "store" /\ host[w] = h)
    /\ pc[w] = "ask" /\ host[w] = h => asked[w][h] = 0

GeoInv == TypeOK /\ HasHost /\ WhereAsked /\ AskedOnce /\ OwnHost

LEMMA GeoInitially == GeoInit => GeoInv
<1> SUFFICES ASSUME GeoInit PROVE GeoInv
  OBVIOUS
<1>1. TypeOK
  BY CallsAssumption DEF GeoInit, TypeOK
<1>2. HasHost /\ WhereAsked /\ AskedOnce
  BY DEF GeoInit, HasHost, WhereAsked, AskedOnce
<1>3. OwnHost
  BY DEF GeoInit, OwnHost
<1> QED
  BY <1>1, <1>2, <1>3 DEF GeoInv

LEMMA CallKeeps ==
  ASSUME GeoInv, NEW w \in Workers, NEW h \in Hosts, Call(w, h)
  PROVE  GeoInv'
<1> USE DEF GeoInv, Call
<1>1. TypeOK'
  BY CallsAssumption DEF TypeOK
<1>2. HasHost'
  BY DEF HasHost, TypeOK
<1>3. WhereAsked'
  BY DEF WhereAsked, TypeOK
<1>4. AskedOnce'
  BY DEF AskedOnce
<1>5. OwnHost'
  BY DEF OwnHost, TypeOK
<1> QED
  BY <1>1, <1>2, <1>3, <1>4, <1>5

LEMMA HitKeeps ==
  ASSUME GeoInv, NEW w \in Workers, Hit(w)
  PROVE  GeoInv'
<1> USE DEF GeoInv, Hit
<1>1. host[w] \in Hosts
  BY DEF HasHost
<1>2. TypeOK'
  BY <1>1 DEF TypeOK
<1>3. HasHost' /\ AskedOnce'
  BY DEF HasHost, AskedOnce, TypeOK
<1>4. WhereAsked'
  BY DEF WhereAsked, TypeOK
<1>5. OwnHost'
  BY <1>1 DEF OwnHost, TypeOK
<1> QED
  BY <1>2, <1>3, <1>4, <1>5

LEMMA MissKeeps ==
  ASSUME GeoInv, NEW w \in Workers, Miss(w)
  PROVE  GeoInv'
<1> USE DEF GeoInv, Miss
<1>1. TypeOK'
  BY DEF TypeOK
<1>2. HasHost' /\ AskedOnce'
  BY DEF HasHost, AskedOnce, TypeOK
<1>3. WhereAsked'
  <2> SUFFICES ASSUME NEW v \in Workers, NEW h \in Hosts
               PROVE  /\ asked[v][h] > 0 => cache[h] # None \/ (pc'[v] = "store" /\ host[v] = h)
                      /\ pc'[v] = "ask" /\ host[v] = h => asked[v][h] = 0
    BY DEF WhereAsked
  <2>1. asked[v][h] \in Nat
    BY DEF TypeOK
  <2> QED
    BY <2>1 DEF WhereAsked, TypeOK
<1>4. OwnHost'
  BY DEF OwnHost
<1> QED
  BY <1>1, <1>2, <1>3, <1>4

LEMMA AskKeeps ==
  ASSUME GeoInv, NEW w \in Workers, Ask(w)
  PROVE  GeoInv'
<1> USE DEF GeoInv, Ask
<1>1. host[w] \in Hosts /\ asked[w][host[w]] = 0
  BY DEF HasHost, WhereAsked
<1>2. asked' \in [Workers -> [Hosts -> Nat]] /\ asked'[w][host[w]] = 1
  BY <1>1 DEF TypeOK
<1>3. \A v \in Workers, h \in Hosts : v # w \/ h # host[w] => asked'[v][h] = asked[v][h]
  BY <1>1 DEF TypeOK
<1>4. PICK i \in Infos : /\ info' = [info EXCEPT ![w] = i]
                         /\ given' = [given EXCEPT ![host[w]] = @ \cup {i}]
  OBVIOUS
<1>5. i # None
  BY NoneAssumption DEF Infos
<1>6. TypeOK'
  BY <1>1, <1>2, <1>4, <1>5 DEF TypeOK
<1>7. HasHost'
  BY DEF HasHost, TypeOK
<1>8. WhereAsked'
  BY <1>1, <1>2, <1>3 DEF WhereAsked, TypeOK
<1>9. AskedOnce'
  BY <1>1, <1>2, <1>3 DEF AskedOnce
<1>10. OwnHost'
  BY <1>1, <1>4 DEF OwnHost, TypeOK
<1> QED
  BY <1>6, <1>7, <1>8, <1>9, <1>10

LEMMA StoreKeeps ==
  ASSUME GeoInv, NEW w \in Workers, Store(w)
  PROVE  GeoInv'
<1> USE DEF GeoInv, Store
<1>1. host[w] \in Hosts
  BY DEF HasHost
<1>2. info[w] # None /\ info[w] \in Infos
  BY <1>1, NoneAssumption DEF TypeOK
<1>3. TypeOK'
  BY <1>1, <1>2 DEF TypeOK
<1>4. HasHost' /\ AskedOnce'
  BY DEF HasHost, AskedOnce, TypeOK
<1>5. WhereAsked'
  BY <1>1, <1>2 DEF WhereAsked, TypeOK
<1>6. OwnHost'
  BY <1>1, <1>2 DEF OwnHost, TypeOK
<1> QED
  BY <1>3, <1>4, <1>5, <1>6

LEMMA GeoStutterKeeps ==
  ASSUME GeoInv, UNCHANGED geoVars
  PROVE  GeoInv'
  BY DEF GeoInv, geoVars, TypeOK, HasHost, WhereAsked, AskedOnce, OwnHost

LEMMA GeoInvariance == GeoSpec => []GeoInv
<1>1. GeoInv /\ [GeoNext]_geoVars => GeoInv'
  BY CallKeeps, HitKeeps, MissKeeps, AskKeeps, StoreKeeps, GeoStutterKeeps
     DEF GeoNext, Lookup, GeoFinished
<1> QED
  BY GeoInitially, <1>1, PTL DEF GeoSpec

(* ipwho.is is asked at most once per host by each worker.                 *)
THEOREM AsksAreBounded == GeoSpec => []AskedOnce
<1>1. GeoInv => AskedOnce
  BY DEF GeoInv
<1> QED
  BY <1>1, GeoInvariance, PTL

(* Lookup returns for a host what a lookup of that host came to.           *)
THEOREM AnswersMatchHosts == GeoSpec => []OwnHost
<1>1. GeoInv => OwnHost
  BY DEF GeoInv
<1> QED
  BY <1>1, GeoInvariance, PTL
=============================================================================
