----------------------------- MODULE GeoCache -----------------------------
(***************************************************************************)
(* geo.Client: the country lookups the workers share.  The mutex is held   *)
(* while the map is read or written, not while ipwho.is is asked, so each  *)
(* critical section is a step and the lookup lies between two of them:     *)
(* several workers may ask for one host, and the last to store wins.       *)
(* Whatever the lookup returned is stored, errors included.                *)
(***************************************************************************)
EXTENDS Naturals, FiniteSets

CONSTANTS Workers,  \* the goroutines of the batch
          Hosts,    \* the hosts of the proxies
          Codes,    \* the countries ipwho.is may name
          Calls,    \* bound: lookups in the batch
          Error,    \* an Info with its Error set
          None

ASSUME NoneAssumption == None \notin Codes \cup {Error} /\ None \notin Hosts
ASSUME CallsAssumption == Calls \in Nat

VARIABLES pc,     \* where a worker is in Lookup
          host,   \* the host it looks up
          info,   \* what its last Lookup got
          cache,  \* Client.cache
          given,  \* what the lookups of a host came to
          asked,  \* the lookups each worker has made itself
          calls   \* Lookup calls so far

geoVars == <<pc, host, info, cache, given, asked, calls>>

Infos == Codes \cup {Error}

GeoInit == /\ pc = [w \in Workers |-> "idle"]
           /\ host = [w \in Workers |-> None]
           /\ info = [w \in Workers |-> None]
           /\ cache = [h \in Hosts |-> None]
           /\ given = [h \in Hosts |-> {}]
           /\ asked = [w \in Workers |-> [h \in Hosts |-> 0]]
           /\ calls = 0

Call(w, h) == /\ pc[w] = "idle" /\ calls < Calls
              /\ pc' = [pc EXCEPT ![w] = "check"]
              /\ host' = [host EXCEPT ![w] = h]
              /\ info' = [info EXCEPT ![w] = None]
              /\ calls' = calls + 1
              /\ UNCHANGED <<cache, given, asked>>

Hit(w) == /\ pc[w] = "check"
          /\ cache[host[w]] # None
          /\ info' = [info EXCEPT ![w] = cache[host[w]]]
          /\ pc' = [pc EXCEPT ![w] = "idle"]
          /\ UNCHANGED <<host, cache, given, asked, calls>>

Miss(w) == /\ pc[w] = "check"
           /\ cache[host[w]] = None
           /\ pc' = [pc EXCEPT ![w] = "ask"]
           /\ UNCHANGED <<host, info, cache, given, asked, calls>>

(* The service names a country; or the name does not resolve, the service  *)
(* fails or refuses, or the run is cancelled.                              *)
Ask(w) == /\ pc[w] = "ask"
          /\ \E i \in Infos :
               /\ info' = [info EXCEPT ![w] = i]
               /\ given' = [given EXCEPT ![host[w]] = @ \cup {i}]
          /\ asked' = [asked EXCEPT ![w][host[w]] = @ + 1]
          /\ pc' = [pc EXCEPT ![w] = "store"]
          /\ UNCHANGED <<host, cache, calls>>

StoreMutGood(w) == /\ pc[w] = "store"
                   /\ cache' = IF info[w] = Error THEN cache
                               ELSE [cache EXCEPT ![host[w]] = info[w]]
                   /\ pc' = [pc EXCEPT ![w] = "idle"]
                   /\ UNCHANGED <<host, info, given, asked, calls>>

StoreMutAll(w) == /\ pc[w] = "store"
                  /\ cache' = [h \in Hosts |-> info[w]]
                  /\ pc' = [pc EXCEPT ![w] = "idle"]
                  /\ UNCHANGED <<host, info, given, asked, calls>>

Store(w) == /\ pc[w] = "store"
            /\ cache' = [cache EXCEPT ![host[w]] = info[w]]
            /\ pc' = [pc EXCEPT ![w] = "idle"]
            /\ UNCHANGED <<host, info, given, asked, calls>>

Lookup(w) == (\E h \in Hosts : Call(w, h)) \/ Hit(w) \/ Miss(w) \/ Ask(w) \/ Store(w)

GeoFinished == calls = Calls /\ (\A w \in Workers : pc[w] = "idle") /\ UNCHANGED geoVars

GeoNext == (\E w \in Workers : Lookup(w)) \/ GeoFinished

GeoSpec == GeoInit /\ [][GeoNext]_geoVars

-----------------------------------------------------------------------------
(* A worker has an answer exactly when a call of its ended or is storing.  *)
TypeOK == /\ pc \in [Workers -> {"idle", "check", "ask", "store"}]
          /\ host \in [Workers -> Hosts \cup {None}]
          /\ info \in [Workers -> Infos \cup {None}]
          /\ cache \in [Hosts -> Infos \cup {None}]
          /\ given \in [Hosts -> SUBSET Infos]
          /\ asked \in [Workers -> [Hosts -> Nat]]
          /\ calls \in 0..Calls
          /\ \A w \in Workers : host[w] # None =>
               (info[w] # None <=> pc[w] \in {"idle", "store"})

(* ipwho.is is asked at most once per host by each worker, whatever it     *)
(* answered and however the workers race: a batch of N proxies on one host *)
(* costs no more lookups than there are workers.                           *)
AskedOnce == \A w \in Workers, h \in Hosts : asked[w][h] <= 1

(* What Lookup returns for a host, from the cache or not, is what some     *)
(* lookup of that very host came to.                                       *)
OwnHost == /\ \A h \in Hosts : cache[h] # None => cache[h] \in given[h]
           /\ \A w \in Workers : info[w] # None => info[w] \in given[host[w]]
=============================================================================
