----------------------------- MODULE ProxyLink -----------------------------
(***************************************************************************)
(* Links: what internal/input finds in a line of text, the proxy           *)
(* internal/proxy reads out of a link (Parse), and the link it writes for  *)
(* a proxy (Canonical).                                                    *)
(*                                                                         *)
(* A line is a record: comment tells whether it begins with a comment      *)
(* marker, words holds its words.  A word is a URL, a host:port pair or    *)
(* something else, and carries the parts Go's net/url and net take it      *)
(* apart into; Absent is an absent part, NoPort an absent port, <<>>, <<user>> *)
(* or <<user, password>> the account before the host, escapes how often    *)
(* "&" was written as an HTML entity over again.  The parameters of a URL  *)
(* stand in the order server, port, secret, user, pass.                    *)
(***************************************************************************)
EXTENDS Integers, SequencesExt

CONSTANTS Lower(_),      \* strings.ToLower
          Undotted(_),   \* strings.Trim(s, ".,;)")
          Decoded(_),    \* the bytes of a secret: their number and the first
          PlainHost(_)   \* the host fits hostPortPattern

(* Telegram's own words are in lower case.                                 *)
ASSUME LowerAssumption == \A word \in {"tg", "proxy", "webproxy", "socks"} : Lower(word) = word

Absent == ""

NoPort == -1

(* A word: a URL, a pair of host and port, or something else.              *)
WellFormed(w) ==
  \/ w \in [form : {"url"}, scheme : STRING, host : STRING, port : Int,
            account : Seq(STRING), path : STRING,
            query : [server : STRING, port : Int, secret : STRING, user : STRING, pass : STRING],
            escapes : Nat]
  \/ w \in [form : {"hostport"}, host : STRING, port : Int]
  \/ w \in [form : {"other"}, text : STRING]

NoTarget == [kind |-> "none"]

(* "&amp;" hides every parameter but the first from url.Values.            *)
Query(u) == IF u.escapes = 0 THEN u.query
            ELSE [u.query EXCEPT !.port = NoPort, !.secret = Absent, !.user = Absent, !.pass = Absent]

(* What the link is about: its path, or the host of one without a path.    *)
Topic(u) == CASE u.path # Absent                   -> Lower(u.path)
              [] u.path = Absent /\ u.port = NoPort -> Lower(u.host)
              [] u.path = Absent /\ u.port # NoPort -> "address"

SocksSchemes == {"socks", "socks4", "socks5", "socks5h"}

KindOf(u) ==
  IF Topic(u) = "socks" \/ Lower(u.scheme) \in SocksSchemes THEN "socks5"
  ELSE IF Topic(u) = "webproxy" THEN "webproxy"
  ELSE IF Query(u).secret # Absent THEN "mtproto" ELSE "tcp"

(* A link without a server parameter names its proxy before the path,      *)
(* unless the host is only the topic of the link.                          *)
Direct(u) == Query(u).server = Absent /\ u.host # Absent /\ Topic(u) \notin {"proxy", "socks"}

ValidPort(p) == p \in 1..65535

HasSecret(kind) == kind \in {"mtproto", "webproxy"}

ValidSecret(s) == s # Absent /\ Decoded(s).len >= 16

FromURL(u) ==
  LET q    == Query(u)
      kind == KindOf(u)
      port == IF Direct(u) THEN u.port ELSE q.port
      t    == [kind   |-> kind,
               host   |-> IF Direct(u) THEN u.host ELSE q.server,
               port   |-> IF kind = "webproxy" /\ port = NoPort THEN 443 ELSE port,
               secret |-> q.secret,
               user   |-> IF Direct(u) /\ u.account # <<>> THEN u.account[1] ELSE q.user,
               pass   |-> IF Direct(u) /\ Len(u.account) = 2 THEN u.account[2] ELSE q.pass]
  IN  IF t.host # Absent /\ ValidPort(t.port) /\ (HasSecret(kind) => ValidSecret(t.secret))
      THEN t ELSE NoTarget

FromHostPort(w) ==
  IF w.host # Absent /\ ValidPort(w.port)
  THEN [kind |-> "tcp", host |-> w.host, port |-> w.port,
        secret |-> Absent, user |-> Absent, pass |-> Absent]
  ELSE NoTarget

Parse(w) == CASE w.form = "url"      -> FromURL(w)
              [] w.form = "hostport" -> FromHostPort(w)
              [] w.form = "other"    -> NoTarget

Parses(w) == Parse(w) # NoTarget

Key(t) == <<t.kind, t.host, t.port, Lower(t.secret), t.user>>

Mode(t) ==
  LET b == Decoded(t.secret)
  IN  IF b.len >= 17 /\ b.first = 238 THEN "fake_tls"
      ELSE IF b.len >= 17 /\ b.first = 221 THEN "secure" ELSE "plain"

NoQuery == [server |-> Absent, port |-> NoPort, secret |-> Absent, user |-> Absent, pass |-> Absent]

TgLink(topic, query) ==
  [form |-> "url", scheme |-> "tg", host |-> topic, port |-> NoPort, account |-> <<>>,
   path |-> Absent, query |-> query, escapes |-> 0]

CanonicalMut(t) ==
  CASE t.kind = "mtproto"  -> TgLink("proxy", [NoQuery EXCEPT !.server = t.host, !.port = t.port,
                                                              !.secret = t.secret])
    [] t.kind = "webproxy" -> TgLink("webproxy", [NoQuery EXCEPT !.server = t.host,
                                                                 !.secret = t.secret])
    [] t.kind = "socks5"   -> TgLink("socks", [NoQuery EXCEPT !.server = t.host, !.port = t.port,
                                                              !.user = t.user])
    [] t.kind = "tcp"      -> [form |-> "hostport", host |-> t.host, port |-> t.port]

Canonical(t) ==
  CASE t.kind = "mtproto"  -> TgLink("proxy", [NoQuery EXCEPT !.server = t.host, !.port = t.port,
                                                              !.secret = t.secret])
    [] t.kind = "webproxy" -> TgLink("webproxy", [NoQuery EXCEPT !.server = t.host,
                                                                 !.secret = t.secret])
    [] t.kind = "socks5"   -> TgLink("socks", [NoQuery EXCEPT !.server = t.host, !.port = t.port,
                                                              !.user = t.user, !.pass = t.pass])
    [] t.kind = "tcp"      -> [form |-> "hostport", host |-> t.host, port |-> t.port]

-----------------------------------------------------------------------------
(* Parts of a list *)

(* The elements of s at the positions I, sorted by the relation before: a  *)
(* position comes after as many others as there are before it.             *)
Arrange(s, I, before) ==
  [k \in 1..Cardinality(I) |->
     s[CHOOSE i \in I : Cardinality({j \in I : <<j, i>> \in before}) = k - 1]]

At(s, I) == Arrange(s, I, {ij \in I \X I : ij[1] < ij[2]})

Only(s, good) == At(s, {i \in DOMAIN s : s[i] \in good})

-----------------------------------------------------------------------------
(* Reading lines *)

(* linkPattern: the links of Telegram and socks5:// wherever they stand.   *)
IsLink(w) ==
  /\ w.form = "url"
  /\ \/ Lower(w.scheme) = "tg" /\ Lower(w.host) \in {"webproxy", "proxy", "socks"}
     \/ /\ Lower(w.scheme) \in {"http", "https"}
        /\ Lower(w.host) \in {"t.me", "telegram.me"}
        /\ Lower(w.path) \in {"webproxy", "proxy", "socks"}
     \/ Lower(w.scheme) = "socks5"

(* Punctuation around a link belongs to the sentence it stands in; it      *)
(* would be taken from the last parameter.  Entities are replaced up to    *)
(* three times over.                                                       *)
Cleaned(u) ==
  LET q == u.query
  IN  [u EXCEPT !.query =
                  IF q.pass # Absent THEN [q EXCEPT !.pass = Undotted(@)]
                  ELSE IF q.user # Absent THEN [q EXCEPT !.user = Undotted(@)]
                  ELSE IF q.secret # Absent THEN [q EXCEPT !.secret = Undotted(@)] ELSE q,
                !.escapes = IF @ > 3 THEN @ - 3 ELSE 0]

(* A pair of host and port counts only if it has the line to itself.       *)
Extracted(line) ==
  LET found == Only(line.words, {w \in ToSet(line.words) : IsLink(w)})
      first == line.words[1]
  IN  IF line.comment THEN <<>>
      ELSE IF found # <<>> THEN [i \in DOMAIN found |-> Cleaned(found[i])]
      ELSE IF Len(line.words) = 1 /\ first.form = "hostport" /\ PlainHost(first.host)
           THEN line.words ELSE <<>>

Extract(lines) == FlattenSeq([i \in DOMAIN lines |-> Extracted(lines[i])])

-----------------------------------------------------------------------------
(* Duplicates *)

(* The key Dedup files a link under; a link that does not parse is its own. *)
DedupKey(w) == IF Parses(w) THEN Key(Parse(w)) ELSE <<w>>

KeysOf(ws) == {DedupKey(w) : w \in ToSet(ws)}

DedupMut(ws) ==
  At(ws, {i \in DOMAIN ws : i = 1 \/ DedupKey(ws[i - 1]) # DedupKey(ws[i])})

(* Of the links filed under one key the first stays.                       *)
Dedup(ws) ==
  At(ws, {i \in DOMAIN ws : \A j \in 1..(i - 1) : DedupKey(ws[j]) # DedupKey(ws[i])})
=============================================================================
