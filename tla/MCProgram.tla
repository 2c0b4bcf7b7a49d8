----------------------------- MODULE MCProgram -----------------------------
EXTENDS Program, Report

(* The few spellings the links below use, by what they look like.          *)
MCLower(s) == CASE s = "S" -> "s" [] s = "B" -> "b" [] s = "H1" -> "h1" [] OTHER -> s

MCUndotted(s) == IF s = "p." THEN "p" ELSE s

MCDecoded(s) ==
  CASE s \in {"S", "s"} -> [len |-> 17, first |-> 221]
    [] s = "t"          -> [len |-> 28, first |-> 238]
    [] s \in {"B", "b"} -> [len |-> 16, first |-> 238]
    [] OTHER            -> [len |-> 4, first |-> 0]

MCPlainHost(h) == h # "zoned"

Ask(topic, server, port, secret, user, pass) ==
  TgLink(topic, [server |-> server, port |-> port, secret |-> secret,
                 user |-> user, pass |-> pass])

(* a, its spelling as a https://t.me link in HTML, and as a link on        *)
(* another host; two accounts of one SOCKS5 server that differ in the      *)
(* password, one that has no room in a tg:// link; two base64 secrets that *)
(* differ in the case of a letter; WEB proxies on the standard and on      *)
(* another port, with one secret or two of those; bare addresses; links    *)
(* with a broken secret or port.                                           *)
A      == Ask("proxy", "h1", 443, "s", "", "")
Again  == [Ask("proxy", "h1", 443, "S", "", "") EXCEPT
             !.scheme = "https", !.host = "t.me", !.path = "proxy", !.escapes = 2]
Other  == Ask("proxy", "H1", 8443, "t", "", "")
Socks1 == Ask("socks", "h2", 1080, "", "u", "p")
Socks2 == [form |-> "url", scheme |-> "socks5", host |-> "h2", port |-> 1080,
           account |-> <<"u", "q">>, path |-> "", query |-> NoQuery, escapes |-> 0]
Dotted == Ask("socks", "h3", 1080, "", "v", "p.")
Keyed  == Ask("socks", "h3", 1081, "s", "", "")
Base1  == Ask("proxy", "h3", 443, "B", "", "")
Base2  == Ask("proxy", "h3", 443, "b", "", "")
Web    == Ask("webproxy", "h4", NoPort, "s", "", "")
WebAlt == Ask("webproxy", "h4", 8443, "s", "", "")
WebB   == Ask("webproxy", "h4", 8443, "B", "", "")
Webb   == Ask("webproxy", "h4", NoPort, "b", "", "")
Lost   == Ask("webproxy", "", NoPort, "t", "", "")
Bare   == [form |-> "hostport", host |-> "h5", port |-> 80]
Zoned  == [form |-> "hostport", host |-> "zoned", port |-> 80]
Broken == Ask("proxy", "h1", 443, "bad", "", "")
NoSuch == Ask("proxy", "h1", 70000, "s", "", "")
Word   == [form |-> "other", text |-> "word"]
Host2  == [form |-> "other", text |-> "h2"]

Line(words) == [comment |-> FALSE, words |-> words]
Hidden(words) == [comment |-> TRUE, words |-> words]

From(kind, lines) == [from |-> kind, lines |-> lines]

MCInputs == {<<From("args", <<A, Zoned>>), From("file", <<Line(<<Word, Again, Bare>>), Line(<<Other>>)>>)>>,
             <<From("file", <<Line(<<Socks1, Broken>>), Line(<<Socks2>>)>>),
               From("url", <<Hidden(<<Web>>), Line(<<Again>>), Line(<<Word, Socks1>>)>>)>>,
             <<From("file", <<Line(<<Base1, Base2>>), Line(<<Lost>>)>>)>>,
             <<From("args", <<Dotted>>), From("file", <<Line(<<Dotted>>), Line(<<Keyed>>)>>)>>,
             <<From("stdin", <<Line(<<WebAlt, Web>>), Line(<<Bare>>)>>)>>,
             <<From("args", <<WebB, Webb, A>>)>>,
             <<From("file", <<Line(<<Word>>), Line(<<Bare, Word>>), Line(<<Zoned>>)>>)>>,
             <<From("args", <<NoSuch>>)>>}

File(path, what, format) == [path |-> path, what |-> what, format |-> format]

MCSaves == {<<File("f1", "shown", "links")>>,
            <<File("f1", "shown", "full"), File("f2", "live", "full"),
              File("f3", "dead", "full"), File("f4", "live", "links")>>,
            <<File("f1", "dead", "full"), File("f1", "live", "links")>>}

MCSettings ==
  [exclude : {<<>>, <<Host2>>}, modes : {{}, {"secure", "socks5"}}, ports : {{}},
   countries : {{}, {"nl"}}, sort : BOOLEAN, aliveOnly : BOOLEAN, top : {0, 1},
   saves : MCSaves]
  \cup
  [exclude : {<<>>, <<A, Word>>}, modes : {{}}, ports : {{}, {443, 1080}},
   countries : {{}}, sort : {TRUE}, aliveOnly : {FALSE}, top : {0, 1},
   saves : {<<>>, <<File("f1", "live", "links")>>}]

MCReports == {[status |-> "live", latency |-> 1, country |-> "none"],
              [status |-> "live", latency |-> 2, country |-> "nl"],
              [status |-> "dead", latency |-> 0, country |-> "nl"]}

-----------------------------------------------------------------------------
(* The report *)

Measured ==
  {m \in [ping : {0, 100, 101, 999, 1000}, respq : {0, 60, 1100}, total : {2000},
          jitter : {0, 5, 300}, loss : {0, 33, 100}, attempts : 1..3, successes : 1..3] :
     m.successes <= m.attempts}

(* A proxy that is no faster, no steadier, loses no less and failed no     *)
(* fewer of as many attempts than another has no better score, and no A    *)
(* if the other has none.                                                  *)
ASSUME RatingIsMonotone ==
  \A m, n \in Measured :
    /\ LatencyOf(m) <= LatencyOf(n) /\ m.jitter <= n.jitter /\ m.loss <= n.loss
    /\ m.attempts = n.attempts /\ m.successes >= n.successes
    => Score(m) \in Score(n)..100 /\ (Grade(Score(n)) = "A" => Grade(Score(m)) = "A")

Rated == UNION {[1..k -> [live : BOOLEAN, score : {10, 60}, latency : {1, 2}]] : k \in 0..3}

(* The best is live if anything is, and no live result beats it.           *)
ASSUME BestIsBest ==
  \A rs \in Rated :
    IF \E r \in ToSet(rs) : r.live
    THEN BestOf(rs) \in {r \in ToSet(rs) : r.live /\ \A s \in ToSet(rs) : s.live => ~Beats(s, r)}
    ELSE BestOf(rs) = None

Grouped == UNION {[1..k -> [label : {"", "nl", "de", "us"}, live : BOOLEAN]] : k \in 0..5}

(* Every labelled result is counted in one group; and of the groups the    *)
(* limit hides, none has more live results than one that is shown.         *)
ASSUME GroupsCount ==
  \A rs \in Grouped :
    /\ MapThenSumSet(LAMBDA g : g.total, Groups(rs)) = Len(Labelled(rs))
    /\ \A gs \in Breakdown(rs, 2) :
         \A g \in ToSet(gs), h \in Groups(rs) \ ToSet(gs) : h.live <= g.live
=============================================================================
