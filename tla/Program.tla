------------------------------ MODULE Program ------------------------------
(***************************************************************************)
(* The program around a batch: internal/input collects the links, removes  *)
(* duplicates, internal/filter drops the unwanted ones, checker.Run        *)
(* reports on the rest, and main sorts, selects, prints and saves what     *)
(* came back and chooses the exit code.  A step is one stage of            *)
(* cmd/mtproto-checker/main.go; Run is taken from what BatchCheck          *)
(* promises: one result per link in the order of the links, some of them   *)
(* still the zero value if the user interrupted it.                        *)
(****************************************************************************)
EXTENDS ProxyLink

CONSTANTS Inputs,    \* the lists of sources a user may give, arguments first
          Settings,  \* the settings of a run
          Reports,   \* what a finished check may say of a link that parses
          Held,      \* what a file holds before the run
          Torn       \* what it holds when writing broke off

VARIABLES cfg,        \* the settings
          sources,    \* the sources still to read
          collected,  \* the lines taken from the sources already read
          links,      \* the links to check
          results,    \* what Run returned, then what spec.Results left
          shown,      \* the results to show
          saves,      \* the files still to write
          files,      \* what each file holds
          pc,         \* the stage main.run is in
          exit        \* the exit code

vars == <<cfg, sources, collected, links, results, shown, saves, files, pc, exit>>

-----------------------------------------------------------------------------
(* Links *)

LinesOf(s) == IF s.from = "args" THEN s.lines ELSE Extract(s.lines)

(* What a user gives: links as arguments, lines of words in files.         *)
ASSUME InputsAssumption ==
  \A given \in Inputs :
    /\ given \in Seq(ToSet(given))
    /\ \A s \in ToSet(given) :
         /\ s.lines \in Seq(ToSet(s.lines))
         /\ \A l \in ToSet(s.lines) :
              IF s.from = "args" THEN WellFormed(l)
              ELSE l.words \in Seq(ToSet(l.words)) /\ \A w \in ToSet(l.words) : WellFormed(w)

AllLinks == UNION {UNION {ToSet(LinesOf(s)) : s \in ToSet(given)} : given \in Inputs}

(* A secret is hexadecimal or base64, in which there is no punctuation.    *)
ASSUME SecretsAssumption ==
  \A l \in AllLinks : HasSecret(Parse(l).kind) => Undotted(Parse(l).secret) = Parse(l).secret

ASSUME SettingsAssumption ==
  \A c \in Settings :
    /\ c.top \in Int
    /\ c.saves \in Seq(ToSet(c.saves))
    /\ \A f \in ToSet(c.saves) : f.what \in {"shown", "live", "dead"}

ASSUME ReportsAssumption == \A r \in Reports : r.latency \in Nat

(* A listed link excludes its key and its host, any other line is a host;  *)
(* nothing is trimmed but white space, and only "#" begins a comment.      *)
LoadExclusions(words) ==
  LET parsed == {Parse(w) : w \in {x \in ToSet(words) : Parses(x)}}
      others == {w \in ToSet(words) : w.form = "other"}
  IN  [keys |-> {Key(t) : t \in parsed},
       hosts |-> {Lower(t.host) : t \in parsed} \cup {Lower(w.text) : w \in others}]

(* modeOf: the kind of proxy --mode selects by.                            *)
ModeOf(t) == IF t.kind = "mtproto" THEN Mode(t) ELSE t.kind

Kept(w, c) ==
  LET exclude == LoadExclusions(c.exclude)
      t == Parse(w)
  IN  \/ ~Parses(w)
      \/ /\ Key(t) \notin exclude.keys
         /\ Lower(t.host) \notin exclude.hosts
         /\ c.ports # {} => t.port \in c.ports
         /\ c.modes # {} => ModeOf(t) \in c.modes

Links(ls, c) == Only(ls, {l \in ToSet(ls) : Kept(l, c)})

-----------------------------------------------------------------------------
(* Results *)

Live(r) == r.status = "live"

PrecedesMut(rs, i, j) ==
  rs[i].latency < rs[j].latency \/ (rs[i].latency = rs[j].latency /\ i < j)

(* SortByLatency: live results first, by latency; otherwise as they were.  *)
Precedes(rs, i, j) ==
  LET less(a, b) == Live(rs[a]) /\ (~Live(rs[b]) \/ rs[a].latency < rs[b].latency)
  IN  less(i, j) \/ (~less(j, i) /\ i < j)

SortByLatency(rs) ==
  Arrange(rs, DOMAIN rs, {ij \in (DOMAIN rs) \X (DOMAIN rs) : Precedes(rs, ij[1], ij[2])})

InCountries(rs, c) ==
  IF c.countries = {} THEN rs
  ELSE Only(rs, {r \in ToSet(rs) : r.country \in c.countries})

Top(rs, n) == IF n > 0 /\ Len(rs) > n THEN SubSeq(rs, 1, n) ELSE rs

Arranged(rs, c) == InCountries(IF c.sort THEN SortByLatency(rs) ELSE rs, c)

Alive(rs) == Only(rs, {r \in ToSet(rs) : Live(r)})

Selected(rs, c) == Top(IF c.aliveOnly THEN Alive(rs) ELSE rs, c.top)

(* The zero Result of a link Run never handed out.                         *)
NoLink == [form |-> "none"]

Zero == [link |-> NoLink, status |-> "unset", latency |-> 0, country |-> "none"]

Invalid(l) == [link |-> l, status |-> "invalid", latency |-> 0, country |-> "none"]

ResultsOf(l) ==
  IF Parses(l)
  THEN {[link |-> l, status |-> r.status, latency |-> r.latency, country |-> r.country]
          : r \in Reports}
  ELSE {Invalid(l)}

Chosen(what) ==
  CASE what = "shown" -> shown
    [] what = "live"  -> Alive(results)
    [] what = "dead"  -> Only(results, {r \in ToSet(results) : ~Live(r)})

(* report.Links: a line for every result that knows its canonical link.    *)
LinkLines(rs) ==
  LET known == Only(rs, {r \in ToSet(rs) : r # Zero /\ Parses(r.link)})
  IN  [i \in DOMAIN known |-> [comment |-> FALSE, words |-> <<Canonical(Parse(known[i].link))>>]]

(* What --out and each --save flag writes: JSON or CSV with all that is    *)
(* known of a result, or links alone.                                      *)
Content(save) == IF save.format = "links" THEN LinkLines(Chosen(save.what)) ELSE Chosen(save.what)

Paths == UNION {{f.path : f \in ToSet(c.saves)} : c \in Settings}

Init ==
  /\ cfg \in Settings
  /\ sources \in Inputs
  /\ collected = <<>> /\ links = <<>> /\ results = <<>> /\ shown = <<>>
  /\ saves = cfg.saves
  /\ files = [p \in Paths |-> Held]
  /\ pc = "collect"
  /\ exit = "none"

Quit(code) == pc' = "end" /\ exit' = code

GoTo(stage) == pc' = stage /\ UNCHANGED exit

ReadSource ==
  /\ pc = "collect" /\ sources # <<>>
  /\ collected' = collected \o LinesOf(Head(sources))
  /\ sources' = Tail(sources)
  /\ GoTo("collect")
  /\ UNCHANGED <<cfg, links, results, shown, saves, files>>

(* A file that cannot be opened or read, a URL that does not answer 200.   *)
SourceFails ==
  /\ pc = "collect" /\ sources # <<>>
  /\ Head(sources).from # "args"
  /\ Quit("2")
  /\ UNCHANGED <<cfg, sources, collected, links, results, shown, saves, files>>

Collected ==
  /\ pc = "collect" /\ sources = <<>>
  /\ links' = Dedup(collected)
  /\ IF links' = <<>> THEN Quit("2") ELSE GoTo("filter")
  /\ UNCHANGED <<cfg, sources, collected, results, shown, saves, files>>

ApplyFilter ==
  /\ pc = "filter"
  /\ links' = Links(links, cfg)
  /\ IF links' = <<>> THEN Quit("2") ELSE GoTo("check")
  /\ UNCHANGED <<cfg, sources, collected, results, shown, saves, files>>

(* buildFilter: an unreadable exclusion file or a port that is no number.  *)
FilterFails ==
  /\ pc = "filter"
  /\ Quit("2")
  /\ UNCHANGED <<cfg, sources, collected, links, results, shown, saves, files>>

Run ==
  /\ pc = "check"
  /\ results' \in {rs \in [DOMAIN links -> (UNION {ResultsOf(l) : l \in ToSet(links)}) \cup {Zero}] :
                     \A i \in DOMAIN links : rs[i] \in ResultsOf(links[i]) \cup {Zero}}
  /\ GoTo("select")
  /\ UNCHANGED <<cfg, sources, collected, links, shown, saves, files>>

Select ==
  /\ pc = "select"
  /\ results' = Arranged(results, cfg)
  /\ shown' = Selected(results', cfg)
  /\ GoTo("emit")
  /\ UNCHANGED <<cfg, sources, collected, links, saves, files>>

Emit ==
  /\ pc = "emit"
  /\ GoTo("save")
  /\ UNCHANGED <<cfg, sources, collected, links, results, shown, saves, files>>

(* An unknown --format, or standard output is gone.                        *)
EmitFails ==
  /\ pc = "emit"
  /\ Quit("2")
  /\ UNCHANGED <<cfg, sources, collected, links, results, shown, saves, files>>

Save ==
  /\ pc = "save" /\ saves # <<>>
  /\ files' = [files EXCEPT ![Head(saves).path] = Content(Head(saves))]
  /\ saves' = Tail(saves)
  /\ GoTo("save")
  /\ UNCHANGED <<cfg, sources, collected, links, results, shown>>

SaveFailsMutSwallow ==
  /\ pc = "save" /\ saves # <<>>
  /\ files' = [files EXCEPT ![Head(saves).path] = Torn]
  /\ saves' = Tail(saves)
  /\ GoTo("save")
  /\ UNCHANGED <<cfg, sources, collected, links, results, shown>>

SaveFailsMutGoOn ==
  /\ pc = "save" /\ saves # <<>>
  /\ files' = [p \in Paths |->
                 IF \E f \in ToSet(Tail(saves)) : f.path = p THEN Alive(results)
                 ELSE files[p]]
  /\ Quit("2")
  /\ UNCHANGED <<cfg, sources, collected, links, results, shown, saves>>

(* ToFile creates the file, which empties it, before it writes: a failure  *)
(* leaves what was there or a torn file, and ends the run.                 *)
SaveFails ==
  /\ pc = "save" /\ saves # <<>>
  /\ \E left \in {files[Head(saves).path], Torn} :
       files' = [files EXCEPT ![Head(saves).path] = left]
  /\ Quit("2")
  /\ UNCHANGED <<cfg, sources, collected, links, results, shown, saves>>

Finish ==
  /\ pc = "save" /\ saves = <<>>
  /\ Quit(IF \E r \in ToSet(results) : Live(r) THEN "0" ELSE "1")
  /\ UNCHANGED <<cfg, sources, collected, links, results, shown, saves, files>>

Next == \/ ReadSource \/ SourceFails \/ Collected
        \/ ApplyFilter \/ FilterFails
        \/ Run \/ Select \/ Emit \/ EmitFails
        \/ Save \/ SaveFails \/ Finish

Spec == Init /\ [][Next]_vars
-----------------------------------------------------------------------------
(* Properties *)

Filtered == pc \in {"check", "select", "emit", "save"}

Arrived == pc \in {"emit", "save"} \/ exit \in {"0", "1"}

First(l) == collected[CHOOSE i \in DOMAIN collected :
                        /\ DedupKey(collected[i]) = DedupKey(l)
                        /\ \A j \in 1..(i - 1) : DedupKey(collected[j]) # DedupKey(l)]

(* Every proxy found in the sources is checked exactly once, in the        *)
(* spelling that came first, unless the user's filters reject that one:    *)
(* Dedup and Spec.Links together lose no proxy and check none twice.       *)
OncePerProxy ==
  Filtered => \A l \in ToSet(collected) :
    LET mine == {i \in DOMAIN links : DedupKey(links[i]) = DedupKey(l)}
    IN  IF Kept(First(l), cfg) THEN \E i \in mine : mine = {i} /\ links[i] = First(l)
                               ELSE mine = {}

(* Sorting and selecting neither lose, repeat nor reassign a result: each  *)
(* link has its own, interrupted links have the zero value, and only a     *)
(* country filter makes the list shorter.  And with --sort, --top shows    *)
(* the best: no live result that is left out is faster than one shown, and *)
(* nothing dead is shown while a live one is left out.                     *)
ShownIsRight ==
  Arrived =>
    /\ \A i \in DOMAIN results : results[i] # Zero => results[i].link \in ToSet(links)
    /\ \A i, j \in DOMAIN results :
         results[i].link = results[j].link /\ results[i] # Zero => i = j
    /\ cfg.countries = {} => Len(results) = Len(links)
    /\ cfg.sort => \A r \in ToSet(results) \ ToSet(shown), s \in ToSet(shown) :
                     Live(r) => Live(s) /\ s.latency <= r.latency

LastSave(p) == CHOOSE i \in DOMAIN cfg.saves :
                 /\ cfg.saves[i].path = p
                 /\ \A j \in DOMAIN cfg.saves : cfg.saves[j].path = p => j <= i

SavedPaths == {f.path : f \in ToSet(cfg.saves)}

(* Exit codes 0 and 1 promise that every file asked for was written whole, *)
(* and tell whether a live proxy passed the filters.                       *)
ExitHonest ==
  exit \in {"0", "1"} =>
    /\ \A p \in SavedPaths : files[p] = Content(cfg.saves[LastSave(p)])
    /\ exit = "0" <=> \E r \in ToSet(results) : Live(r)

(* A run that fails while saving has touched no file after the one that    *)
(* failed, and one that fails before has touched none.                     *)
FailureStopsSaves ==
  exit = "2" =>
    LET written == Len(cfg.saves) - Len(saves)
    IN  \A p \in Paths : (\A i \in 1..(written + 1) :
                            i \in DOMAIN cfg.saves => cfg.saves[i].path # p)
                         => files[p] = Held

(* A proxy whose canonical link says all there is to know of it: a WEB     *)
(* proxy's has no port, only a SOCKS5 proxy's has an account, which must   *)
(* not end in what Extract takes for punctuation, and a bare host and port *)
(* are recognised by their spelling.                                       *)
Carries(t) ==
  /\ t.kind = "webproxy" => t.port = 443
  /\ t.kind = "socks5" =>
       /\ t.secret = Absent
       /\ Undotted(t.pass) = t.pass
       /\ t.pass = Absent => Undotted(t.user) = t.user
  /\ t.kind # "socks5" => t.user = Absent /\ t.pass = Absent
  /\ t.kind = "tcp" => PlainHost(t.host)

Targets(rs) == {Parse(r.link) : r \in {x \in ToSet(rs) : x # Zero /\ Parses(x.link)}}

(* The proxies a later run checks that reads the file with --file.         *)
ReadBack(p) == {Parse(w) : w \in ToSet(Dedup(Extract(files[p])))}

(* What --save-links or --out live.txt writes, a later run reads back as   *)
(* the same proxies, secrets and accounts included: each one, unless one   *)
(* of its kind and host has a link that does not carry it, which may be    *)
(* taken for its own when duplicates are dropped.  And if every one has a  *)
(* faithful link, no others are read.                                      *)
SavedReadsBack ==
  exit \in {"0", "1"} =>
    \A p \in SavedPaths : cfg.saves[LastSave(p)].format = "links" =>
      LET saved    == Targets(Chosen(cfg.saves[LastSave(p)].what))
          faithful == {t \in saved : \A s \in saved :
                                      s.kind = t.kind /\ s.host = t.host => Carries(s)}
      IN  /\ faithful \subseteq ReadBack(p)
          /\ faithful = saved => ReadBack(p) = saved

-----------------------------------------------------------------------------
(* What the documents say and the code does otherwise *)

(* "deduplication of identical proxies" (README): of two different proxies *)
(* that pass the filters, both are checked.                                *)
DifferentProxiesChecked ==
  Filtered => \A l \in ToSet(collected) :
    Parses(l) /\ Kept(l, cfg) => \E k \in ToSet(links) : Parse(k) = Parse(l)

(* "skip links or hosts listed in a file" (--exclude): a link is skipped   *)
(* only if the file lists that link or its host.                           *)
OnlyListedSkipped ==
  Filtered /\ cfg.modes = {} /\ cfg.ports = {} => \A l \in ToSet(collected) :
    KeysOf(links) \cap {DedupKey(l)} = {} =>
      \E x \in ToSet(cfg.exclude) :
        IF Parses(x) THEN DedupKey(x) = DedupKey(l)
        ELSE Parses(l) /\ x.form = "other" /\ Lower(x.text) = Lower(Parse(l).host)

(* "write dead results as JSON to a file" (--save-dead): the file holds    *)
(* dead results only.                                                      *)
DeadFileHoldsDead ==
  exit \in {"0", "1"} =>
    \A p \in SavedPaths : cfg.saves[LastSave(p)].what = "dead" =>
      \A i \in DOMAIN files[p] : files[p][i].status = "dead"

(* "write live proxies as tg:// links to a file" (--save-links): reading   *)
(* the file again finds every live proxy.  It loses the port of a WEB      *)
(* proxy, the secret of a SOCKS5 link and a dot at the end of a password.  *)
NothingLostInSave ==
  exit \in {"0", "1"} =>
    \A p \in SavedPaths : cfg.saves[LastSave(p)].format = "links" =>
      Targets(Chosen(cfg.saves[LastSave(p)].what)) \subseteq ReadBack(p)
=============================================================================
