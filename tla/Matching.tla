------------------------------ MODULE Matching ------------------------------
(***************************************************************************)
(* The regex machine, which is fed one character at a time, and the        *)
(* functions that match, search, replace and scan with it.  Positions are  *)
(* those of Lisp, from 0; Nil is no match.                                 *)
(***************************************************************************)
EXTENDS Derivatives, Nfa

CONSTANTS
  Missing,   \* an argument that is not given
  Nil        \* no match, or the end of the input

-----------------------------------------------------------------------------
(* regex_compile, and regex_run, which only searches from the end use.     *)

RegexCompile(source) ==
  LET e == Compiled(source) IN
  IF RequiresDv(e) THEN [kind |-> "dv", dv |-> CompileSets(e)]
  ELSE [kind |-> "nfa", nfa |-> Compile(e)]

Broken(r) == r.kind = "nfa" /\ r.nfa = Crash

RegexRun(r, s) == IF r.kind = "dv" THEN DvRun(r.dv, s) ELSE NfaRun(r.nfa, s)

-----------------------------------------------------------------------------
(* The machine.  What it reports of a character: "fail", there is no way   *)
(* on; "incomplete"; "match"; "done", a match and no way on.               *)

Machine(r, state, count, last, result) ==
  [regex |-> r, state |-> state, count |-> count, last |-> last, result |-> result]

\* regex_machine_reset
Reset(r) ==
  LET m == Closure(r.nfa) IN
  CASE r.kind = "dv" -> Machine(r, r.dv, 0, IF Nullable(r.dv) THEN 0 ELSE -1, "incomplete")
    [] r.kind = "nfa" /\ r.nfa.start = 0 -> Machine(r, <<>>, 0, -1, "incomplete")
    [] r.kind = "nfa" /\ r.nfa.start # 0 -> Machine(r, m.set, 0, IF m.accept THEN 0 ELSE -1, "incomplete")

\* regex_machine_infer_init_state
Initial(m) == IF m.state = (IF m.regex.kind = "nfa" THEN <<>> ELSE NoString)
              THEN "fail" ELSE "incomplete"

\* regex_machine_feed
Reported(m, state, accept, more, dead) ==
  Machine(m.regex, state, m.count + 1, IF accept THEN m.count + 1 ELSE m.last,
          IF accept THEN (IF more THEN "match" ELSE "done")
          ELSE IF dead THEN "fail" ELSE "incomplete")

FeedDv(m, d) == Reported(m, d, Nullable(d), d # Empty, d = NoString)
FeedNfa(m, c) ==
  IF c = Crash THEN [m EXCEPT !.result = "crash"]
  ELSE Reported(m, c.set, c.accept, c.more, c.set = <<>>)

Feed(m, ch) ==
  IF m.regex.kind = "dv" THEN FeedDv(m, Derivative(m.state, ch))
  ELSE FeedNfa(m, MoveClosure(m.regex.nfa, m.state, ch))

\* ... with the null character: is what was consumed a match, or some of it?
Sealed(m) == IF m.last = m.count THEN "match" ELSE IF m.last = -1 THEN "fail" ELSE "incomplete"

\* Characters of s from position i up to end are fed until the machine stops.
RECURSIVE FeedFrom(_, _, _, _)
FeedFrom(m, s, i, end) ==
  IF i >= end \/ m.result \in {"fail", "done", "crash"} THEN m
  ELSE FeedFrom(Feed(m, s[i + 1]), s, i + 1, end)

Run(s, r, pos, end) == FeedFrom(Reset(r), s, pos, end)

\* What a match function makes of the machine when it has stopped.
Verdict(m) == IF m.result \in {"done", "crash"} THEN m.result ELSE Sealed(m)

-----------------------------------------------------------------------------
(* Matching at a position.                                                 *)

Matched(m, pos) ==
  CASE Verdict(m) = "crash" -> Crash
    [] Verdict(m) = "fail"  -> Nil
    [] OTHER -> pos + m.last

MatchRegex(s, r, from) ==
  LET pos == IF from = Missing THEN 0 ELSE IF from < 0 THEN from + Len(s) ELSE from IN
  IF pos < 0 \/ pos > Len(s) THEN Nil ELSE Matched(Run(s, r, pos, Len(s)), pos)

\* The Lisp function match-regex: the position given is taken from the new one.
Since(new, from) == IF from = Missing \/ new \in {Nil, Crash} THEN new ELSE new - from
MatchRegexLen(s, r, from) == Since(MatchRegex(s, r, from), from)

\* match_regex_right: the first position from which a match ends at end.
EndsAt(m, pos, end) == Verdict(m) = "match" \/ (Verdict(m) = "done" /\ pos + m.count >= end)

MatchRegexRight(s, r, limit) ==
  LET end  == IF limit = Missing THEN Len(s) ELSE IF limit < 0 THEN limit + Len(s) ELSE limit
      from == {pos \in 0..end : EndsAt(Run(s, r, pos, end), pos, end)}
  IN  IF end < 0 \/ end > Len(s) \/ from = {} THEN Nil ELSE end - Min(from)

\* regex_prefix_match: whether the machine has not failed.
RegexPrefixMatch(r, s) ==
  IF s = <<>> THEN Initial(Reset(r)) # "fail" ELSE Run(s, r, 0, Len(s)).result # "fail"

-----------------------------------------------------------------------------
(* Searching.  The machine is put back when it fails, one position on; a   *)
(* search that runs into the end of the string stops there.                *)

Hit(pos, len) == <<pos, len>>

RECURSIVE SearchAt(_, _, _)
RECURSIVE SearchOn(_, _, _, _)
SearchOn(m, s, r, pos) ==
  IF m.result = "crash" THEN Crash
  ELSE IF m.result = "fail" /\ Sealed(m) = "fail" THEN SearchAt(s, r, pos + 1)
  ELSE IF Verdict(m) = "fail" THEN Nil
  ELSE Hit(pos, m.last)
SearchAt(s, r, pos) == SearchOn(Run(s, r, pos, Len(s)), s, r, pos)

SearchBack(s, r, start) ==
  LET run(i) == RegexRun(r, SubSeq(s, i + 1, Len(s)))
      hits   == {i \in start..(Len(s) - 1) : run(i) >= 0}
  IN  IF RegexRun(r, <<>>) >= 0 THEN Hit(Len(s), 0)
      ELSE IF hits = {} THEN Nil
      ELSE Hit(Max(hits), run(Max(hits)))

SearchRegex(s, r, from, fromEnd) ==
  LET start == IF from < 0 THEN Max({0, from + Len(s)}) ELSE from IN
  IF fromEnd THEN SearchBack(s, r, start)
  ELSE IF start > Len(s) THEN Nil
  ELSE SearchAt(s, r, start)

\* range_regex_all: every match from start on; the end is not looked at.
RECURSIVE RangesFrom(_, _, _)
RECURSIVE RangesOn(_, _, _, _)
RangesOn(hit, s, r, start) ==
  LET to == hit[1] + hit[2] IN
  IF hit = Nil THEN <<>>
  ELSE << <<hit[1], to>> >> \o RangesFrom(s, r, IF to = start THEN start + 1 ELSE to)
RangesFrom(s, r, start) == RangesOn(SearchRegex(s, r, start, FALSE), s, r, start)

RangeRegexAll(s, r, from) ==
  RangesFrom(s, r, IF from < 0 THEN Max({0, from - Len(s)}) ELSE from)

\* regsub, with the string repl in place of every match.
RECURSIVE RegsubFrom(_, _, _, _)
RECURSIVE RegsubOn(_, _, _, _, _)
RegsubOn(hit, s, r, pos, repl) ==
  LET stay == hit = Hit(pos, 0) /\ pos < Len(s)
      next == IF stay THEN pos + 1 ELSE hit[1] + hit[2]
      out  == SubSeq(s, pos + 1, hit[1]) \o repl
                \o (IF stay THEN SubSeq(s, pos + 1, pos + 1) ELSE <<>>)
  IN  IF hit = Nil THEN SubSeq(s, pos + 1, Len(s))
      ELSE out \o (IF next < Len(s) THEN RegsubFrom(s, r, next, repl) ELSE <<>>)
RegsubFrom(s, r, pos, repl) == RegsubOn(SearchRegex(s, r, pos, FALSE), s, r, pos, repl)

-----------------------------------------------------------------------------
(* scan_until_common, on a stream that holds s: what it collects before the*)
(* match, the match, and what it leaves in the stream.  mark is the length *)
(* of the longest match seen since the machine was put back.               *)

Scanned(out, match, rest) == [out |-> out, match |-> match, rest |-> rest]

RECURSIVE ScanFrom(_, _, _, _, _, _)
RECURSIVE ScanOn(_, _, _, _, _, _)
ScanOn(fed, r, s, pos, mark, out) ==
  LET i == pos + fed.count IN
  CASE fed.result = "crash" -> Crash
    [] fed.result = "fail" /\ mark > 0 ->
         Scanned(out, SubSeq(s, pos + 1, pos + mark), SubSeq(s, pos + mark + 1, Len(s)))
    [] fed.result = "fail" /\ mark = 0 ->
         ScanFrom(r, Reset(r), s, pos + 1, 0, Append(out, s[pos + 1]))
    [] fed.result = "done" -> Scanned(out, SubSeq(s, pos + 1, i), SubSeq(s, i + 1, Len(s)))
    [] fed.result = "match" -> ScanFrom(r, fed, s, pos, fed.count, out)
    [] fed.result = "incomplete" -> ScanFrom(r, fed, s, pos, mark, out)
ScanFrom(r, m, s, pos, mark, out) ==
  LET i == pos + m.count IN
  IF i < Len(s) THEN ScanOn(Feed(m, s[i + 1]), r, s, pos, mark, out)
  ELSE IF Sealed(m) = "match" THEN Scanned(out, SubSeq(s, pos + 1, i), <<>>)
  ELSE IF mark > 0
    THEN Scanned(out, SubSeq(s, pos + 1, pos + mark), SubSeq(s, pos + mark + 1, Len(s)))
  ELSE Scanned(out, Nil, <<>>)

ScanUntil(r, s) == ScanFrom(r, Reset(r), s, 0, 0, <<>>)
=============================================================================
