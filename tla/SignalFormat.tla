----------------------------- MODULE SignalFormat -----------------------------
(***************************************************************************)
(* The pure functions of 3gdetail.js: the colour of the signal bars, the   *)
(* connection time, the operator's name and the number of a network in a   *)
(* search link.  The ranges of a bar overlap; the last that applies wins.  *)
(***************************************************************************)
EXTENDS Integers, Sequences, FiniteSets, Lists

CONSTANTS
  Readings,     \* what the modem may report of a signal
  Seconds,      \* connection times
  Words,        \* words of operators' names: letters without regard to case, spelling, number
  LongestName,  \* how many words a name has at most
  Digits        \* the digits of the number of a network

\* Colours from worst to best.  "none" leaves the colour the bar had.
Grades == <<"red", "darkorange", "yellow", "lime">>
Grade(colour) == CHOOSE i \in 1..4 : Grades[i] = colour

\* The if statements in the order of the code, as <<from, to, colour>>.
Low == -200
High == 200
Ranges ==
  [csq  |-> <<<<20, 31, "lime">>, <<14, 19, "yellow">>, <<10, 13, "darkorange">>, <<1, 9, "red">>>>,
   rssi |-> <<<<-69, High, "lime">>, <<-85, -70, "yellow">>, <<-100, -86, "darkorange">>, <<Low, -101, "red">>>>,
   rsrp |-> <<<<-80, High, "lime">>, <<-90, -79, "yellow">>, <<-100, -89, "darkorange">>, <<Low, -101, "red">>>>,
   sinr |-> <<<<21, High, "lime">>, <<13, 20, "yellow">>, <<1, 12, "darkorange">>, <<Low, 0, "red">>>>,
   rsrq |-> <<<<-10, High, "lime">>, <<-15, -9, "yellow">>, <<-20, -14, "darkorange">>, <<Low, -21, "red">>>>]
Bars == DOMAIN Ranges
ASSUME ReadingsAssumption == Readings \subseteq (Low + 1)..(High - 1)

\* parseInt(v) || 0, then rssi and rsrp cut to their scale, rsrq after its width was computed.
Clamp(bar, n) ==
  CASE bar = "rssi" -> IF n > -50 THEN -50 ELSE IF n < -110 THEN -110 ELSE n
    [] bar = "rsrp" -> IF n > -50 THEN -50 ELSE IF n < -140 THEN -140 ELSE n
    [] bar = "rsrq" -> IF n > 0 THEN 0 ELSE n
    [] OTHER -> n

\* The last of the statements that applies.
Last(hits) == CHOOSE i \in hits : \A j \in hits : j <= i

\* The colour a bar gets that had the colour was.
Colour(bar, n, was) ==
  LET hits == {i \in 1..4 : Clamp(bar, n) >= Ranges[bar][i][1] /\ Clamp(bar, n) <= Ranges[bar][i][2]} IN
  IF hits = {} THEN was ELSE Ranges[bar][Last(hits)][3]

\* As if the lower end of the rsrq scale were given as a positive number.
WidthUnsigned(bar, n) == IF bar = "rsrq" THEN 115 - 5 * n ELSE n

\* The width of the bar in percent of its box, as the code rounds it.
Width(bar, n) ==
  CASE bar = "csq"  -> (100 * n) \div 31
    [] bar = "rssi" -> (100 * (Clamp(bar, n) + 110)) \div 60
    [] bar = "rsrp" -> (120 * (Clamp(bar, n) + 120)) \div 70
    [] bar = "sinr" -> (100 * (n + 21)) \div 61
    [] bar = "rsrq" -> 115 + 5 * n

\* formatDuration, as the sequence of <<count, unit>> it writes: a unit that is zero
\* is written only after a larger one.
Duration(sec) ==
  LET units == <<<<sec \div 86400, "d">>, <<(sec \div 3600) % 24, "h">>, <<(sec \div 60) % 60, "m">>, <<sec % 60, "s">>>>
      first == CHOOSE i \in 1..4 : (units[i][1] > 0 \/ i = 4) /\ \A j \in 1..(i - 1) : units[j][1] = 0
  IN SubSeq(units, first, 4)

\* checkOperatorName keeps the first of the words that differ only in case.  The keys
\* of an object come numbers first, from small to large; a word that is none has NaN.
NaN == -1
ASSUME WordsAssumption ==
  /\ LongestName \in Nat
  /\ \A w \in Words : w.number \in Nat \cup {NaN}
  /\ \A v, w \in Words : (v.number = w.number /\ w.number # NaN) \/ v.letters = w.letters =>
       v.letters = w.letters /\ v.number = w.number

Firsts(words) == {i \in DOMAIN words : \A j \in 1..(i - 1) : words[j].letters # words[i].letters}
Numbers(words) == {i \in Firsts(words) : words[i].number # NaN}
OperatorName(words) ==
  LET numbers == {words[i].number : i \in Numbers(words)}
      numbered == [k \in numbers |-> words[CHOOSE i \in Numbers(words) : words[i].number = k]]
  IN Picked(numbered, numbers) \o Picked(words, Firsts(words) \ Numbers(words))

\* The search for a cell at lteitaly: the network number without its leading zeros.
\* Numbers are sequences of digits, of two or three; others are left alone.
CutMnc(mnc) ==
  IF Len(mnc) = 3
    THEN IF mnc[1] = 0 /\ mnc[2] = 0 THEN <<mnc[3]>> ELSE IF mnc[1] = 0 THEN Tail(mnc) ELSE mnc
  ELSE IF Len(mnc) = 2 /\ mnc[1] = 0 THEN Tail(mnc) ELSE mnc

-----------------------------------------------------------------------------
(* One sample at a time.                                                   *)

ASSUME SamplesAssumption == Seconds \subseteq Nat /\ Digits \subseteq 0..9

VARIABLES kind, value, other            \* what is formatted

formatVars == <<kind, value, other>>
FormatInit ==
  \/ kind \in Bars /\ value \in Readings /\ other \in Readings /\ value < other
     /\ (kind = "csq" => value >= 1 /\ other <= 31)
  \/ kind = "time" /\ value \in Seconds /\ other = 0
  \/ kind = "name" /\ value \in Seqs!SeqOf(Words, LongestName) /\ other = 0
  \/ kind = "mnc" /\ value \in Seqs!SeqOf(Digits, 3) /\ value # <<>> /\ other = 0

\* The value of up to three digits, and of up to four numbers of units.
DecimalOf(d) ==
  LET worth(i, power) == IF i \in DOMAIN d THEN d[i] * power ELSE 0
  IN  worth(Len(d), 1) + worth(Len(d) - 1, 10) + worth(Len(d) - 2, 100)
SecondsOf(u) == CASE u = "d" -> 86400 [] u = "h" -> 3600 [] u = "m" -> 60 [] u = "s" -> 1
TimeOf(d) ==
  LET worth(i) == IF i \in DOMAIN d THEN d[i][1] * SecondsOf(d[i][2]) ELSE 0
  IN  worth(1) + worth(2) + worth(3) + worth(4)

-----------------------------------------------------------------------------
(* Properties.                                                             *)

\* A stronger signal never gets a worse colour or a shorter bar, although the
\* ranges of the colours overlap and the scales are cut at different places.
StrongerLooksStronger ==
  kind \in Bars =>
    /\ Grade(Colour(kind, value, "red")) <= Grade(Colour(kind, other, "red"))
    /\ Width(kind, value) <= Width(kind, other)

\* The time written adds up to the seconds of the connection, each unit stays
\* below the next larger one, and it does not begin with a zero.
DurationIsTime ==
  kind = "time" =>
    LET d == Duration(value) IN
    /\ Len(d) <= 4 /\ TimeOf(d) = value
    /\ \A i \in 2..Len(d) : d[i][1] * SecondsOf(d[i][2]) < SecondsOf(d[i - 1][2])
    /\ Len(d) > 1 => d[1][1] > 0

\* The name keeps every word once, in the spelling that came first: the numbers from
\* small to large, then the others in their order.
NameKeepsWords ==
  kind = "name" =>
    LET name == OperatorName(value) IN
    /\ \A i \in DOMAIN value : \E n \in DOMAIN name : name[n].letters = value[i].letters
    /\ \A n \in DOMAIN name : \E i \in Firsts(value) : name[n] = value[i]
    /\ \A m, n \in DOMAIN name : m < n =>
         /\ name[m].letters # name[n].letters
         /\ name[n].number # NaN => name[m].number \in 0..(name[n].number - 1)
         /\ name[m].number = NaN => \E i, j \in Firsts(value) : i < j /\ name[m] = value[i] /\ name[n] = value[j]

\* The number of a network keeps its value when it loses its zeros, and loses all
\* of them it can.
MncKeepsValue ==
  kind = "mnc" =>
    /\ DecimalOf(CutMnc(value)) = DecimalOf(value)
    /\ Len(value) \in {2, 3} /\ Len(CutMnc(value)) > 1 => CutMnc(value)[1] # 0

\* What is written or drawn means what was measured.
FormatsKeepMeaning == StrongerLooksStronger /\ DurationIsTime /\ NameKeepsWords /\ MncKeepsValue
=============================================================================
