--------------------------- MODULE AtCommandProofs ---------------------------
(***************************************************************************)
(* Proofs about AtCommand for any number of commands, events and failures, *)
(* any room for the response and any chatty commands.                      *)
(***************************************************************************)
EXTENDS AtCommand, TLAPS

\* What the modem says, and what is thus in any buffer; a command under way has a number.
Spoken == {Answer(n)[k] : n \in Commands, k \in 1..3}
          \cup {[cmd |-> 0, kind |-> "urc", flag |-> b] : b \in BOOLEAN}

Buffers ==
    /\ tty \in Seq(Spoken) /\ chunk \in Seq(Spoken) /\ resp \in Seq(Spoken)
    /\ pending = <<>> => said = 0
    /\ main # "idle" => cmd \in Commands

\* The reader is about to match a line that ends a command, and when the wait is over
\* it has matched one.
Matches ==
    /\ reader = "match" => LooksFinal(Head(chunk))
    /\ main # "idle" /\ ~waiting => LooksFinal(matched)

InQuiet == quiet /\ main # "idle"

\* A command begun in quiet hears lines of its own and unsolicited ones only.
Own(line) == line.cmd \in {cmd, 0}
OwnLines ==
    InQuiet =>
        /\ \A x \in 1..Len(tty) : Own(tty[x])
        /\ \A x \in 1..Len(chunk) : Own(chunk[x])
        /\ pending = <<>> \/ (pending = <<cmd>> /\ main # "write")

\* How many lines of the answer have been said, and what was said since the command began.
SaidLines == IF main = "write" THEN 0 ELSE IF pending = <<>> THEN 3 ELSE said
Heard == (resp \o (IF reader = "append" THEN chunk ELSE <<>>)) \o tty

\* While it waits, and nothing was dropped, what was said is the beginning of its answer.
HeardIsAnswer == InQuiet /\ waiting /\ ~dropped => Amid(Heard, cmd, SaidLines)

\* The lines that are looked at have been appended.
LinesAppended ==
    InQuiet /\ waiting /\ ~dropped /\ reader \in {"lines", "match"} =>
        \A x \in 1..Len(chunk) : \E y \in 1..Len(resp) : resp[y] = chunk[x]

\* When the wait is over the response is what the caller will be told.
MatchIsOwn ==
    InQuiet /\ ~waiting =>
        /\ Own(matched)
        /\ matched.kind = "final" /\ ~dropped => Amid(resp, cmd, 3)

IInv ==
    /\ TypeOK /\ Buffers /\ Matches /\ OwnLines /\ HeardIsAnswer /\ LinesAppended /\ MatchIsOwn
    /\ QuietAnswerIsOwn /\ SuccessWasMatched
-----------------------------------------------------------------------------
(* Sequences of lines. *)

LEMMA SpokenIsLine == Spoken \subseteq Line
  <1>1. ASSUME NEW n \in Commands, NEW k \in 1..3 PROVE Answer(n)[k] \in Line
    <2>1. n \in 0..MaxCmds
      BY CommandAssumption DEF Commands
    <2>2. /\ Answer(n)[1] = [cmd |-> n, kind |-> "echo", flag |-> FALSE]
          /\ Answer(n)[2] = [cmd |-> n, kind |-> "data", flag |-> n \in Chatty]
          /\ Answer(n)[3] = [cmd |-> n, kind |-> "final", flag |-> TRUE]
      BY DEF Answer
    <2>3. k = 1 \/ k = 2 \/ k = 3
      OBVIOUS
    <2>4. \A kind \in {"echo", "data", "final"} : \A b \in BOOLEAN :
            [cmd |-> n, kind |-> kind, flag |-> b] \in Line
      BY <2>1 DEF Line
    <2>5. Answer(n)[2] \in Line
      <3>1. CASE n \in Chatty
        <4>1. Answer(n)[2] = [cmd |-> n, kind |-> "data", flag |-> TRUE]
          BY <2>2, <3>1
        <4> QED
          BY <2>4, <4>1
      <3>2. CASE n \notin Chatty
        <4>1. (n \in Chatty) = FALSE
          BY <3>2
        <4>2. Answer(n)[2] = [cmd |-> n, kind |-> "data", flag |-> FALSE]
          BY <2>2, <4>1, Zenon
        <4> QED
          BY <2>4, <4>2
      <3> QED
        BY <3>1, <3>2
    <2> QED
      BY <2>2, <2>3, <2>4, <2>5
  <1>2. ASSUME NEW b \in BOOLEAN PROVE [cmd |-> 0, kind |-> "urc", flag |-> b] \in Line
    BY CommandAssumption DEF Line
  <1> QED
    BY <1>1, <1>2 DEF Spoken

LEMMA AnswerSpoken ==
    ASSUME NEW n \in Commands, NEW k \in 1..3
    PROVE  Answer(n)[k] \in Spoken
  BY DEF Spoken

\* A line that ends the answer is the third, and lines of a command are no events.
LEMMA FinalLine ==
    ASSUME NEW n \in Commands, NEW k \in 1..3
    PROVE  /\ Answer(n)[k].cmd = n
           /\ Answer(n)[k].kind = "final" => k = 3
  BY DEF Answer

LEMMA EventLine ==
    ASSUME NEW line \in Spoken, line.cmd = 0
    PROVE  line.kind = "urc"
  BY CommandAssumption, FinalLine DEF Spoken, Commands

\* Nothing is the beginning of every answer.
LEMMA AmidNothing ==
    ASSUME NEW c \in Commands
    PROVE  Amid(<<>>, c, 0)
  <1>1. 1..0 = {} /\ Len(<<>>) = 0
    OBVIOUS
  <1>2. PICK pos : pos = [a \in {} |-> 0]
    OBVIOUS
  <1>3. pos \in [1..0 -> 1..Len(<<>>)]
    BY <1>1, <1>2
  <1> QED
    BY <1>1, <1>3 DEF Amid

\* An event does not disturb an answer.
LEMMA AmidEvent ==
    ASSUME NEW s \in Seq(Spoken), NEW c \in Commands, NEW n \in 0..3, Amid(s, c, n),
           NEW line \in Spoken, line.cmd = 0
    PROVE  Amid(Append(s, line), c, n)
  <1>1. PICK pos \in [1..n -> 1..Len(s)] :
          /\ \A a, b \in 1..n : a < b => pos[a] < pos[b]
          /\ \A a \in 1..n : s[pos[a]] = Answer(c)[a]
          /\ \A x \in 1..Len(s) : s[x].cmd = 0 \/ \E a \in 1..n : x = pos[a]
    BY DEF Amid
  <1> DEFINE t == Append(s, line)
  <1>2. /\ Len(t) = Len(s) + 1 /\ Len(s) \in Nat /\ t[Len(s) + 1] = line
        /\ \A x \in 1..Len(s) : t[x] = s[x]
    OBVIOUS
  <1> HIDE DEF t
  <1>3. pos \in [1..n -> 1..Len(t)]
    BY <1>2
  <1>4. \A a \in 1..n : t[pos[a]] = Answer(c)[a]
    BY <1>1, <1>2
  <1>5. \A x \in 1..Len(t) : t[x].cmd = 0 \/ \E a \in 1..n : x = pos[a]
    BY <1>1, <1>2
  <1>6. Amid(t, c, n)
    BY <1>1, <1>3, <1>4, <1>5 DEF Amid
  <1> QED
    BY <1>6 DEF t

\* The next line of an answer continues it.
LEMMA AmidNext ==
    ASSUME NEW s \in Seq(Spoken), NEW c \in Commands, NEW n \in 0..2, Amid(s, c, n)
    PROVE  Amid(Append(s, Answer(c)[n + 1]), c, n + 1)
  <1>1. PICK pos \in [1..n -> 1..Len(s)] :
          /\ \A a, b \in 1..n : a < b => pos[a] < pos[b]
          /\ \A a \in 1..n : s[pos[a]] = Answer(c)[a]
          /\ \A x \in 1..Len(s) : s[x].cmd = 0 \/ \E a \in 1..n : x = pos[a]
    BY DEF Amid
  <1> DEFINE t == Append(s, Answer(c)[n + 1])
             new == [a \in 1..(n + 1) |-> IF a = n + 1 THEN Len(s) + 1 ELSE pos[a]]
  <1>2. /\ Len(t) = Len(s) + 1 /\ Len(s) \in Nat /\ t[Len(s) + 1] = Answer(c)[n + 1]
        /\ \A x \in 1..Len(s) : t[x] = s[x]
    OBVIOUS
  <1> HIDE DEF t
  <1>3. /\ new[n + 1] = Len(s) + 1
        /\ \A a \in 1..n : new[a] = pos[a] /\ new[a] \in 1..Len(s)
    OBVIOUS
  <1>4. new \in [1..(n + 1) -> 1..Len(t)]
    BY <1>2
  <1> HIDE DEF new
  <1>5. \A a \in 1..(n + 1) : a = n + 1 \/ a \in 1..n
    OBVIOUS
  <1>6. \A a, b \in 1..(n + 1) : a < b => new[a] < new[b]
    BY <1>1, <1>2, <1>3, <1>5
  <1>7. \A a \in 1..(n + 1) : t[new[a]] = Answer(c)[a]
    BY <1>1, <1>2, <1>3, <1>5
  <1>8. ASSUME NEW x \in 1..Len(t) PROVE t[x].cmd = 0 \/ \E a \in 1..(n + 1) : x = new[a]
    <2>1. CASE x = Len(s) + 1
      BY <1>3, <2>1
    <2>2. CASE x # Len(s) + 1
      <3>1. x \in 1..Len(s)
        BY <1>2, <2>2
      <3>2. s[x].cmd = 0 \/ \E a \in 1..n : x = pos[a]
        BY <1>1, <3>1
      <3>3. \A a \in 1..n : a \in 1..(n + 1) /\ new[a] = pos[a]
        BY <1>3
      <3> QED
        BY <1>2, <3>1, <3>2, <3>3
    <2> QED
      BY <2>1, <2>2
  <1>9. Amid(t, c, n + 1)
    BY <1>4, <1>6, <1>7, <1>8 DEF Amid
  <1> QED
    BY <1>9 DEF t

\* If the last line of the answer is in the first part of s, the whole answer is.
LEMMA AmidPart ==
    ASSUME NEW s \in Seq(Spoken), NEW t \in Seq(Spoken), NEW c \in Commands, NEW n \in 0..3,
           Amid(s \o t, c, n), NEW y \in 1..Len(s), s[y].kind = "final"
    PROVE  Amid(s, c, 3)
  <1> DEFINE u == s \o t
  <1>1. /\ Len(s) \in Nat /\ Len(t) \in Nat /\ Len(u) = Len(s) + Len(t)
        /\ \A x \in 1..Len(s) : u[x] = s[x]
    OBVIOUS
  <1>2. Amid(u, c, n)
    OBVIOUS
  <1> HIDE DEF u
  <1>3. PICK pos \in [1..n -> 1..Len(u)] :
          /\ \A a, b \in 1..n : a < b => pos[a] < pos[b]
          /\ \A a \in 1..n : u[pos[a]] = Answer(c)[a]
          /\ \A x \in 1..Len(u) : u[x].cmd = 0 \/ \E a \in 1..n : x = pos[a]
    BY <1>2 DEF Amid
  <1>4. y \in 1..Len(u) /\ u[y] = s[y] /\ s[y] \in Spoken
    BY <1>1
  <1>5. u[y].cmd # 0
    BY <1>4, EventLine
  <1>6. PICK a \in 1..n : y = pos[a]
    BY <1>3, <1>4, <1>5
  <1>7. a \in 1..3 /\ Answer(c)[a].kind = "final"
    BY <1>3, <1>4, <1>6
  <1>8. a = 3 /\ n = 3
    BY <1>7, FinalLine
  <1>9. pos \in [1..3 -> 1..Len(s)]
    <2>1. \A b \in 1..3 : pos[b] <= y
      BY <1>3, <1>6, <1>8
    <2>2. \A b \in 1..3 : pos[b] \in 1..Len(s)
      BY <1>1, <1>3, <1>8, <2>1
    <2> QED
      BY <1>3, <1>8, <2>2
  <1>10. \A b \in 1..3 : s[pos[b]] = Answer(c)[b]
    BY <1>1, <1>3, <1>8, <1>9
  <1>11. \A x \in 1..Len(s) : s[x].cmd = 0 \/ \E b \in 1..3 : x = pos[b]
    <2>1. \A x \in 1..Len(s) : x \in 1..Len(u)
      BY <1>1
    <2> QED
      BY <1>1, <1>3, <1>8, <2>1
  <1> QED
    BY <1>3, <1>8, <1>9, <1>10, <1>11 DEF Amid

\* What read() returns and what it leaves are what was there.
LEMMA ReadSplits ==
    ASSUME NEW t \in Seq(Spoken), NEW k \in 1..Len(t)
    PROVE  /\ SubSeq(t, 1, k) \in Seq(Spoken) /\ SubSeq(t, k + 1, Len(t)) \in Seq(Spoken)
           /\ SubSeq(t, 1, k) \o SubSeq(t, k + 1, Len(t)) = t
           /\ SubSeq(t, 1, k) # <<>>
           /\ \A x \in 1..Len(SubSeq(t, 1, k)) : \E y \in 1..Len(t) : SubSeq(t, 1, k)[x] = t[y]
           /\ \A x \in 1..Len(SubSeq(t, k + 1, Len(t))) :
                \E y \in 1..Len(t) : SubSeq(t, k + 1, Len(t))[x] = t[y]
  OBVIOUS

\* A line is taken off the front of a chunk.
LEMMA TailLines ==
    ASSUME NEW t \in Seq(Spoken), t # <<>>
    PROVE  /\ Tail(t) \in Seq(Spoken) /\ Head(t) \in Spoken /\ Head(t) = t[1] /\ 1 \in 1..Len(t)
           /\ \A x \in 1..Len(Tail(t)) : x + 1 \in 1..Len(t) /\ Tail(t)[x] = t[x + 1]
           /\ Tail(t) = <<>> <=> Len(t) = 1
  <1>1. Len(t) \in Nat /\ Len(t) # 0
    OBVIOUS
  <1>2. /\ Tail(t) \in Seq(Spoken) /\ Len(Tail(t)) = Len(t) - 1
        /\ \A x \in 1..(Len(t) - 1) : Tail(t)[x] = t[x + 1]
    BY <1>1
  <1>3. Head(t) = t[1] /\ 1 \in 1..Len(t) /\ t[1] \in Spoken
    BY <1>1
  <1>4. \A x \in 1..Len(Tail(t)) : x + 1 \in 1..Len(t) /\ Tail(t)[x] = t[x + 1]
    BY <1>1, <1>2
  <1>5. Tail(t) = <<>> <=> Len(t) = 1
    BY <1>1, <1>2
  <1> QED
    BY <1>2, <1>3, <1>4, <1>5

\* Sequences are appended in any grouping.
LEMMA Regroup ==
    ASSUME NEW a \in Seq(Spoken), NEW b \in Seq(Spoken), NEW c \in Seq(Spoken), NEW line \in Spoken
    PROVE  /\ (a \o b) \o c = a \o (b \o c)
           /\ (a \o b) \o Append(c, line) = Append((a \o b) \o c, line)
           /\ a \o <<>> = a /\ <<>> \o a = a
           /\ a \o b \in Seq(Spoken) /\ (a \o b) \o c \in Seq(Spoken)
  OBVIOUS

LEMMA SpokenSeq == ASSUME NEW s \in Seq(Spoken) PROVE s \in Seq(Line)
  BY SpokenIsLine
-----------------------------------------------------------------------------
(* The invariant. *)

Answers == QuietAnswerIsOwn /\ SuccessWasMatched

LEMMA AnswersKept == ASSUME Answers, UNCHANGED reply PROVE Answers'
  BY DEF Answers, QuietAnswerIsOwn, SuccessWasMatched, Amid

LEMMA InitInv == Init => IInv
  <1> SUFFICES ASSUME Init PROVE IInv
    OBVIOUS
  <1>1. <<>> \in Seq(Spoken) /\ <<>> \in Seq(Line) /\ <<>> \in Seq(Commands)
    OBVIOUS
  <1>2. TypeOK
    <2>1. reply.cmd = 0 /\ reply.result = 0 /\ resp = <<>> /\ Len(resp) = 0
      BY DEF Init, NoReply
    <2>2. Len(resp) <= MaxResponse /\ 0 \in 0..MaxCmds /\ 0 \in 0..MaxUrcs /\ 0 \in 0..MaxFaults
      BY <2>1, CommandAssumption
    <2>3. /\ open \in BOOLEAN /\ waiting \in BOOLEAN /\ dropped \in BOOLEAN /\ quiet \in BOOLEAN
      BY Zenon DEF Init
    <2>4. /\ main = "idle" /\ reader = "read" /\ matched \in Line \cup {NoLine} /\ said \in 0..2
          /\ cmd = 0 /\ urcs = 0 /\ faults = 0 /\ chunk = <<>> /\ tty = <<>> /\ pending = <<>>
      BY DEF Init
    <2> QED
      BY <1>1, <2>1, <2>2, <2>3, <2>4 DEF TypeOK
  <1>3. Buffers /\ Matches
    BY <1>1 DEF Init, Buffers, Matches
  <1>4. OwnLines /\ HeardIsAnswer /\ LinesAppended /\ MatchIsOwn
    BY DEF Init, InQuiet, OwnLines, HeardIsAnswer, LinesAppended, MatchIsOwn
  <1>5. QuietAnswerIsOwn /\ SuccessWasMatched
    BY DEF Init, NoReply, QuietAnswerIsOwn, SuccessWasMatched
  <1> QED
    BY <1>2, <1>3, <1>4, <1>5 DEF IInv

\* "Clear previous response and prepare for new one": in quiet, nothing has been heard.
LEMMA PrepareInv == ASSUME IInv, Prepare PROVE IInv'
  <1> USE DEF IInv
  <1>1. /\ open' = TRUE /\ main' = "write" /\ cmd' = cmd + 1
        /\ waiting' = TRUE /\ resp' = <<>> /\ dropped' = FALSE /\ matched' = NoLine
        /\ quiet' = (tty = <<>> /\ chunk = <<>> /\ pending = <<>>)
        /\ UNCHANGED <<reply, reader, chunk, tty, pending, said, urcs, faults>>
    BY DEF Prepare, readerVars, modemVars
  <1>2. cmd' \in Commands /\ cmd' \in 0..MaxCmds
    BY <1>1, CommandAssumption DEF Prepare, TypeOK, Commands
  <1>3. resp' \in Seq(Spoken) /\ resp' \in Seq(Line) /\ Len(resp') <= MaxResponse
    BY <1>1, CommandAssumption
  <1>4. TypeOK'
    BY <1>1, <1>2, <1>3 DEF TypeOK
  <1>5. Buffers' /\ Matches'
    BY <1>1, <1>2, <1>3 DEF Buffers, Matches
  <1>6. QuietAnswerIsOwn' /\ SuccessWasMatched'
    BY <1>1, AnswersKept DEF Answers
  <1>7. MatchIsOwn'
    BY <1>1 DEF MatchIsOwn
  <1>8. CASE ~quiet'
    BY <1>4, <1>5, <1>6, <1>7, <1>8 DEF OwnLines, HeardIsAnswer, LinesAppended, InQuiet
  <1>9. CASE quiet'
    <2>1. tty' = <<>> /\ chunk' = <<>> /\ pending' = <<>> /\ reader' = "read"
      BY <1>1, <1>9 DEF TypeOK
    <2>2. OwnLines' /\ LinesAppended'
      BY <2>1 DEF OwnLines, LinesAppended
    <2>3. Heard' = <<>> /\ SaidLines' = 0
      BY <1>1, <2>1 DEF Heard, SaidLines
    <2>4. HeardIsAnswer'
      BY <1>2, <2>3, AmidNothing DEF HeardIsAnswer
    <2> QED
      BY <1>4, <1>5, <1>6, <1>7, <2>2, <2>4
  <1> QED
    BY <1>8, <1>9

\* Whatever leaves the buffers alone leaves what was heard alone.
LEMMA HeardKept ==
    ASSUME UNCHANGED <<resp, reader, chunk, tty>>
    PROVE  Heard' = Heard
  BY DEF Heard

LEMMA WriteInv == ASSUME IInv, Write PROVE IInv'
  <1> USE DEF IInv
  <1>1. /\ main = "write" /\ cmd \in Commands
        /\ UNCHANGED <<open, cmd, quiet, resp, dropped, matched, reader, chunk, tty, said, urcs>>
    BY DEF Write, readerVars, Buffers
  <1>2. CASE pending' = Append(pending, cmd) /\ main' = "wait" /\ UNCHANGED <<reply, waiting, faults>>
    <2>1. pending' \in Seq(Commands) /\ pending' # <<>> /\ (pending = <<>> => pending' = <<cmd>>)
      <3>1. pending \in Seq(Commands)
        BY DEF TypeOK
      <3>2. Append(pending, cmd) \in Seq(Commands) /\ Len(Append(pending, cmd)) = Len(pending) + 1
        BY <1>1, <3>1
      <3>3. Append(pending, cmd) # <<>>
        <4>1. Len(pending) + 1 # 0
          BY <3>1
        <4> QED
          BY <3>2, <4>1
      <3>4. pending = <<>> => Append(pending, cmd) = <<cmd>>
        OBVIOUS
      <3> QED
        BY <1>2, <3>2, <3>3, <3>4
    <2>2. TypeOK'
      BY <1>1, <1>2, <2>1 DEF TypeOK
    <2>3. Buffers' /\ Matches'
      BY <1>1, <1>2, <2>1 DEF Buffers, Matches
    <2>4. OwnLines'
      BY <1>1, <1>2, <2>1 DEF OwnLines, InQuiet, Own
    <2>5. LinesAppended'
      BY <1>1, <1>2 DEF LinesAppended, InQuiet
    <2>6. MatchIsOwn'
      BY <1>1, <1>2 DEF MatchIsOwn, InQuiet, Own, Amid
    <2>7. HeardIsAnswer'
      <3>1. InQuiet' => SaidLines' = 0 /\ SaidLines = 0 /\ InQuiet
        BY <1>1, <1>2, <2>1 DEF SaidLines, InQuiet, OwnLines, Buffers
      <3>2. Heard' = Heard
        BY <1>1, HeardKept
      <3> QED
        BY <1>1, <1>2, <3>1, <3>2 DEF HeardIsAnswer
    <2>8. QuietAnswerIsOwn' /\ SuccessWasMatched'
      BY <1>2, AnswersKept DEF Answers
    <2> QED
      BY <2>2, <2>3, <2>4, <2>5, <2>6, <2>7, <2>8
  <1>3. CASE Fault /\ waiting' = FALSE /\ Return(-1) /\ UNCHANGED pending
    <2>1. /\ main' = "idle" /\ reply'.cmd = cmd /\ reply'.result = -1
      BY <1>3 DEF Return
    <2>2. faults' \in 0..MaxFaults
      BY <1>3, CommandAssumption DEF Fault, TypeOK
    <2>3. TypeOK'
      BY <1>1, <1>3, <2>1, <2>2 DEF TypeOK
    <2>4. Buffers' /\ Matches'
      BY <1>1, <1>3, <2>1 DEF Buffers, Matches
    <2>5. OwnLines' /\ HeardIsAnswer' /\ LinesAppended' /\ MatchIsOwn'
      BY <2>1 DEF OwnLines, HeardIsAnswer, LinesAppended, MatchIsOwn, InQuiet
    <2>6. QuietAnswerIsOwn' /\ SuccessWasMatched'
      BY <2>1 DEF QuietAnswerIsOwn, SuccessWasMatched
    <2> QED
      BY <2>3, <2>4, <2>5, <2>6
  <1> QED
    BY <1>2, <1>3 DEF Write

\* The wait ends: with what was matched, or without success.
LEMMA WaitInv == ASSUME IInv, Wake \/ TimerFires \/ Expire PROVE IInv'
  <1> USE DEF IInv
  <1>1. UNCHANGED <<open, cmd, quiet, resp, dropped, matched, reader, chunk, tty, pending, said, urcs, faults>>
    BY DEF Wake, TimerFires, Expire, readerVars, modemVars, sharedVars
  <1>2. CASE TimerFires
    <2>1. main = "wait" /\ main' = "expired" /\ UNCHANGED <<reply, waiting>>
      BY <1>2 DEF TimerFires, sharedVars
    <2>2. TypeOK' /\ Buffers' /\ Matches'
      BY <1>1, <2>1 DEF TypeOK, Buffers, Matches
    <2>3. OwnLines' /\ LinesAppended' /\ MatchIsOwn'
      BY <1>1, <2>1 DEF OwnLines, LinesAppended, MatchIsOwn, InQuiet, Own, Amid
    <2>4. HeardIsAnswer'
      BY <1>1, <2>1, HeardKept DEF HeardIsAnswer, InQuiet, SaidLines
    <2>5. QuietAnswerIsOwn' /\ SuccessWasMatched'
      BY <2>1, AnswersKept DEF Answers
    <2> QED
      BY <2>2, <2>3, <2>4, <2>5
  <1>3. CASE Wake \/ Expire
    <2>1. main' = "idle" /\ waiting' = FALSE /\ reply'.cmd = cmd /\ reply'.result \in {0, -1}
      BY <1>3 DEF Wake, Expire, Return, sharedVars, TypeOK
    <2>2. TypeOK'
      BY <1>1, <2>1 DEF TypeOK
    <2>3. Buffers' /\ Matches'
      BY <1>1, <2>1 DEF Buffers, Matches
    <2>4. OwnLines' /\ HeardIsAnswer' /\ LinesAppended' /\ MatchIsOwn'
      BY <2>1 DEF OwnLines, HeardIsAnswer, LinesAppended, MatchIsOwn, InQuiet
    <2>5. ASSUME reply'.result = 0
          PROVE  /\ main # "idle" /\ ~waiting
                 /\ reply' = [cmd |-> cmd, result |-> 0, matched |-> matched,
                              quiet |-> quiet, whole |-> ~dropped, resp |-> resp]
      BY <1>3, <2>5 DEF Wake, Expire, Return
    <2>6. SuccessWasMatched'
      BY <2>5 DEF SuccessWasMatched, Matches
    <2>7. QuietAnswerIsOwn'
      <3> SUFFICES ASSUME reply'.result = 0, reply'.quiet
                   PROVE  /\ reply'.matched.cmd \in {reply'.cmd, 0}
                          /\ reply'.matched.kind = "final" /\ reply'.whole => Amid(reply'.resp, reply'.cmd, 3)
        BY DEF QuietAnswerIsOwn, Amid, Answer
      <3>1. /\ reply'.matched = matched /\ reply'.cmd = cmd /\ reply'.resp = resp
        BY <2>5
      <3>4. (reply'.quiet => quiet) /\ (reply'.whole => ~dropped)
        <4>1. reply' = [cmd |-> cmd, result |-> 0, matched |-> matched,
                        quiet |-> quiet, whole |-> ~dropped, resp |-> resp]
          BY <2>5
        <4>2. quiet \in BOOLEAN /\ dropped \in BOOLEAN
          BY DEF TypeOK
        <4>3. ASSUME quiet = FALSE PROVE reply'.quiet = FALSE
          BY <4>1, <4>3
        <4>4. ASSUME dropped = TRUE PROVE reply'.whole = FALSE
          <5> DEFINE whole == ~dropped
          <5>1. whole = FALSE
            BY <4>4
          <5>2. reply'.whole = whole
            <6>1. reply' = [cmd |-> cmd, result |-> 0, matched |-> matched,
                            quiet |-> quiet, whole |-> whole, resp |-> resp]
              BY <4>1
            <6> HIDE DEF whole
            <6> QED
              BY <6>1
          <5> QED
            BY <5>1, <5>2
        <4> QED
          BY <4>2, <4>3, <4>4
      <3>2. quiet /\ main # "idle" /\ ~waiting
        BY <2>5, <3>4
      <3>3. Own(matched) /\ (matched.kind = "final" /\ ~dropped => Amid(resp, cmd, 3))
        BY <3>2 DEF MatchIsOwn, InQuiet
      <3> QED
        BY <3>1, <3>3, <3>4 DEF Own
    <2> QED
      BY <2>2, <2>3, <2>4, <2>6, <2>7
  <1> QED
    BY <1>2, <1>3

\* A command that cannot be sent, or that nobody waits for, leaves the thread idle.
LEMMA IdleInv == ASSUME IInv, OpenFails \/ SendOnly PROVE IInv'
  <1> USE DEF IInv
  <1>1. /\ main = "idle" /\ main' = "idle" /\ cmd' = cmd + 1 /\ cmd < MaxCmds
        /\ UNCHANGED <<quiet, waiting, resp, dropped, matched, reader, chunk, tty, said, urcs>>
    BY DEF OpenFails, SendOnly, sharedVars, readerVars, modemVars
  <1>2. cmd' \in Commands /\ cmd' \in 0..MaxCmds
    BY <1>1, CommandAssumption DEF TypeOK, Commands
  <1>3. open' \in BOOLEAN /\ faults' \in 0..MaxFaults
    <2>1. open' \in BOOLEAN
      BY Zenon DEF OpenFails, SendOnly, TypeOK
    <2>2. faults \in 0..MaxFaults /\ (UNCHANGED faults \/ Fault)
      BY DEF OpenFails, SendOnly, TypeOK
    <2>3. faults' \in 0..MaxFaults
      BY <2>2, CommandAssumption DEF Fault
    <2> QED
      BY <2>1, <2>3
  <1>4. pending' \in Seq(Commands) /\ (pending' = <<>> => pending = <<>>)
    <2>1. pending \in Seq(Commands)
      BY DEF TypeOK
    <2>2. CASE UNCHANGED pending
      BY <2>1, <2>2
    <2>3. CASE pending' = Append(pending, cmd')
      <3>1. pending' \in Seq(Commands) /\ Len(pending') = Len(pending) + 1 /\ Len(pending) \in Nat
        BY <1>2, <2>1, <2>3
      <3>2. pending' # <<>>
        BY <3>1
      <3> QED
        BY <3>1, <3>2
    <2> QED
      BY <2>2, <2>3 DEF OpenFails, SendOnly, modemVars
  <1>5. OwnLines' /\ HeardIsAnswer' /\ LinesAppended' /\ MatchIsOwn'
    BY <1>1 DEF OwnLines, HeardIsAnswer, LinesAppended, MatchIsOwn, InQuiet
  <1>6. Buffers' /\ Matches'
    BY <1>1, <1>4 DEF Buffers, Matches
  <1>7. CASE UNCHANGED reply
    <2>1. TypeOK'
      BY <1>1, <1>2, <1>3, <1>4, <1>7 DEF TypeOK
    <2>2. QuietAnswerIsOwn' /\ SuccessWasMatched'
      BY <1>7, AnswersKept DEF Answers
    <2> QED
      BY <1>5, <1>6, <2>1, <2>2
  <1>8. CASE reply' = [NoReply EXCEPT !.cmd = cmd', !.result = -1]
    <2>1. reply'.cmd = cmd' /\ reply'.result = -1
      BY <1>8 DEF NoReply
    <2>2. TypeOK'
      BY <1>1, <1>2, <1>3, <1>4, <2>1 DEF TypeOK
    <2>3. QuietAnswerIsOwn' /\ SuccessWasMatched'
      BY <2>1 DEF QuietAnswerIsOwn, SuccessWasMatched
    <2> QED
      BY <1>5, <1>6, <2>2, <2>3
  <1> QED
    BY <1>7, <1>8 DEF OpenFails, SendOnly

\* read() moves lines from the tty to the chunk: what was heard stays the same.
LEMMA ReadInv == ASSUME IInv, Read PROVE IInv'
  <1> USE DEF IInv
  <1>1. PICK k \in 1..Len(tty) :
          chunk' = SubSeq(tty, 1, k) /\ tty' = SubSeq(tty, k + 1, Len(tty))
    BY DEF Read
  <1>2. /\ reader = "read" /\ reader' = "append" /\ chunk = <<>>
        /\ UNCHANGED <<open, main, cmd, quiet, reply, waiting, resp, dropped, matched,
                       pending, said, urcs, faults>>
    BY DEF Read, commandVars, sharedVars, TypeOK
  <1>3. /\ chunk' \in Seq(Spoken) /\ tty' \in Seq(Spoken) /\ chunk' \o tty' = tty /\ chunk' # <<>>
        /\ \A x \in 1..Len(chunk') : \E y \in 1..Len(tty) : chunk'[x] = tty[y]
        /\ \A x \in 1..Len(tty') : \E y \in 1..Len(tty) : tty'[x] = tty[y]
    BY <1>1, ReadSplits DEF Buffers
  <1>4. TypeOK'
    BY <1>2, <1>3, SpokenSeq DEF TypeOK
  <1>5. Buffers' /\ Matches'
    BY <1>2, <1>3 DEF Buffers, Matches
  <1>6. OwnLines'
    BY <1>2, <1>3 DEF OwnLines, InQuiet, Own
  <1>7. HeardIsAnswer'
    <2>1. resp \in Seq(Spoken) /\ tty \in Seq(Spoken) /\ <<>> \in Seq(Spoken)
      BY DEF Buffers
    <2>2. Heard = resp \o tty
      <3>1. resp \o <<>> = resp
        BY <2>1
      <3>2. Heard = (resp \o <<>>) \o tty
        BY <1>2 DEF Heard
      <3> QED
        BY Zenon, <3>1, <3>2
    <2>3. Heard' = (resp \o chunk') \o tty'
      BY <1>2 DEF Heard
    <2>4. (resp \o chunk') \o tty' = resp \o (chunk' \o tty')
      <3>1. chunk' \in Seq(Spoken) /\ tty' \in Seq(Spoken)
        BY <1>3
      <3> HIDE DEF IInv
      <3> QED
        BY <2>1, <3>1
    <2>5. Heard' = Heard
      BY Zenon, <1>3, <2>2, <2>3, <2>4
    <2> QED
      BY <1>2, <2>5 DEF HeardIsAnswer, InQuiet, SaidLines
  <1>8. LinesAppended'
    BY <1>2 DEF LinesAppended
  <1>9. MatchIsOwn'
    BY <1>2 DEF MatchIsOwn, InQuiet, Own, Amid
  <1>10. QuietAnswerIsOwn' /\ SuccessWasMatched'
    BY <1>2, AnswersKept DEF Answers
  <1> QED
    BY <1>4, <1>5, <1>6, <1>7, <1>8, <1>9, <1>10

\* The chunk is appended whole or dropped whole, which is remembered.
LEMMA AppendInv == ASSUME IInv, AppendChunk PROVE IInv'
  <1> USE DEF IInv
  <1>1. /\ reader = "append" /\ reader' = "lines"
        /\ UNCHANGED <<open, main, cmd, quiet, reply, waiting, matched, chunk,
                       tty, pending, said, urcs, faults>>
    BY DEF AppendChunk, commandVars, modemVars
  <1>2. /\ resp \in Seq(Spoken) /\ chunk \in Seq(Spoken) /\ tty \in Seq(Spoken)
        /\ resp \in Seq(Line) /\ chunk \in Seq(Line)
    BY DEF Buffers, TypeOK
  <1>3. QuietAnswerIsOwn' /\ SuccessWasMatched'
    BY <1>1, AnswersKept DEF Answers
  <1>4. OwnLines'
    BY <1>1 DEF OwnLines, InQuiet, Own
  <1>5. Matches'
    BY <1>1 DEF Matches
  <1>6. CASE waiting /\ Len(resp) + Len(chunk) <= MaxResponse
    <2>1. resp' = resp \o chunk /\ UNCHANGED dropped
      BY <1>6 DEF AppendChunk
    <2>2. /\ resp' \in Seq(Spoken) /\ resp' \in Seq(Line) /\ Len(resp') = Len(resp) + Len(chunk)
          /\ Len(resp) \in Nat
          /\ \A x \in 1..Len(chunk) : resp'[Len(resp) + x] = chunk[x] /\ Len(resp) + x \in 1..Len(resp')
      BY <1>2, <2>1
    <2>3. TypeOK'
      BY <1>1, <1>6, <2>1, <2>2 DEF TypeOK
    <2>4. Buffers'
      BY <1>1, <2>2 DEF Buffers
    <2>5. Heard' = Heard
      <3>1. Heard = (resp \o chunk) \o tty
        BY <1>1 DEF Heard
      <3>2. Heard' = (resp' \o <<>>) \o tty
        BY <1>1 DEF Heard
      <3>3. resp' \o <<>> = resp'
        BY <2>2
      <3> QED
        BY <2>1, <3>1, <3>2, <3>3
    <2>6. HeardIsAnswer'
      BY <1>1, <2>1, <2>5 DEF HeardIsAnswer, InQuiet, SaidLines
    <2>7. LinesAppended'
      BY <1>1, <2>2 DEF LinesAppended
    <2>8. MatchIsOwn'
      BY <1>1, <1>6 DEF MatchIsOwn
    <2> QED
      BY <1>3, <1>4, <1>5, <2>3, <2>4, <2>6, <2>7, <2>8
  <1>7. CASE ~(waiting /\ Len(resp) + Len(chunk) <= MaxResponse)
    <2>1. dropped' = (dropped \/ waiting) /\ UNCHANGED resp
      BY <1>7 DEF AppendChunk
    <2>2. TypeOK' /\ Buffers'
      BY <1>1, <2>1 DEF TypeOK, Buffers
    <2>3. HeardIsAnswer' /\ LinesAppended'
      BY <1>1, <2>1 DEF HeardIsAnswer, LinesAppended
    <2>4. MatchIsOwn'
      BY <1>1, <2>1 DEF MatchIsOwn, InQuiet, Own, Amid
    <2> QED
      BY <1>3, <1>4, <1>5, <2>2, <2>3, <2>4
  <1> QED
    BY <1>6, <1>7

\* A line is done with: the rest of the chunk stays to be looked at.
LEMMA SkipLeaves ==
    ASSUME IInv, Skip, reader \in {"lines", "match"}
    PROVE  /\ chunk' \in Seq(Spoken) /\ chunk' \in Seq(Line)
           /\ reader' \in {"read", "lines"} /\ (chunk' = <<>> <=> reader' = "read")
           /\ \A x \in 1..Len(chunk') : \E y \in 1..Len(chunk) : chunk'[x] = chunk[y]
           /\ Head(chunk) \in Spoken /\ \E y \in 1..Len(chunk) : Head(chunk) = chunk[y]
  <1>1. chunk \in Seq(Spoken) /\ chunk # <<>>
    BY DEF IInv, Buffers, TypeOK
  <1>2. chunk' = Tail(chunk) /\ reader' = IF Len(chunk) = 1 THEN "read" ELSE "lines"
    BY DEF Skip
  <1>3. chunk' \in Seq(Spoken) /\ (chunk' = <<>> <=> Len(chunk) = 1)
    BY <1>1, <1>2, TailLines
  <1>4. \A x \in 1..Len(chunk') : \E y \in 1..Len(chunk) : chunk'[x] = chunk[y]
    BY <1>1, <1>2, TailLines
  <1>5. Head(chunk) \in Spoken /\ \E y \in 1..Len(chunk) : Head(chunk) = chunk[y]
    BY <1>1, TailLines
  <1> QED
    BY <1>2, <1>3, <1>4, <1>5, SpokenSeq

\* A line that ends a command is kept for the match, any other one is done with.
LEMMA CheckInv == ASSUME IInv, CheckLine PROVE IInv'
  <1> USE DEF IInv
  <1>1. /\ reader = "lines"
        /\ UNCHANGED <<open, main, cmd, quiet, reply, waiting, resp, dropped, matched,
                       tty, pending, said, urcs, faults>>
    BY DEF CheckLine, commandVars, sharedVars, modemVars
  <1>2. /\ chunk' \in Seq(Spoken) /\ chunk' \in Seq(Line)
        /\ reader' \in {"read", "lines", "match"} /\ (chunk' = <<>> <=> reader' = "read")
        /\ \A x \in 1..Len(chunk') : \E y \in 1..Len(chunk) : chunk'[x] = chunk[y]
        /\ reader' = "match" => LooksFinal(Head(chunk'))
    <2>1. CASE Skip
      BY <1>1, <2>1, SkipLeaves
    <2>2. CASE reader' = "match" /\ UNCHANGED chunk /\ LooksFinal(Head(chunk))
      BY <1>1, <2>2 DEF TypeOK, Buffers
    <2> QED
      BY <2>1, <2>2 DEF CheckLine
  <1>3. TypeOK'
    BY <1>1, <1>2 DEF TypeOK
  <1>4. Buffers' /\ Matches'
    BY <1>1, <1>2 DEF Buffers, Matches
  <1>5. OwnLines'
    BY <1>1, <1>2 DEF OwnLines, InQuiet, Own
  <1>6. HeardIsAnswer'
    <2>1. Heard' = Heard
      BY <1>1, <1>2 DEF Heard
    <2> QED
      BY <1>1, <2>1 DEF HeardIsAnswer, InQuiet, SaidLines
  <1>7. LinesAppended'
    BY <1>1, <1>2 DEF LinesAppended, InQuiet
  <1>8. MatchIsOwn'
    BY <1>1 DEF MatchIsOwn, InQuiet, Own, Amid
  <1>9. QuietAnswerIsOwn' /\ SuccessWasMatched'
    BY <1>1, AnswersKept DEF Answers
  <1> QED
    BY <1>3, <1>4, <1>5, <1>6, <1>7, <1>8, <1>9

\* The wait ends with a line that was heard: if it is the last of the answer, then all of
\* the answer has been appended before it.
LEMMA MatchInv == ASSUME IInv, MatchLine PROVE IInv'
  <1> USE DEF IInv
  <1>1. /\ reader = "match"
        /\ UNCHANGED <<open, main, cmd, quiet, reply, resp, dropped,
                       tty, pending, said, urcs, faults>>
        /\ Skip
    BY DEF MatchLine, commandVars, modemVars
  <1>2. /\ chunk' \in Seq(Spoken) /\ chunk' \in Seq(Line)
        /\ reader' \in {"read", "lines"} /\ (chunk' = <<>> <=> reader' = "read")
        /\ \A x \in 1..Len(chunk') : \E y \in 1..Len(chunk) : chunk'[x] = chunk[y]
        /\ Head(chunk) \in Spoken /\ \E y \in 1..Len(chunk) : Head(chunk) = chunk[y]
    BY <1>1, SkipLeaves
  <1>3. waiting' = FALSE
    BY DEF MatchLine, TypeOK
  <1>4. \/ ~waiting /\ UNCHANGED matched
        \/ waiting /\ matched' = Head(chunk)
    BY DEF MatchLine
  <1>5. TypeOK'
    <2>1. matched' \in Line \cup {NoLine}
      BY <1>2, <1>4, SpokenIsLine DEF TypeOK
    <2> QED
      BY <1>1, <1>2, <1>3, <2>1 DEF TypeOK
  <1>6. Buffers' /\ Matches'
    BY <1>1, <1>2, <1>4 DEF Buffers, Matches
  <1>7. OwnLines'
    BY <1>1, <1>2 DEF OwnLines, InQuiet, Own
  <1>8. HeardIsAnswer' /\ LinesAppended'
    BY <1>3 DEF HeardIsAnswer, LinesAppended
  <1>9. MatchIsOwn'
    <2>1. CASE ~waiting /\ UNCHANGED matched
      BY <1>1, <2>1 DEF MatchIsOwn, InQuiet, Own, Amid
    <2>2. CASE waiting /\ matched' = Head(chunk)
      <3> SUFFICES ASSUME InQuiet
                   PROVE  /\ Own(matched')
                          /\ matched'.kind = "final" /\ ~dropped => Amid(resp, cmd, 3)
        BY <1>1 DEF MatchIsOwn, InQuiet, Own, Amid
      <3>1. Own(matched')
        BY <1>2, <2>2 DEF OwnLines
      <3>2. ASSUME matched'.kind = "final", ~dropped PROVE Amid(resp, cmd, 3)
        <4>1. PICK y \in 1..Len(resp) : resp[y] = Head(chunk)
          BY <1>1, <1>2, <2>2, <3>2 DEF LinesAppended
        <4>2. resp \in Seq(Spoken) /\ tty \in Seq(Spoken) /\ resp \o <<>> = resp
          BY DEF Buffers
        <4>3. Heard = resp \o tty
          BY <1>1, <4>2 DEF Heard
        <4>4. SaidLines \in 0..3 /\ cmd \in Commands
          BY DEF SaidLines, TypeOK, Buffers, InQuiet
        <4>5. Amid(resp \o tty, cmd, SaidLines)
          BY <2>2, <3>2, <4>3 DEF HeardIsAnswer
        <4> HIDE DEF SaidLines
        <4> QED
          BY <2>2, <3>2, <4>1, <4>2, <4>4, <4>5, AmidPart
      <3> QED
        BY <3>1, <3>2
    <2> QED
      BY <1>4, <2>1, <2>2
  <1>10. QuietAnswerIsOwn' /\ SuccessWasMatched'
    BY <1>1, AnswersKept DEF Answers
  <1> QED
    BY <1>5, <1>6, <1>7, <1>8, <1>9, <1>10

LEMMA Longer ==
    ASSUME NEW s \in Seq(Spoken), NEW line \in Spoken
    PROVE  /\ Append(s, line) \in Seq(Spoken) /\ Len(Append(s, line)) = Len(s) + 1 /\ Len(s) \in Nat
           /\ Append(s, line)[Len(s) + 1] = line /\ \A x \in 1..Len(s) : Append(s, line)[x] = s[x]
  OBVIOUS

\* The modem says one more line: what was heard grows by it.
LEMMA HeardGrows ==
    ASSUME IInv, NEW line \in Spoken, tty' = Append(tty, line), UNCHANGED <<resp, reader, chunk>>
    PROVE  /\ Heard \in Seq(Spoken) /\ Heard' = Append(Heard, line)
           /\ tty' \in Seq(Spoken) /\ tty' \in Seq(Line) /\ Len(tty') = Len(tty) + 1
           /\ \A x \in 1..Len(tty') : tty'[x] = line \/ \E y \in 1..Len(tty) : tty'[x] = tty[y]
  <1> DEFINE part == IF reader = "append" THEN chunk ELSE <<>>
  <1>1. resp \in Seq(Spoken) /\ tty \in Seq(Spoken) /\ part \in Seq(Spoken)
    BY DEF IInv, Buffers
  <1>2. Heard = (resp \o part) \o tty /\ Heard' = (resp \o part) \o tty'
    BY DEF Heard
  <1> HIDE DEF part
  <1>3. Heard \in Seq(Spoken) /\ Heard' = Append(Heard, line)
    <2>1. /\ (resp \o part) \o Append(tty, line) = Append((resp \o part) \o tty, line)
          /\ (resp \o part) \o tty \in Seq(Spoken)
      BY <1>1, Regroup
    <2> QED
      BY Zenon, <1>2, <2>1
  <1>4. /\ tty' \in Seq(Spoken) /\ Len(tty') = Len(tty) + 1 /\ Len(tty) \in Nat
        /\ tty'[Len(tty) + 1] = line /\ \A x \in 1..Len(tty) : tty'[x] = tty[x]
    BY <1>1, Longer
  <1>5. \A x \in 1..Len(tty') : x = Len(tty) + 1 \/ x \in 1..Len(tty)
    BY <1>4
  <1> QED
    BY <1>3, <1>4, <1>5, SpokenSeq

LEMMA SaysInv == ASSUME IInv, ModemSays PROVE IInv'
  <1> USE DEF IInv
  <1> DEFINE line == Answer(Head(pending))[said + 1]
  <1>1. /\ pending # <<>> /\ pending \in Seq(Commands) /\ said \in 0..2
        /\ UNCHANGED <<open, main, cmd, quiet, reply, waiting, resp, dropped, matched,
                       reader, chunk, urcs, faults>>
    BY DEF ModemSays, commandVars, sharedVars, readerVars, TypeOK
  <1>2. Head(pending) \in Commands /\ Tail(pending) \in Seq(Commands) /\ said + 1 \in 1..3
    BY <1>1
  <1>3. line \in Spoken /\ line.cmd = Head(pending)
    BY <1>2, AnswerSpoken, FinalLine
  <1>4. tty' = Append(tty, line)
    BY DEF ModemSays
  <1> HIDE DEF line
  <1>5. /\ Heard \in Seq(Spoken) /\ Heard' = Append(Heard, line)
        /\ tty' \in Seq(Spoken) /\ tty' \in Seq(Line)
        /\ \A x \in 1..Len(tty') : tty'[x] = line \/ \E y \in 1..Len(tty) : tty'[x] = tty[y]
    BY <1>1, <1>3, <1>4, HeardGrows
  <1>6. \/ said = 2 /\ pending' = Tail(pending) /\ said' = 0
        \/ said # 2 /\ said' = said + 1 /\ UNCHANGED pending
    BY DEF ModemSays
  <1>7. pending' \in Seq(Commands) /\ said' \in 0..2 /\ (pending' = <<>> => said' = 0)
    BY <1>1, <1>2, <1>6
  <1>8. TypeOK'
    BY <1>1, <1>5, <1>7 DEF TypeOK
  <1>9. Buffers' /\ Matches'
    BY <1>1, <1>5, <1>7 DEF Buffers, Matches
  <1>10. InQuiet => pending = <<cmd>> /\ main # "write" /\ Head(pending) = cmd /\ Tail(pending) = <<>>
    <2>1. InQuiet => pending = <<cmd>> /\ main # "write"
      BY <1>1 DEF OwnLines
    <2>2. Head(<<cmd>>) = cmd /\ Tail(<<cmd>>) = <<>>
      OBVIOUS
    <2> QED
      BY <2>1, <2>2
  <1>11. OwnLines'
    <2> SUFFICES ASSUME InQuiet
                 PROVE  /\ \A x \in 1..Len(tty') : Own(tty'[x])
                        /\ \A x \in 1..Len(chunk) : Own(chunk[x])
                        /\ pending' = <<>> \/ (pending' = <<cmd>> /\ main # "write")
      BY <1>1 DEF OwnLines, InQuiet, Own
    <2>1. Own(line)
      BY <1>3, <1>10 DEF Own
    <2> QED
      BY <1>5, <1>6, <1>10, <2>1 DEF OwnLines
  <1>12. HeardIsAnswer'
    <2> SUFFICES ASSUME InQuiet, waiting, ~dropped PROVE Amid(Heard', cmd, SaidLines')
      BY <1>1 DEF HeardIsAnswer, InQuiet, Amid
    <2>1. Amid(Heard, cmd, SaidLines) /\ cmd \in Commands
      BY DEF HeardIsAnswer, Buffers, InQuiet
    <2>2. SaidLines = said
      BY <1>1, <1>10 DEF SaidLines
    <2>3. SaidLines' = said + 1
      <3>1. main' # "write"
        BY <1>1, <1>10
      <3>2. CASE said = 2
        BY <1>6, <1>10, <3>1, <3>2 DEF SaidLines
      <3>3. CASE said # 2
        BY <1>1, <1>6, <3>1, <3>3 DEF SaidLines
      <3> QED
        BY <3>2, <3>3
    <2>4. line = Answer(cmd)[said + 1]
      BY <1>10 DEF line
    <2>5. Amid(Append(Heard, line), cmd, said + 1)
      BY <1>1, <1>5, <2>1, <2>2, <2>4, AmidNext
    <2> QED
      BY <1>5, <2>3, <2>5
  <1>13. LinesAppended' /\ MatchIsOwn'
    BY <1>1 DEF LinesAppended, MatchIsOwn, InQuiet, Own, Amid
  <1>14. QuietAnswerIsOwn' /\ SuccessWasMatched'
    BY <1>1, AnswersKept DEF Answers
  <1> QED
    BY <1>8, <1>9, <1>11, <1>12, <1>13, <1>14

LEMMA ReportsInv == ASSUME IInv, ModemReports PROVE IInv'
  <1> USE DEF IInv
  <1>1. /\ urcs' \in 0..MaxUrcs
        /\ UNCHANGED <<open, main, cmd, quiet, reply, waiting, resp, dropped, matched,
                       reader, chunk, pending, said, faults>>
    BY CommandAssumption DEF ModemReports, commandVars, sharedVars, readerVars, TypeOK
  <1>2. PICK line \in Spoken : line.cmd = 0 /\ tty' = Append(tty, line)
    BY DEF ModemReports, Spoken
  <1>3. /\ Heard \in Seq(Spoken) /\ Heard' = Append(Heard, line)
        /\ tty' \in Seq(Spoken) /\ tty' \in Seq(Line)
        /\ \A x \in 1..Len(tty') : tty'[x] = line \/ \E y \in 1..Len(tty) : tty'[x] = tty[y]
    BY <1>1, <1>2, HeardGrows
  <1>4. TypeOK'
    BY <1>1, <1>3 DEF TypeOK
  <1>5. Buffers' /\ Matches'
    BY <1>1, <1>3 DEF Buffers, Matches
  <1>6. OwnLines'
    BY <1>1, <1>2, <1>3 DEF OwnLines, InQuiet, Own
  <1>7. HeardIsAnswer'
    <2> SUFFICES ASSUME InQuiet, waiting, ~dropped PROVE Amid(Heard', cmd, SaidLines')
      BY <1>1 DEF HeardIsAnswer, InQuiet, Amid
    <2>1. Amid(Heard, cmd, SaidLines) /\ cmd \in Commands
      BY DEF HeardIsAnswer, Buffers, InQuiet
    <2>2. SaidLines' = SaidLines /\ SaidLines \in 0..3
      BY <1>1 DEF SaidLines, TypeOK
    <2> QED
      BY <1>2, <1>3, <2>1, <2>2, AmidEvent
  <1>8. LinesAppended' /\ MatchIsOwn'
    BY <1>1 DEF LinesAppended, MatchIsOwn, InQuiet, Own, Amid
  <1>9. QuietAnswerIsOwn' /\ SuccessWasMatched'
    BY <1>1, AnswersKept DEF Answers
  <1> QED
    BY <1>4, <1>5, <1>6, <1>7, <1>8, <1>9

LEMMA NextInv == IInv /\ [Next]_vars => IInv'
  <1> SUFFICES ASSUME IInv, [Next]_vars PROVE IInv'
    OBVIOUS
  <1>1. CASE MainStep
    BY <1>1, PrepareInv, WriteInv, WaitInv, IdleInv DEF MainStep
  <1>2. CASE ReaderStep
    BY <1>2, ReadInv, AppendInv, CheckInv, MatchInv DEF ReaderStep
  <1>3. CASE ModemSays \/ ModemReports
    BY <1>3, SaysInv, ReportsInv
  <1>4. CASE UNCHANGED vars
    <2>1. UNCHANGED <<open, main, cmd, quiet, reply, waiting, resp, dropped, matched,
                      reader, chunk, tty, pending, said, urcs, faults>>
      BY <1>4 DEF vars, commandVars, sharedVars, readerVars, modemVars
    <2>2. TypeOK' /\ Buffers' /\ Matches'
      BY <2>1 DEF IInv, TypeOK, Buffers, Matches
    <2>3. OwnLines' /\ LinesAppended' /\ MatchIsOwn'
      BY <2>1 DEF IInv, OwnLines, LinesAppended, MatchIsOwn, InQuiet, Own, Amid
    <2>4. HeardIsAnswer'
      BY <2>1, HeardKept DEF IInv, HeardIsAnswer, InQuiet, SaidLines
    <2>5. QuietAnswerIsOwn' /\ SuccessWasMatched'
      BY <2>1, AnswersKept DEF IInv, Answers
    <2> QED
      BY <2>2, <2>3, <2>4, <2>5 DEF IInv
  <1> QED
    BY <1>1, <1>2, <1>3, <1>4 DEF Next
-----------------------------------------------------------------------------
\* Every state the daemon reaches has the types its declarations give: the reader has a chunk
\* exactly while it handles one, and the response never outgrows its buffer.
THEOREM TypeCorrect == Spec => []TypeOK
  <1>1. IInv => TypeOK
    BY DEF IInv
  <1> QED
    BY <1>1, InitInv, NextInv, PTL DEF Spec

\* A command begun on a quiet port that is told of success is ended by a line of its own
\* or an unsolicited one, and its result code comes with the whole answer, for any number
\* of commands, events and failures and however read() cuts what the modem says.
THEOREM QuietAnswerIsOwnHolds == Spec => []QuietAnswerIsOwn
  <1>1. IInv => QuietAnswerIsOwn
    BY DEF IInv
  <1> QED
    BY <1>1, InitInv, NextInv, PTL DEF Spec

\* No caller is told of a success unless the reader has seen a line that ends a command:
\* neither the timed wait nor a failed write reports one.
THEOREM SuccessWasMatchedHolds == Spec => []SuccessWasMatched
  <1>1. IInv => SuccessWasMatched
    BY DEF IInv
  <1> QED
    BY <1>1, InitInv, NextInv, PTL DEF Spec
=============================================================================
