----------------------------- MODULE AtCommand ------------------------------
(***************************************************************************)
(* One AT command after another on one port of ubus-at-daemon: the         *)
(* ubus thread runs send_at_command_with_response and                      *)
(* send_at_command_only, the reader thread of the port collects what the   *)
(* modem says and wakes the ubus thread when it sees an end flag.  Each    *)
(* action is a part of either thread between two operations on             *)
(* response_mutex.  The modem and the tty are external.                    *)
(*                                                                         *)
(* A line is the unit read() delivers: the reader may get any number of    *)
(* whole lines at once.                                                    *)
(***************************************************************************)
EXTENDS Integers, Sequences

CONSTANTS
    MaxCmds,      \* AT commands sent (a bound)
    MaxUrcs,      \* unsolicited lines (a bound)
    MaxFaults,    \* writes and opens that fail (a bound)
    MaxResponse,  \* the lines MAX_BUFFER_SIZE has room for
    Chatty        \* commands with an end flag inside their data ("...OK...")

Commands == 1..MaxCmds

ASSUME CommandAssumption ==
    /\ MaxCmds \in Nat /\ MaxUrcs \in Nat /\ MaxFaults \in Nat
    /\ MaxResponse \in Nat
    /\ Chatty \subseteq Commands

\* A line of the modem belongs to a command, or to none (0).
Line   == [cmd : 0..MaxCmds, kind : {"echo", "data", "final", "urc"}, flag : BOOLEAN]
NoLine == [cmd |-> 0, kind |-> "none", flag |-> FALSE]

\* What the modem says to command n: its echo, its data, its result code.
Answer(n) == << [cmd |-> n, kind |-> "echo",  flag |-> FALSE],
                [cmd |-> n, kind |-> "data",  flag |-> n \in Chatty],
                [cmd |-> n, kind |-> "final", flag |-> TRUE] >>

VARIABLES
    open,      \* is_open of the port: the first command opens it
    main,      \* where the ubus thread is in send_at_command_with_response
    cmd,       \* the command it sends, numbered
    waiting,   \* waiting_for_response
    resp,      \* current_response.response, as lines
    dropped,   \* a chunk did not fit into it
    matched,   \* the line that set current_response.status to 0
    quiet,     \* when the command began, nothing was owed, unread or half processed
    reply,     \* the last answer to a ubus caller
    reader,    \* where the reader thread is
    chunk,     \* what its last read() returned, less the lines processed
    tty,       \* lines the modem has sent and read() has not returned
    pending,   \* commands the modem has still to answer
    said,      \* lines of the answer to the first of them it has sent
    urcs,      \* unsolicited lines so far
    faults     \* failures so far

commandVars == <<open, main, cmd, quiet, reply>>
sharedVars  == <<waiting, resp, dropped, matched>>
readerVars  == <<reader, chunk>>
modemVars   == <<tty, pending, said, urcs>>
vars == <<commandVars, sharedVars, readerVars, modemVars, faults>>

Fault == faults < MaxFaults /\ faults' = faults + 1

NoReply == [cmd |-> 0, result |-> 0, matched |-> NoLine,
            quiet |-> FALSE, whole |-> TRUE, resp |-> <<>>]

Init ==
    /\ open = FALSE /\ main = "idle" /\ cmd = 0 /\ quiet = TRUE /\ reply = NoReply
    /\ waiting = FALSE /\ resp = <<>> /\ dropped = FALSE /\ matched = NoLine
    /\ reader = "read" /\ chunk = <<>>
    /\ tty = <<>> /\ pending = <<>> /\ said = 0 /\ urcs = 0
    /\ faults = 0
-----------------------------------------------------------------------------
(* The ubus thread. *)

\* The reply of ubus_sendat_method: result 0 is "success", -1 "timeout".
Return(result) ==
    /\ main' = "idle"
    /\ reply' = [cmd |-> cmd, result |-> result, matched |-> matched,
                 quiet |-> quiet, whole |-> ~dropped, resp |-> resp]

\* "Auto-open with default parameters" fails: nothing is prepared or written.
OpenFails ==
    /\ main = "idle" /\ cmd < MaxCmds
    /\ ~open /\ Fault
    /\ cmd' = cmd + 1
    /\ reply' = [NoReply EXCEPT !.cmd = cmd', !.result = -1]
    /\ UNCHANGED <<open, main, quiet, sharedVars, readerVars, modemVars>>

\* Mutant of Prepare: the previous response is not cleared.
PrepareKeeping ==
    /\ main = "idle" /\ cmd < MaxCmds
    /\ open' = TRUE /\ main' = "write" /\ cmd' = cmd + 1
    /\ waiting' = TRUE
    /\ quiet' = (tty = <<>> /\ chunk = <<>> /\ pending = <<>>)
    /\ UNCHANGED <<reply, resp, dropped, matched, readerVars, modemVars, faults>>

\* "Clear previous response and prepare for new one", under response_mutex.
Prepare ==
    /\ main = "idle" /\ cmd < MaxCmds
    /\ open' = TRUE /\ main' = "write" /\ cmd' = cmd + 1
    /\ waiting' = TRUE /\ resp' = <<>> /\ dropped' = FALSE /\ matched' = NoLine
    /\ quiet' = (tty = <<>> /\ chunk = <<>> /\ pending = <<>>)
    /\ UNCHANGED <<reply, readerVars, modemVars, faults>>

Write ==
    /\ main = "write"
    /\ \/ /\ pending' = Append(pending, cmd)
          /\ main' = "wait"
          /\ UNCHANGED <<reply, waiting, faults>>
       \/ /\ Fault
          /\ waiting' = FALSE
          /\ Return(-1)
          /\ UNCHANGED pending
    /\ UNCHANGED <<open, cmd, quiet, resp, dropped, matched, readerVars, tty, said, urcs>>

\* The loop around pthread_cond_timedwait sees that the reader is done ...
Wake ==
    /\ main = "wait" /\ ~waiting
    /\ Return(0)
    /\ UNCHANGED <<open, cmd, quiet, sharedVars, readerVars, modemVars, faults>>

\* Mutants: pthread_cond_wait without a time; a timeout that leaves the status of
\* the cleared response, which is 0.
NoTimer == FALSE

ExpireUnmarked ==
    /\ main = "expired"
    /\ Return(0)
    /\ waiting' = FALSE
    /\ UNCHANGED <<open, cmd, quiet, resp, dropped, matched, readerVars, modemVars, faults>>

\* ... or the time is up; the reader may still come before the mutex is taken back.
TimerFires ==
    /\ main = "wait" /\ waiting
    /\ main' = "expired"
    /\ UNCHANGED <<open, cmd, quiet, reply, sharedVars, readerVars, modemVars, faults>>

Expire ==
    /\ main = "expired"
    /\ Return(-1)
    /\ waiting' = FALSE
    /\ UNCHANGED <<open, cmd, quiet, resp, dropped, matched, readerVars, modemVars, faults>>

\* send_at_command_only: nobody waits for what the modem answers.  The caller
\* supplies the terminator.
SendOnly ==
    /\ main = "idle" /\ cmd < MaxCmds
    /\ open' = TRUE /\ cmd' = cmd + 1
    /\ \/ pending' = Append(pending, cmd') /\ UNCHANGED faults
       \/ Fault /\ UNCHANGED pending
    /\ UNCHANGED <<main, quiet, reply, sharedVars, readerVars, tty, said, urcs>>
-----------------------------------------------------------------------------
(* reader_thread_func *)

Read ==
    /\ open /\ reader = "read"
    /\ \E k \in 1..Len(tty) :
         chunk' = SubSeq(tty, 1, k) /\ tty' = SubSeq(tty, k + 1, Len(tty))
    /\ reader' = "append"
    /\ UNCHANGED <<commandVars, sharedVars, pending, said, urcs, faults>>

\* Mutant of AppendChunk: the room that is left is not looked at.
AppendUnbounded ==
    /\ reader = "append"
    /\ resp' = IF waiting THEN resp \o chunk ELSE resp
    /\ reader' = "lines"
    /\ UNCHANGED <<commandVars, waiting, dropped, matched, chunk, modemVars, faults>>

\* "First, handle response data if we're waiting for one": all of the chunk or none.
AppendChunk ==
    /\ reader = "append"
    /\ IF waiting /\ Len(resp) + Len(chunk) <= MaxResponse
       THEN resp' = resp \o chunk /\ UNCHANGED dropped
       ELSE dropped' = (dropped \/ waiting) /\ UNCHANGED resp
    /\ reader' = "lines"
    /\ UNCHANGED <<commandVars, waiting, matched, chunk, modemVars, faults>>

Skip ==
    /\ chunk' = Tail(chunk)
    /\ reader' = IF Len(chunk) = 1 THEN "read" ELSE "lines"

\* An echo is never an end flag; any other line that contains one is.
LooksFinal(line) == line.kind # "echo" /\ line.flag

\* The line is compared with the end flags when a response was waited for.
CheckLine ==
    /\ reader = "lines"
    /\ IF waiting /\ LooksFinal(Head(chunk))
       THEN reader' = "match" /\ UNCHANGED chunk
       ELSE Skip
    /\ UNCHANGED <<commandVars, sharedVars, modemVars, faults>>

\* Under response_mutex again, which was free in between.
MatchLine ==
    /\ reader = "match"
    /\ IF waiting
       THEN waiting' = FALSE /\ matched' = Head(chunk)
       ELSE UNCHANGED <<waiting, matched>>
    /\ Skip
    /\ UNCHANGED <<commandVars, resp, dropped, modemVars, faults>>
-----------------------------------------------------------------------------
(* The modem. *)

ModemSays ==
    /\ pending # <<>>
    /\ tty' = Append(tty, Answer(Head(pending))[said + 1])
    /\ IF said = 2 THEN pending' = Tail(pending) /\ said' = 0
                   ELSE said' = said + 1 /\ UNCHANGED pending
    /\ UNCHANGED <<commandVars, sharedVars, readerVars, urcs, faults>>

\* An unsolicited line; "NO CARRIER" is one with an end flag.
ModemReports ==
    /\ urcs < MaxUrcs
    /\ urcs' = urcs + 1
    /\ \E flagged \in BOOLEAN :
         tty' = Append(tty, [cmd |-> 0, kind |-> "urc", flag |-> flagged])
    /\ UNCHANGED <<commandVars, sharedVars, readerVars, pending, said, faults>>

MainStep   == OpenFails \/ Prepare \/ Write \/ Wake \/ TimerFires \/ Expire \/ SendOnly
ReaderStep == Read \/ AppendChunk \/ CheckLine \/ MatchLine
Next == MainStep \/ ReaderStep \/ ModemSays \/ ModemReports

Spec == Init /\ [][Next]_vars

\* The scheduler runs both threads and the clock runs; the modem owes nothing.
LiveSpec ==
    /\ Spec
    /\ WF_vars(Write) /\ WF_vars(Wake \/ TimerFires) /\ WF_vars(Expire)
    /\ WF_vars(ReaderStep)
-----------------------------------------------------------------------------
\* Type invariant of the command, the reader and the modem.
TypeOK ==
    /\ open \in BOOLEAN /\ main \in {"idle", "write", "wait", "expired"}
    /\ cmd \in 0..MaxCmds
    /\ waiting \in BOOLEAN /\ dropped \in BOOLEAN /\ quiet \in BOOLEAN
    /\ resp \in Seq(Line) /\ Len(resp) <= MaxResponse
    /\ matched \in Line \cup {NoLine}
    /\ reply.cmd \in 0..MaxCmds /\ reply.result \in {0, -1}
    /\ reader \in {"read", "append", "lines", "match"}
    /\ chunk \in Seq(Line) /\ (chunk = <<>> <=> reader = "read")
    /\ tty \in Seq(Line)
    /\ pending \in Seq(Commands)
    /\ said \in 0..2
    /\ urcs \in 0..MaxUrcs /\ faults \in 0..MaxFaults

\* In s stand the first n lines of the answer to c, in order and amid unsolicited lines alone.
Amid(s, c, n) ==
    \E pos \in [1..n -> 1..Len(s)] :
        /\ \A a, b \in 1..n : a < b => pos[a] < pos[b]
        /\ \A a \in 1..n : s[pos[a]] = Answer(c)[a]
        /\ \A x \in 1..Len(s) : s[x].cmd = 0 \/ \E a \in 1..n : x = pos[a]

\* A success that is reported for a command begun when the port was quiet is that
\* command's: the line that ended it is its own or an unsolicited one, never one of
\* another command, and if it is its result code the response is the whole answer,
\* in order, unless a part of it did not fit (reader_thread_func, the two critical
\* sections on response_mutex).
QuietAnswerIsOwn ==
    reply.cmd > 0 /\ reply.result = 0 /\ reply.quiet =>
        /\ reply.matched.cmd \in {reply.cmd, 0}
        /\ reply.matched.kind = "final" /\ reply.whole => Amid(reply.resp, reply.cmd, 3)

\* A caller is never told of a success before the modem has said something that
\* ends a command: the reader's match and nothing else sets the status.
SuccessWasMatched == reply.cmd > 0 /\ reply.result = 0 => LooksFinal(reply.matched)

\* at_handler.c:152 "Clear previous response and prepare for new one": the answer
\* of an earlier command is not reported as that of a later one.
AnswerIsOwn ==
    reply.cmd > 0 /\ reply.result = 0 => reply.matched.cmd \in {reply.cmd, 0}

\* Every ubus call returns, whatever the modem does (the timed wait).
EveryCallReturns == main # "idle" ~> main = "idle"
=============================================================================
