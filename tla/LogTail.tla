------------------------------- MODULE LogTail -------------------------------
(* The live tail of a log (routes_logs.c): a bounded number of streams, each   *)
(* in the worker of its connection, that follow a file another program         *)
(* appends to, empties and replaces.                                           *)
(*                                                                             *)
(* What is in a log is a sequence of numbers, one for each piece the writer    *)
(* ever wrote. A file is an inode: a tail goes on with the one it opened.      *)
EXTENDS Integers, Sequences, FiniteSets

CONSTANTS Tails,     \* connections that ask for a tail
          MaxTails,  \* CS_LOGS_TAIL_MAX_CONCURRENT, 4
          Logs,      \* inodes
          NoLog,
          Window,    \* CS_LOGS_TAIL_LINES and CS_LOGS_TAIL_WINDOW, in pieces
          MaxPieces  \* bound: pieces written

ASSUME LogTailAssumption ==
    /\ MaxTails \in Nat \ {0}
    /\ NoLog \notin Logs
    /\ Window \in Nat
    /\ MaxPieces \in Nat

VARIABLES
    logs,    \* what each inode holds
    named,   \* the inode the name of the log leads to
    pieces,  \* pieces written so far
    active,  \* g_active_log_tails
    tail,    \* the handler of each connection
    got      \* what each connection was sent

logVars == <<logs, named, pieces, active, tail, got>>

NoTail == [pc |-> "none", fd |-> NoLog, pos |-> 0, offset |-> 0,
           sending |-> <<>>, idle |-> FALSE, late |-> FALSE]

LogInit ==
    /\ logs = [f \in Logs |-> <<>>]
    /\ named \in Logs
    /\ pieces = 0 /\ active = 0
    /\ tail = [t \in Tails |-> NoTail]
    /\ got = [t \in Tails |-> <<>>]

Size(f) == Len(logs[f])
Streams == {t \in Tails : tail[t].pc # "none"}
TailGoes(t, pc) == tail' = [tail EXCEPT ![t].pc = pc]

----------------------------------------------------------------------------
(* The program that writes the log *)

AppendLog ==
    /\ pieces < MaxPieces
    /\ pieces' = pieces + 1
    /\ logs' = [logs EXCEPT ![named] = Append(@, pieces + 1)]
    /\ UNCHANGED <<named, active, tail, got>>

EmptyLog ==
    /\ logs' = [logs EXCEPT ![named] = <<>>]
    /\ UNCHANGED <<named, pieces, active, tail, got>>

\* The name goes to a new file; an inode nobody has open is used again.
ReplaceLog ==
    /\ \E f \in Logs \ ({named} \cup {tail[t].fd : t \in Tails}) :
          named' = f /\ logs' = [logs EXCEPT ![f] = <<>>]
    /\ UNCHANGED <<pieces, active, tail, got>>

----------------------------------------------------------------------------
(* GET /api/logs/tail *)

OpenLog(t) ==
    /\ tail[t].pc = "none"
    /\ tail' = [tail EXCEPT ![t] = [NoTail EXCEPT !.pc = "acquire", !.fd = named]]
    /\ got' = [got EXCEPT ![t] = <<>>]
    /\ UNCHANGED <<logs, named, pieces, active>>

\* cs_logs_tail_try_acquire, a compare-and-swap; without a slot, 429.
Acquire(t) ==
    /\ tail[t].pc = "acquire"
    /\ IF active < MaxTails
       THEN active' = active + 1 /\ TailGoes(t, "recent")
       ELSE tail' = [tail EXCEPT ![t] = NoTail] /\ UNCHANGED active
    /\ UNCHANGED <<logs, named, pieces, got>>

\* Mutant: a tail that ends before it has followed keeps its slot.
GiveUp_KeepsSlot(t) ==
    /\ tail[t].pc \in {"recent", "first"}
    /\ tail' = [tail EXCEPT ![t] = NoTail]
    /\ UNCHANGED <<logs, named, pieces, active, got>>

\* The header or the recent lines cannot be sent.
GiveUp(t) ==
    /\ tail[t].pc \in {"recent", "first"}
    /\ tail' = [tail EXCEPT ![t] = NoTail]
    /\ active' = active - 1
    /\ UNCHANGED <<logs, named, pieces, got>>

\* cs_logs_send_recent_lines reads up to the size it found ...
Recent(t) ==
    LET f == tail[t].fd
        from == IF Size(f) > Window THEN Size(f) - Window + 1 ELSE 1
    IN
    /\ tail[t].pc = "recent"
    /\ tail' = [tail EXCEPT ![t].pc = "first", ![t].sending = SubSeq(logs[f], from, Size(f))]
    /\ UNCHANGED <<logs, named, pieces, active, got>>

\* Mutant: the stream goes on where the recent lines began.
Follow_FromStart(t) ==
    /\ tail[t].pc = "first"
    /\ got' = [got EXCEPT ![t] = tail[t].sending]
    /\ tail' = [tail EXCEPT ![t].pc = "follow", ![t].sending = <<>>]
    /\ UNCHANGED <<logs, named, pieces, active>>

\* ... and the stream goes on at the end the file has by then. What was
\* appended in between is not sent.
Follow(t) ==
    /\ tail[t].pc = "first"
    /\ got' = [got EXCEPT ![t] = tail[t].sending]
    /\ tail' = [tail EXCEPT ![t].pc = "follow", ![t].sending = <<>>,
                            ![t].pos = Size(tail[t].fd), ![t].offset = Size(tail[t].fd)]
    /\ UNCHANGED <<logs, named, pieces, active>>

\* read() at the position of the descriptor: a piece, the end, or an error.
ReadPiece(t) ==
    LET f == tail[t].fd IN
    /\ tail[t].pc = "follow"
    /\ \/ /\ tail[t].pos < Size(f)
          /\ tail' = [tail EXCEPT ![t].pc = "send", ![t].sending = <<logs[f][tail[t].pos + 1]>>,
                                  ![t].pos = @ + 1, ![t].offset = @ + 1]
       \/ tail[t].pos >= Size(f) /\ TailGoes(t, "end")
       \/ TailGoes(t, "release")
    /\ UNCHANGED <<logs, named, pieces, active, got>>

\* The limits are looked at only where there was nothing to read.
SendPiece(t) ==
    /\ tail[t].pc = "send"
    /\ \/ /\ got' = [got EXCEPT ![t] = @ \o tail[t].sending]
          /\ tail' = [tail EXCEPT ![t].pc = "follow", ![t].sending = <<>>, ![t].idle = FALSE]
       \/ /\ tail' = [tail EXCEPT ![t].pc = "release", ![t].sending = <<>>]
          /\ UNCHANGED got
    /\ UNCHANGED <<logs, named, pieces, active>>

\* Sixty seconds since a piece was sent, or six hundred in all.
TimePasses(t) ==
    /\ tail[t].pc \in {"follow", "send", "end"}
    /\ tail' \in {[tail EXCEPT ![t].idle = TRUE],
                  [tail EXCEPT ![t].idle = TRUE, ![t].late = TRUE]}
    /\ UNCHANGED <<logs, named, pieces, active, got>>

\* Mutant: the file is read again from the start, and the offset stays.
AtEnd_OffsetStays(t) ==
    /\ tail[t].pc = "end"
    /\ IF tail[t].idle \/ tail[t].late THEN TailGoes(t, "release")
       ELSE IF Size(tail[t].fd) < tail[t].offset
            THEN tail' = [tail EXCEPT ![t].pc = "follow", ![t].pos = 0]
            ELSE TailGoes(t, "follow")
    /\ UNCHANGED <<logs, named, pieces, active, got>>

\* Mutant: the idle limit is forgotten.
AtEnd_NoLimit(t) ==
    /\ tail[t].pc = "end"
    /\ IF Size(tail[t].fd) < tail[t].offset
       THEN tail' = [tail EXCEPT ![t].pc = "follow", ![t].pos = 0, ![t].offset = 0]
       ELSE TailGoes(t, "follow")
    /\ UNCHANGED <<logs, named, pieces, active, got>>

\* The limits, and a file that has become shorter is read from its start.
AtEnd(t) ==
    /\ tail[t].pc = "end"
    /\ IF tail[t].idle \/ tail[t].late THEN TailGoes(t, "release")
       ELSE IF Size(tail[t].fd) < tail[t].offset
            THEN tail' = [tail EXCEPT ![t].pc = "follow", ![t].pos = 0, ![t].offset = 0]
            ELSE TailGoes(t, "follow")
    /\ UNCHANGED <<logs, named, pieces, active, got>>

Release(t) ==
    /\ tail[t].pc = "release"
    /\ active' = active - 1
    /\ tail' = [tail EXCEPT ![t] = NoTail]
    /\ UNCHANGED <<logs, named, pieces, got>>

----------------------------------------------------------------------------
(* Specification *)

TailStep(t) ==
    \/ Acquire(t) \/ GiveUp(t) \/ Recent(t) \/ Follow(t) \/ ReadPiece(t)
    \/ SendPiece(t) \/ AtEnd(t) \/ Release(t)

LogNext ==
    \/ AppendLog \/ EmptyLog \/ ReplaceLog
    \/ \E t \in Tails : OpenLog(t) \/ TailStep(t) \/ TimePasses(t)

\* A worker goes on, time passes, and a send to a browser that does not read is
\* given up by CivetWeb's request timeout.
LogFairness ==
    \A t \in Tails : WF_logVars(TailStep(t)) /\ WF_logVars(~tail[t].idle /\ TimePasses(t))

LogSpec == LogInit /\ [][LogNext]_logVars

----------------------------------------------------------------------------
(* Properties *)

\* Types of the state of routes_logs.c; g_active_log_tails counts the streams
\* that are open: each way out of cs_route_logs_tail_handler after the slot was
\* taken gives it back, once.
LogTypeOK ==
    /\ logs \in [Logs -> Seq(1..MaxPieces)] /\ named \in Logs
    /\ pieces \in 0..MaxPieces /\ active \in 0..MaxTails
    /\ tail \in [Tails -> [pc : {"none", "acquire", "recent", "first", "follow", "send", "end",
                                 "release"},
                           fd : Logs \cup {NoLog}, pos : 0..MaxPieces, offset : 0..MaxPieces,
                           sending : Seq(1..MaxPieces), idle : BOOLEAN, late : BOOLEAN]]
    /\ got \in [Tails -> Seq(1..MaxPieces)]
    /\ active = Cardinality({t \in Streams : tail[t].pc # "acquire"})

\* A browser is sent each piece of the log once and in the order written,
\* also where the file is emptied, and written again, while it is followed:
\* the position of the descriptor and the handler's own offset stay the same.
SentInOrder ==
    \A t \in Tails : \A i, j \in 1..Len(got[t]) : i < j => got[t][i] < got[t][j]

\* A tail of a log that has stopped growing ends, and its slot is free for
\* another, although the browser stays: nobody waits for ever with 429.
TailEnds == \A t \in Tails : tail[t].pc = "follow" ~> tail[t].pc = "none"
=============================================================================
