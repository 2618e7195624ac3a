--------------------------- MODULE TerminalProofs ---------------------------
(***************************************************************************)
(* Proofs about Terminal: the types, and that a session has one socket,    *)
(* that only the close-all frees a session under another thread, that no   *)
(* shell is left without a session that can end it, and that none is       *)
(* waited for that was not hung up.                                        *)
(***************************************************************************)
EXTENDS Terminal, TLAPS, FiniteSetTheorems

-----------------------------------------------------------------------------
(* Types *)

Session == [live : BOOLEAN, authenticated : BOOLEAN, closing : BOOLEAN, fd : BOOLEAN,
            child : BOOLEAN, conn : Conns \cup {NoConn}, expired : BOOLEAN]
ReaderPc == {"none", "loop", "read", "got", "send", "end", "bye", "done"}
ReaderState == [pc : ReaderPc, conn : Conns \cup {NoConn}]
Tty == [shell : {"none", "runs", "gone"}, hup : BOOLEAN, job : BOOLEAN,
        input : 0..Capacity, output : 0..Capacity, manner : Manner]
WorkPc == {"none", "open", "fork", "child", "unspawn", "ready", "write", "hang", "unlist",
           "join", "reap"}
WorkState == [pc : WorkPc, ses : Sessions \cup {NoSession}]
UiPc == {"idle", "sweep", "close", "bye", "stopping", "down"}
UiState == [pc : UiPc, pending : SUBSET Sessions, active : SUBSET Sessions,
            ses : Sessions \cup {NoSession}, conn : Conns \cup {NoConn}, stop : BOOLEAN]

Cells == [Sessions -> Session]
Readers == [Sessions -> ReaderState]
Ttys == [Sessions -> Tty]
Works == [Conns -> WorkState]

Typed ==
    /\ enabled \in BOOLEAN /\ saved \in BOOLEAN
    /\ listed \subseteq Sessions /\ swept \subseteq Sessions /\ told \subseteq Conns
    /\ ses \in Cells /\ reader \in Readers /\ tty \in Ttys /\ work \in Works
    /\ issuing \in Sessions \cup {NoSession}
    /\ ui \in UiState

LEMMA TypeParts == (TypeOK <=> Typed) /\ (TypeOK' <=> Typed')
  BY DEF TypeOK, Typed, Cells, Readers, Ttys, Works, Session, ReaderState, Tty, WorkState,
         UiState, ReaderPc, WorkPc, UiPc

\* The cells, threads, terminals and workers that do nothing.
LEMMA BlankTypes ==
    /\ Blank \in Session /\ [Blank EXCEPT !.live = TRUE] \in Session
    /\ NoReader \in ReaderState /\ NoTty \in Tty /\ NoWork \in WorkState /\ Idle \in UiState
<1>1. Blank \in Session /\ [Blank EXCEPT !.live = TRUE] \in Session
  BY DEF Blank, Session
<1>2. NoReader \in ReaderState /\ NoWork \in WorkState
  BY DEF NoReader, NoWork, ReaderState, WorkState, ReaderPc, WorkPc
<1>3. NoTty \in Tty
  BY TerminalAssumption DEF NoTty, Tty, Manner
<1>4. Idle \in UiState
  BY DEF Idle, UiState, UiPc
<1>5. QED
  BY <1>1, <1>2, <1>3, <1>4

LEMMA ShellType ==
    ASSUME NEW m \in Manners
    PROVE  [NoTty EXCEPT !.shell = "runs", !.manner = m] \in Tty
<1>1. m \in Manner
  BY TerminalAssumption
<1>2. QED
  BY <1>1, BlankTypes DEF Tty

LEMMA SessionType ==
    ASSUME NEW f \in Cells, NEW s \in Sessions
    PROVE  /\ f[s] \in Session
           /\ f[s].live \in BOOLEAN /\ f[s].conn \in Conns \cup {NoConn}
           /\ \A r \in Session : [f EXCEPT ![s] = r] \in Cells
           /\ \A b \in BOOLEAN :
                 /\ [f EXCEPT ![s].authenticated = b] \in Cells
                 /\ [f EXCEPT ![s].closing = b] \in Cells
                 /\ [f EXCEPT ![s].fd = b] \in Cells
                 /\ [f EXCEPT ![s].child = b] \in Cells
                 /\ [f EXCEPT ![s].expired = b] \in Cells
           /\ \A c \in Conns \cup {NoConn} : [f EXCEPT ![s].conn = c] \in Cells
  BY DEF Cells, Session

LEMMA FreedType == ses \in Cells => \A S : Freed(S) \in Cells
  BY BlankTypes DEF Freed, Cells

LEMMA ReaderType ==
    ASSUME NEW f \in Readers, NEW s \in Sessions
    PROVE  /\ f[s] \in ReaderState
           /\ f[s].pc \in ReaderPc /\ f[s].conn \in Conns \cup {NoConn}
           /\ \A pc \in ReaderPc : [f EXCEPT ![s].pc = pc] \in Readers
           /\ \A pc \in ReaderPc, c \in Conns \cup {NoConn} :
                 [f EXCEPT ![s] = [pc |-> pc, conn |-> c]] \in Readers
           /\ \A r \in ReaderState : [f EXCEPT ![s] = r] \in Readers
  BY DEF Readers, ReaderState

LEMMA ReaderPcs == {"none", "loop", "read", "got", "send", "end", "bye", "done"} \subseteq ReaderPc
  BY DEF ReaderPc

LEMMA TtyType ==
    ASSUME NEW f \in Ttys, NEW s \in Sessions
    PROVE  /\ f[s] \in Tty
           /\ f[s].input \in 0..Capacity /\ f[s].output \in 0..Capacity
           /\ \A r \in Tty : [f EXCEPT ![s] = r] \in Ttys
           /\ \A n \in 0..Capacity : [f EXCEPT ![s].input = n] \in Ttys
           /\ \A n \in 0..Capacity : [f EXCEPT ![s].output = n] \in Ttys
  BY DEF Ttys, Tty

LEMMA TtyFlags ==
    ASSUME NEW f \in Ttys, NEW s \in Sessions
    PROVE  /\ [f EXCEPT ![s].shell = "gone"] \in Ttys
           /\ \A b \in BOOLEAN : [f EXCEPT ![s].job = b] \in Ttys
           /\ \A b \in BOOLEAN : [f EXCEPT ![s].hup = b] \in Ttys
  BY DEF Ttys, Tty

LEMMA Chunks ==
    ASSUME NEW n \in 0..Capacity
    PROVE  /\ n < Capacity => n + 1 \in 0..Capacity
           /\ n > 0 => n - 1 \in 0..Capacity
  BY TerminalAssumption

LEMMA WorkType ==
    ASSUME NEW f \in Works, NEW c \in Conns
    PROVE  /\ f[c] \in WorkState
           /\ f[c].pc \in WorkPc /\ f[c].ses \in Sessions \cup {NoSession}
           /\ \A pc \in WorkPc : [f EXCEPT ![c].pc = pc] \in Works
           /\ \A pc \in WorkPc, s \in Sessions : [f EXCEPT ![c] = [pc |-> pc, ses |-> s]] \in Works
           /\ \A r \in WorkState : [f EXCEPT ![c] = r] \in Works
  BY DEF Works, WorkState

LEMMA WorkPcs ==
    {"none", "open", "fork", "child", "unspawn", "ready", "write", "hang", "unlist", "join",
     "reap"} \subseteq WorkPc
  BY DEF WorkPc

LEMMA UiType ==
    ASSUME NEW u \in UiState
    PROVE  /\ u.pending \subseteq Sessions /\ u.active \subseteq Sessions
           /\ u.conn \in Conns \cup {NoConn}
           /\ \A pc \in UiPc : [u EXCEPT !.pc = pc] \in UiState
           /\ \A S \in SUBSET Sessions : [u EXCEPT !.pending = S] \in UiState
           /\ \A S \in SUBSET Sessions : [u EXCEPT !.active = S] \in UiState
           /\ \A s \in Sessions \cup {NoSession} : [u EXCEPT !.ses = s] \in UiState
           /\ \A c \in Conns \cup {NoConn} : [u EXCEPT !.conn = c] \in UiState
           /\ \A b \in BOOLEAN : [u EXCEPT !.stop = b] \in UiState
  BY DEF UiState

LEMMA UiPcs == {"idle", "sweep", "close", "bye", "stopping", "down"} \subseteq UiPc
  BY DEF UiPc

\* The steps that several actions share.
LEMMA WorkerMoves ==
    ASSUME work \in Works, NEW c \in Conns
    PROVE  /\ \A pc \in WorkPc : Goes(c, pc) => work' \in Works
           /\ Ends(c) => work' \in Works
  BY WorkType, BlankTypes DEF Goes, Ends

LEMMA ReaderMoves ==
    ASSUME reader \in Readers, NEW s \in Sessions
    PROVE  \A pc \in ReaderPc : ReaderGoes(s, pc) => reader' \in Readers
<1> SUFFICES ASSUME NEW pc \in ReaderPc, ReaderGoes(s, pc) PROVE reader' \in Readers
  OBVIOUS
<1>1. QED
  BY ReaderType DEF ReaderGoes

LEMMA UiMoves ==
    ASSUME ui \in UiState
    PROVE  \A pc \in UiPc : UiGoes(pc) => ui' \in UiState
  BY UiType DEF UiGoes

LEMMA FreeTypes ==
    ASSUME Typed, NEW s \in Sessions, Free(s)
    PROVE  ses' \in Cells /\ reader' \in Readers /\ tty' \in Ttys
<1>1. ses' \in Cells
  BY FreedType DEF Typed, Free
<1>2. reader' \in Readers
  BY ReaderType, BlankTypes DEF Typed, Free
<1>3. tty' \in Ttys
  BY TtyType, BlankTypes DEF Typed, Free
<1>4. QED
  BY <1>1, <1>2, <1>3

LEMMA PruneTypes ==
    ASSUME Typed, Prune
    PROVE  listed' \subseteq Sessions /\ ses' \in Cells
  BY FreedType DEF Typed, Prune

LEMMA HangUpType ==
    ASSUME Typed, NEW s \in Sessions, HangUp(s)
    PROVE  tty' \in Ttys
<1> DEFINE up == tty[s].hup \/ ses[s].child \/ (ses[s].fd /\ reader[s].pc # "read")
<1>1. up \in BOOLEAN /\ tty' = [tty EXCEPT ![s].hup = up]
  BY DEF HangUp
<1>2. QED
  BY <1>1, TtyFlags DEF Typed

\* A worker past the auth message has a session.
HasSession == \A c \in Conns : work[c].pc \in {"none", "open"} <=> work[c].ses = NoSession

\* The close-all that says goodbye has a socket to say it to.
HasSocket == ui.pc = "bye" => ui.conn # NoConn

LEMMA NextType == TypeOK /\ HasSession /\ HasSocket /\ [Next]_vars => TypeOK'
<1> SUFFICES ASSUME TypeOK, HasSession, HasSocket, Step PROVE TypeOK'
  BY DEF Next, vars, TypeOK
<1>0. Typed
  BY TypeParts
<1>a. SUFFICES Typed'
  BY TypeParts
<1> USE DEF Typed
<1>1. CASE RequestTicket
  <2>1. CASE Prune /\ UNCHANGED <<issuing, swept>>
    BY <1>0, <1>1, <2>1, PruneTypes DEF RequestTicket
  <2>2. CASE ~(Prune /\ UNCHANGED <<issuing, swept>>)
    <3>1. PICK s \in Sessions :
            /\ listed' = (listed \ Stale) \cup {s}
            /\ ses' = [Freed(Stale) EXCEPT ![s] = [Blank EXCEPT !.live = TRUE]]
            /\ swept' = swept \ {s}
            /\ issuing' = s
      BY <1>1, <2>2 DEF RequestTicket
    <3>2. ses' \in Cells
      BY <1>0, <3>1, FreedType, SessionType, BlankTypes
    <3>3. QED
      BY <1>0, <1>1, <3>1, <3>2 DEF RequestTicket
  <2>3. QED
    BY <2>1, <2>2
<1>2. CASE AnswerTicket
  BY <1>0, <1>2 DEF AnswerTicket
<1>3. ASSUME NEW s \in Sessions, Expire(s) PROVE Typed'
  BY <1>0, <1>3, SessionType DEF Expire
<1>4. ASSUME NEW s \in Sessions, Read(s) PROVE Typed'
  BY <1>0, <1>4, ReaderMoves, ReaderPcs DEF Read
<1>5. ASSUME NEW s \in Sessions, ReadReturns(s) PROVE Typed'
  <2>1. reader' \in Readers
    BY <1>0, <1>5, ReaderMoves, ReaderPcs DEF ReadReturns
  <2>2. tty' \in Ttys
    <3>1. tty[s].output \in 0..Capacity
      BY <1>0, TtyType
    <3>2. CASE tty[s].output > 0 /\ tty' = [tty EXCEPT ![s].output = @ - 1]
      <4>1. tty[s].output - 1 \in 0..Capacity
        BY <3>1, <3>2, Chunks
      <4>2. QED
        BY <1>0, <3>2, <4>1, TtyType
    <3>3. QED
      BY <1>0, <1>5, <3>2 DEF ReadReturns
  <2>3. QED
    BY <1>0, <1>5, <2>1, <2>2 DEF ReadReturns
<1>6. ASSUME NEW s \in Sessions, Look(s) PROVE Typed'
  BY <1>0, <1>6, ReaderType, ReaderPcs, SessionType DEF Look
<1>7. ASSUME NEW s \in Sessions, Send(s) PROVE Typed'
  <2>1. PICK pc \in {"loop", "end"} : reader' = [reader EXCEPT ![s] = [pc |-> pc, conn |-> NoConn]]
    BY <1>7 DEF Send
  <2>2. reader' \in Readers
    BY <1>0, <2>1, ReaderType, ReaderPcs
  <2>3. QED
    BY <1>0, <1>7, <2>2 DEF Send
<1>8. ASSUME NEW s \in Sessions, End(s) PROVE Typed'
  <2>1. CASE ReaderGoes(s, "done") /\ UNCHANGED ses
    BY <1>0, <1>8, <2>1, ReaderMoves, ReaderPcs DEF End
  <2>2. CASE /\ ses' = [ses EXCEPT ![s].closing = TRUE]
             /\ reader' = [reader EXCEPT ![s] = [pc |-> "bye", conn |-> ses[s].conn]]
    <3>1. ses' \in Cells
      BY <1>0, <2>2, SessionType
    <3>2. reader' \in Readers
      BY <1>0, <2>2, SessionType, ReaderType, ReaderPcs
    <3>3. QED
      BY <1>0, <1>8, <3>1, <3>2 DEF End
  <2>3. QED
    BY <1>8, <2>1, <2>2 DEF End
<1>9. ASSUME NEW s \in Sessions, Bye(s) PROVE Typed'
  BY <1>0, <1>9, ReaderType, ReaderPcs, SessionType DEF Bye
<1>10. ASSUME NEW s \in Sessions, Prints(s) PROVE Typed'
  BY <1>0, <1>10, TtyType, Chunks DEF Prints, Program
<1>11. ASSUME NEW s \in Sessions, ReadsInput(s) PROVE Typed'
  <2>1. tty[s].input \in 0..Capacity /\ tty[s].input > 0 /\ tty[s].output \in 0..Capacity
    BY <1>0, <1>11, TtyType DEF ReadsInput
  <2>2. tty[s].input - 1 \in 0..Capacity
    BY <2>1, Chunks
  <2>3. CASE tty[s].output < Capacity
             /\ tty' = [tty EXCEPT ![s].input = @ - 1, ![s].output = @ + 1]
    <3>1. tty[s].output + 1 \in 0..Capacity
      BY <2>1, <2>3, Chunks
    <3>2. tty' = [[tty EXCEPT ![s].input = tty[s].input - 1] EXCEPT ![s].output = tty[s].output + 1]
      BY <1>0, <2>3 DEF Ttys, Tty
    <3>3. tty' \in Ttys
      BY <1>0, <2>2, <3>1, <3>2, TtyType
    <3>4. QED
      BY <1>0, <1>11, <3>3 DEF ReadsInput, Program
  <2>4. CASE tty' = [tty EXCEPT ![s].input = @ - 1]
    <3>1. tty' \in Ttys
      BY <1>0, <2>2, <2>4, TtyType
    <3>2. QED
      BY <1>0, <1>11, <3>1 DEF ReadsInput, Program
  <2>5. QED
    BY <1>11, <2>3, <2>4 DEF ReadsInput
<1>12. ASSUME NEW s \in Sessions, Exits(s) PROVE Typed'
  BY <1>0, <1>12, TtyFlags DEF Exits, Program
<1>13. ASSUME NEW s \in Sessions, JobEnds(s) PROVE Typed'
  BY <1>0, <1>13, TtyFlags DEF JobEnds, Program
<1>14. ASSUME NEW c \in Conns, Attach(c) PROVE Typed'
  <2>1. PICK s \in Sessions :
          /\ listed' = listed \ Stale
          /\ ses' = [Freed(Stale) EXCEPT ![s].authenticated = TRUE, ![s].conn = c]
          /\ work' = [work EXCEPT ![c] = [pc |-> "fork", ses |-> s]]
    BY <1>14 DEF Attach
  <2>2. work' \in Works
    BY <1>0, <2>1, WorkType, WorkPcs
  <2>3. ses' \in Cells
    BY <1>0, <2>1, FreedType, SessionType
  <2>4. QED
    BY <1>0, <1>14, <2>1, <2>2, <2>3 DEF Attach
<1>15. ASSUME NEW c \in Conns, Fork(c) PROVE Typed'
  <2>1. work[c].ses \in Sessions
    BY <1>0, <1>15, WorkType DEF Fork, HasSession
  <2>2. CASE Goes(c, "unspawn") /\ UNCHANGED <<ses, tty>>
    BY <1>0, <1>15, <2>2, WorkerMoves, WorkPcs DEF Fork
  <2>3. CASE ~(Goes(c, "unspawn") /\ UNCHANGED <<ses, tty>>)
    <3>1. PICK m \in Manners :
            /\ ses' = [ses EXCEPT ![work[c].ses].fd = TRUE]
            /\ tty' = [tty EXCEPT ![work[c].ses] = [NoTty EXCEPT !.shell = "runs", !.manner = m]]
            /\ Goes(c, "child")
      BY <1>15, <2>3 DEF Fork
    <3>2. ses' \in Cells /\ tty' \in Ttys /\ work' \in Works
      BY <1>0, <2>1, <3>1, SessionType, TtyType, ShellType, WorkerMoves, WorkPcs
    <3>3. QED
      BY <1>0, <1>15, <3>2 DEF Fork
  <2>4. QED
    BY <2>2, <2>3
<1>16. ASSUME NEW c \in Conns, StartReader(c) PROVE Typed'
  <2>1. work[c].ses \in Sessions
    BY <1>0, <1>16, WorkType DEF StartReader, HasSession
  <2>2. CASE /\ ses' = [ses EXCEPT ![work[c].ses].child = TRUE]
             /\ reader' = [reader EXCEPT ![work[c].ses] = [pc |-> "loop", conn |-> NoConn]]
             /\ Goes(c, "ready") /\ UNCHANGED tty
    <3>1. ses' \in Cells /\ reader' \in Readers /\ work' \in Works
      BY <1>0, <2>1, <2>2, SessionType, ReaderType, ReaderPcs, WorkerMoves, WorkPcs
    <3>2. QED
      BY <1>0, <1>16, <2>2, <3>1 DEF StartReader
  <2>3. CASE /\ ses' = [ses EXCEPT ![work[c].ses].fd = FALSE]
             /\ tty' = [tty EXCEPT ![work[c].ses].shell = "gone"]
             /\ Goes(c, "unspawn") /\ UNCHANGED reader
    <3>1. ses' \in Cells /\ tty' \in Ttys /\ work' \in Works
      BY <1>0, <2>1, <2>3, SessionType, TtyFlags, WorkerMoves, WorkPcs
    <3>2. QED
      BY <1>0, <1>16, <2>3, <3>1 DEF StartReader
  <2>4. QED
    BY <1>16, <2>2, <2>3 DEF StartReader
<1>17. ASSUME NEW c \in Conns, Unspawn(c) PROVE Typed'
  <2>1. work[c].ses \in Sessions
    BY <1>0, <1>17, WorkType DEF Unspawn, HasSession
  <2>2. QED
    BY <1>0, <1>17, <2>1, WorkerMoves, WorkPcs, FreeTypes DEF Unspawn
<1>18. ASSUME NEW c \in Conns, WriteInput(c) PROVE Typed'
  <2>1. work[c].ses \in Sessions /\ work' \in Works
    BY <1>0, <1>18, WorkType, WorkerMoves, WorkPcs DEF WriteInput, HasSession
  <2>2. tty' \in Ttys
    <3>1. CASE tty[work[c].ses].input < Capacity
               /\ tty' = [tty EXCEPT ![work[c].ses].input = @ + 1]
      <4>1. tty[work[c].ses].input + 1 \in 0..Capacity
        BY <1>0, <2>1, <3>1, TtyType, Chunks
      <4>2. QED
        BY <1>0, <2>1, <3>1, <4>1, TtyType
    <3>2. QED
      BY <1>0, <1>18, <3>1 DEF WriteInput
  <2>3. QED
    BY <1>0, <1>18, <2>1, <2>2 DEF WriteInput
<1>19. ASSUME NEW c \in Conns, Hang(c) PROVE Typed'
  <2>1. work[c].ses \in Sessions
    BY <1>0, <1>19, WorkType DEF Hang, HasSession
  <2>2. QED
    BY <1>0, <1>19, <2>1, WorkerMoves, WorkPcs, HangUpType, SessionType DEF Hang
<1>20. ASSUME NEW c \in Conns, Unlist(c) PROVE Typed'
  BY <1>0, <1>20, WorkerMoves, WorkPcs DEF Unlist
<1>21. ASSUME NEW c \in Conns, Join(c) PROVE Typed'
  BY <1>0, <1>21, WorkerMoves, WorkPcs DEF Join
<1>22. ASSUME NEW c \in Conns, Reap(c) PROVE Typed'
  <2>1. work[c].ses \in Sessions
    BY <1>0, <1>22, WorkType DEF Reap, HasSession
  <2>2. QED
    BY <1>0, <1>22, <2>1, WorkerMoves, WorkPcs, FreeTypes DEF Reap
<1>23. ASSUME NEW c \in Conns, Connect(c) PROVE Typed'
  BY <1>0, <1>23, WorkerMoves, WorkPcs DEF Connect
<1>24. ASSUME NEW c \in Conns, Refuse(c) PROVE Typed'
  BY <1>0, <1>24, WorkerMoves, WorkPcs, PruneTypes DEF Refuse
<1>25. ASSUME NEW c \in Conns, Input(c) PROVE Typed'
  <2>1. work[c].ses \in Sessions
    BY <1>0, <1>25, WorkType DEF Input, HasSession
  <2>2. QED
    BY <1>0, <1>25, <2>1, WorkerMoves, WorkPcs DEF Input
<1>26. ASSUME NEW c \in Conns, Leave(c) PROVE Typed'
  BY <1>0, <1>26, WorkerMoves, WorkPcs DEF Leave
<1>27. CASE TurnOn
  BY <1>0, <1>27 DEF TurnOn, SaveSettings
<1>28. CASE TurnOff
  BY <1>0, <1>28, UiMoves, UiPcs DEF TurnOff, SaveSettings
<1>29. CASE StopServer
  BY <1>0, <1>29, UiType, UiPcs, BlankTypes DEF StopServer
<1>30. CASE Sweep
  BY <1>0, <1>30, UiType, UiPcs, BlankTypes DEF Sweep
<1>31. CASE CloseSocket
  <2>1. ui' = [ui EXCEPT !.pc = "close", !.ses = NoSession, !.conn = NoConn]
    BY <1>31 DEF CloseSocket
  <2>2. ui' \in UiState
    BY <1>0, <2>1, UiType, UiPcs
  <2>3. told' \subseteq Conns
    BY <1>0, <1>31, UiType DEF CloseSocket, HasSocket
  <2>4. QED
    BY <1>0, <1>31, <2>2, <2>3 DEF CloseSocket
<1>32. CASE AllClosed
  BY <1>0, <1>32, UiMoves, UiPcs DEF AllClosed
<1>33. CASE Stopped
  BY <1>0, <1>33, UiMoves, UiPcs DEF Stopped
<1>34. ASSUME NEW s \in Sessions, DestroyPending(s) PROVE Typed'
  BY <1>0, <1>34, FreeTypes, UiType, UiPcs, BlankTypes DEF DestroyPending
<1>35. ASSUME NEW s \in Sessions, HangActive(s) PROVE Typed'
  BY <1>0, <1>35, HangUpType, SessionType, UiType, UiPcs, BlankTypes DEF HangActive
<1>36. CASE Resume
  BY <1>0, <1>36, UiType, UiPcs, BlankTypes DEF Resume
<1>37. CASE Relaunch
  BY <1>0, <1>37, FreedType, UiType, UiPcs, BlankTypes DEF Relaunch
<1>38. QED
  BY <1>1, <1>2, <1>3, <1>4, <1>5, <1>6, <1>7, <1>8, <1>9, <1>10, <1>11, <1>12, <1>13, <1>14,
     <1>15, <1>16, <1>17, <1>18, <1>19, <1>20, <1>21, <1>22, <1>23, <1>24, <1>25, <1>26, <1>27,
     <1>28, <1>29, <1>30, <1>31, <1>32, <1>33, <1>34, <1>35, <1>36, <1>37
     DEF Step, Worker, Reader, Screen, Programs, Browser

-----------------------------------------------------------------------------
(* Who holds what *)

\* At most one worker has a session: a ticket is spent as it is attached.
OneWorker == \A c, d \in Conns : work[c].ses = work[d].ses /\ work[c].ses # NoSession => c = d

\* The session a worker has was attached, and is let go of step by step.
WorkersAgree ==
    \A c \in Conns, s \in Sessions : work[c].ses = s =>
        /\ ses[s].live => ses[s].authenticated
        /\ issuing # s
        /\ work[c].pc \in {"unlist", "join", "reap"} => ses[s].conn = NoConn
        /\ work[c].pc \in {"join", "reap"} => s \notin listed
        /\ work[c].pc = "reap" => reader[s].pc \in {"none", "done"}

\* A listed session is not freed, one whose ticket is about to be answered does
\* not expire, and the sockets of a session and of its reader are its worker's.
CellsAgree ==
    \A s \in Sessions :
        /\ s \in listed => ses[s].live
        /\ ses[s].expired => issuing # s
        /\ ses[s].conn # NoConn => work[ses[s].conn].ses = s
        /\ reader[s].conn # NoConn =>
              work[reader[s].conn].ses = s /\ reader[s].pc \in {"send", "bye"}

HasReader(c) == work[c].pc \in {"ready", "write", "hang", "unlist", "join", "reap"}

\* A reader and a shell have a worker, and a shell has a session.
WorkedOn ==
    \A s \in Sessions :
        /\ reader[s].pc # "none" => \E c \in Conns : work[c].ses = s /\ HasReader(c)
        /\ tty[s].shell = "runs" =>
              /\ ses[s].live
              /\ \E c \in Conns : work[c].ses = s /\ (HasReader(c) \/ work[c].pc = "child")

\* What close-all has in hand it swept, and what it destroys is not listed; a
\* server that is down has no workers.
SweepAgrees ==
    /\ ui.pending \cap listed = {}
    /\ ui.pending \cup ui.active \subseteq swept
    /\ ui.pc \notin {"close", "bye"} => ui.pending = {} /\ ui.active = {}
    /\ ui.pc = "down" => issuing = NoSession /\ \A c \in Conns : work[c].pc = "none"

TerminalInv ==
    /\ HasSession /\ HasSocket /\ OneWorker /\ WorkersAgree /\ CellsAgree /\ WorkedOn
    /\ SweepAgrees /\ OnlySweptDangle

-----------------------------------------------------------------------------
(* The steps *)

\* A session that prune frees because its ticket ran out is nobody's.
LEMMA PrunedIsFree ==
    ASSUME Typed, TerminalInv, NEW p \in Stale
    PROVE  /\ p \in Sessions /\ p \in listed
           /\ \A c \in Conns : work[c].ses # p
           /\ issuing # p /\ ses[p].conn = NoConn
           /\ reader[p].pc = "none" /\ tty[p].shell # "runs" /\ p \notin ui.pending
           /\ p \in ui.active => p \in swept
<1>1. /\ p \in Sessions /\ p \in listed /\ ses[p].live
      /\ ~ses[p].authenticated /\ ses[p].expired /\ ses[p].conn \in Conns \cup {NoConn}
  BY DEF Stale, Typed, TerminalInv, CellsAgree, Cells, Session
<1>2. \A c \in Conns : work[c].ses # p
  BY <1>1 DEF TerminalInv, WorkersAgree
<1>3. issuing # p /\ ses[p].conn = NoConn
  BY <1>1, <1>2 DEF TerminalInv, CellsAgree
<1>4. reader[p].pc = "none" /\ tty[p].shell # "runs"
  BY <1>1, <1>2 DEF TerminalInv, WorkedOn
<1>5. p \notin ui.pending /\ (p \in ui.active => p \in swept)
  BY <1>1 DEF TerminalInv, SweepAgrees
<1>6. QED
  BY <1>1, <1>2, <1>3, <1>4, <1>5

LEMMA FreedCells ==
    ASSUME NEW S, NEW t \in Sessions
    PROVE  /\ t \notin S => Freed(S)[t] = ses[t]
           /\ t \in S => /\ ~Freed(S)[t].live /\ ~Freed(S)[t].authenticated
                         /\ ~Freed(S)[t].expired /\ Freed(S)[t].conn = NoConn
  BY DEF Freed, Blank

LEMMA PruneKeeps ==
    ASSUME Typed, TerminalInv, Prune, UNCHANGED <<reader, tty, issuing, ui, swept>>,
           \A c \in Conns : /\ work'[c].ses = work[c].ses
                            /\ \/ work'[c].pc = work[c].pc
                               \/ work[c].pc = "open" /\ work'[c].pc = "none"
    PROVE  TerminalInv'
<1>1. /\ \A t \in Sessions \ Stale : ses'[t] = ses[t]
      /\ \A t \in Stale : ~ses'[t].live /\ ~ses'[t].expired /\ ses'[t].conn = NoConn
      /\ listed' = listed \ Stale
  BY FreedCells, PrunedIsFree DEF Prune
<1>2. HasSession' /\ HasSocket' /\ OneWorker'
  BY DEF TerminalInv, HasSession, HasSocket, OneWorker
<1>3. WorkersAgree'
  BY <1>1, PrunedIsFree DEF TerminalInv, WorkersAgree
<1>4. CellsAgree'
  <2> SUFFICES ASSUME NEW s \in Sessions
               PROVE  /\ s \in listed' => ses'[s].live
                      /\ ses'[s].expired => issuing' # s
                      /\ ses'[s].conn # NoConn => work'[ses'[s].conn].ses = s
                      /\ reader'[s].conn # NoConn =>
                            work'[reader'[s].conn].ses = s /\ reader'[s].pc \in {"send", "bye"}
    BY DEF CellsAgree
  <2>1. ses[s].conn \in Conns \cup {NoConn} /\ reader[s].conn \in Conns \cup {NoConn}
    BY SessionType, ReaderType DEF Typed
  <2>2. QED
    BY <1>1, <2>1, PrunedIsFree DEF TerminalInv, CellsAgree
<1>5. WorkedOn'
  <2>1. \A c \in Conns : HasReader(c) => HasReader(c)' /\ work'[c].pc = work[c].pc
    BY DEF HasReader
  <2>2. \A s \in Sessions, c \in Conns : work[c].ses = s => s \notin Stale
    BY PrunedIsFree
  <2>3. QED
    BY <1>1, <2>1, <2>2 DEF TerminalInv, WorkedOn
<1>6. SweepAgrees'
  BY <1>1 DEF TerminalInv, SweepAgrees, HasSession
<1>7. OnlySweptDangle'
  BY <1>1, PrunedIsFree DEF TerminalInv, OnlySweptDangle, Dangling, Held
<1>8. QED
  BY <1>2, <1>3, <1>4, <1>5, <1>6, <1>7 DEF TerminalInv

LEMMA TicketKeeps ==
    ASSUME Typed, TerminalInv, RequestTicket
    PROVE  TerminalInv'
<1>1. CASE Prune /\ UNCHANGED <<issuing, swept>>
  BY <1>1, PruneKeeps DEF RequestTicket
<1>2. CASE ~(Prune /\ UNCHANGED <<issuing, swept>>)
  <2>1. PICK s \in Sessions \ (listed \ Stale) :
          /\ ~Held(s) /\ (ses[s].live => s \in Stale)
          /\ listed' = (listed \ Stale) \cup {s}
          /\ ses' = [Freed(Stale) EXCEPT ![s] = [Blank EXCEPT !.live = TRUE]]
          /\ swept' = swept \ {s}
          /\ issuing' = s
    BY <1>2 DEF RequestTicket
  <2>2. Serving /\ UNCHANGED <<reader, tty, work, ui>>
    BY DEF RequestTicket
  <2>3. /\ \A t \in Sessions \ Stale : t # s => ses'[t] = ses[t]
        /\ \A t \in Stale \ {s} : ~ses'[t].live /\ ~ses'[t].expired /\ ses'[t].conn = NoConn
        /\ ses'[s].live /\ ~ses'[s].expired /\ ses'[s].conn = NoConn
    <3>1. \A t \in Sessions : ses'[t] = IF t = s THEN [Blank EXCEPT !.live = TRUE]
                                                 ELSE Freed(Stale)[t]
      BY <2>1 DEF Freed
    <3>2. QED
      BY <3>1, FreedCells, PrunedIsFree DEF Blank
  <2>4. /\ \A c \in Conns : work[c].ses # s
        /\ issuing # s /\ s \notin ui.pending /\ s \notin ui.active
        /\ reader[s].pc \in {"none", "done"}
    BY <2>1 DEF Held
  <2>5. reader[s].pc = "none" /\ tty[s].shell # "runs" /\ reader[s].conn = NoConn
    BY <2>4 DEF TerminalInv, WorkedOn, CellsAgree
  <2>6. HasSession' /\ HasSocket' /\ OneWorker'
    BY <2>2 DEF TerminalInv, HasSession, HasSocket, OneWorker
  <2>7. WorkersAgree'
    BY <2>1, <2>2, <2>3, <2>4, PrunedIsFree DEF TerminalInv, WorkersAgree
  <2>8. CellsAgree'
    <3> SUFFICES ASSUME NEW t \in Sessions
                 PROVE  /\ t \in listed' => ses'[t].live
                        /\ ses'[t].expired => issuing' # t
                        /\ ses'[t].conn # NoConn => work'[ses'[t].conn].ses = t
                        /\ reader'[t].conn # NoConn =>
                              work'[reader'[t].conn].ses = t /\ reader'[t].pc \in {"send", "bye"}
      BY DEF CellsAgree
    <3>1. CASE t = s
      BY <2>1, <2>2, <2>3, <2>5, <3>1
    <3>2. CASE t # s /\ t \in Stale
      BY <2>1, <2>2, <2>3, <3>2 DEF TerminalInv, CellsAgree
    <3>3. CASE t # s /\ t \notin Stale
      BY <2>1, <2>2, <2>3, <3>3 DEF TerminalInv, CellsAgree
    <3>4. QED
      BY <3>1, <3>2, <3>3
  <2>9. WorkedOn'
    <3>1. \A t \in Sessions, c \in Conns : work[c].ses = t => t \notin Stale /\ t # s
      BY <2>4, PrunedIsFree
    <3>2. \A c \in Conns : HasReader(c) <=> HasReader(c)'
      BY <2>2 DEF HasReader
    <3>3. QED
      BY <2>2, <2>3, <3>1, <3>2 DEF TerminalInv, WorkedOn
  <2>10. SweepAgrees'
    BY <2>1, <2>2, <2>4 DEF TerminalInv, SweepAgrees, Serving
  <2>11. OnlySweptDangle'
    <3> SUFFICES ASSUME NEW t \in Sessions, Dangling(t)' PROVE t \in swept'
      BY DEF OnlySweptDangle
    <3>1. t # s /\ Held(t)
      BY <2>1, <2>2, <2>3 DEF Dangling, Held
    <3>2. CASE t \in Stale
      BY <2>1, <2>2, <3>1, <3>2, PrunedIsFree DEF Held
    <3>3. CASE t \notin Stale
      BY <2>1, <2>3, <3>1, <3>3 DEF TerminalInv, OnlySweptDangle, Dangling
    <3>4. QED
      BY <3>2, <3>3
  <2>12. QED
    BY <2>6, <2>7, <2>8, <2>9, <2>10, <2>11 DEF TerminalInv
<1>3. QED
  BY <1>1, <1>2

LEMMA AttachKeeps ==
    ASSUME Typed, TerminalInv, NEW c \in Conns, Attach(c)
    PROVE  TerminalInv'
<1>1. PICK s \in Sessions :
        /\ FindTicket(s) /\ issuing # s
        /\ listed' = listed \ Stale
        /\ ses' = [Freed(Stale) EXCEPT ![s].authenticated = TRUE, ![s].conn = c]
        /\ work' = [work EXCEPT ![c] = [pc |-> "fork", ses |-> s]]
  BY DEF Attach
<1>2. /\ work[c].pc = "open" /\ Serving /\ work[c].ses = NoSession
      /\ UNCHANGED <<reader, tty, issuing, ui, swept>>
  BY DEF Attach, TerminalInv, HasSession
<1>3. s \in listed /\ s \notin Stale /\ ~ses[s].authenticated /\ ses[s].live
  BY <1>1 DEF FindTicket, TerminalInv, CellsAgree
<1>4. /\ \A t \in Sessions \ Stale : t # s => ses'[t] = ses[t]
      /\ \A t \in Stale : ~ses'[t].live /\ ~ses'[t].expired /\ ses'[t].conn = NoConn
      /\ ses'[s].live /\ ses'[s].authenticated /\ ses'[s].conn = c
  <2>1. Freed(Stale) \in Cells
    BY FreedType DEF Typed
  <2>2. /\ \A t \in Sessions : t # s => ses'[t] = Freed(Stale)[t]
        /\ ses'[s].live = Freed(Stale)[s].live
        /\ ses'[s].authenticated /\ ses'[s].conn = c
    BY <1>1, <2>1 DEF Cells, Session
  <2>3. QED
    BY <1>3, <2>2, FreedCells, PrunedIsFree
<1>5. /\ work'[c].pc = "fork" /\ work'[c].ses = s
      /\ \A d \in Conns : d # c => work'[d] = work[d]
  BY <1>1 DEF Typed, Works
<1>6. \A d \in Conns : work[d].ses # s
  BY <1>3 DEF TerminalInv, WorkersAgree
<1>7. reader[s].pc = "none" /\ tty[s].shell # "runs" /\ reader[s].conn = NoConn
  BY <1>6 DEF TerminalInv, WorkedOn, CellsAgree
<1>8. HasSession' /\ HasSocket' /\ OneWorker'
  BY <1>2, <1>5, <1>6, TerminalAssumption DEF TerminalInv, HasSession, HasSocket, OneWorker
<1>9. WorkersAgree'
  <2> SUFFICES ASSUME NEW d \in Conns, NEW t \in Sessions, work'[d].ses = t
               PROVE  /\ ses'[t].live => ses'[t].authenticated
                      /\ issuing' # t
                      /\ work'[d].pc \in {"unlist", "join", "reap"} => ses'[t].conn = NoConn
                      /\ work'[d].pc \in {"join", "reap"} => t \notin listed'
                      /\ work'[d].pc = "reap" => reader'[t].pc \in {"none", "done"}
    BY DEF WorkersAgree
  <2>1. CASE d = c
    BY <1>1, <1>2, <1>4, <1>5, <2>1
  <2>2. CASE d # c
    <3>1. work[d].ses = t /\ work'[d] = work[d] /\ t # s /\ t \notin Stale
      BY <1>5, <1>6, <2>2, PrunedIsFree
    <3>2. ses'[t] = ses[t] /\ (t \in listed' => t \in listed)
      BY <1>1, <1>4, <3>1
    <3>3. QED
      BY <1>2, <3>1, <3>2 DEF TerminalInv, WorkersAgree
  <2>3. QED
    BY <2>1, <2>2
<1>10. CellsAgree'
  <2> SUFFICES ASSUME NEW t \in Sessions
               PROVE  /\ t \in listed' => ses'[t].live
                      /\ ses'[t].expired => issuing' # t
                      /\ ses'[t].conn # NoConn => work'[ses'[t].conn].ses = t
                      /\ reader'[t].conn # NoConn =>
                            work'[reader'[t].conn].ses = t /\ reader'[t].pc \in {"send", "bye"}
    BY DEF CellsAgree
  <2>0. ses[t].conn \in Conns \cup {NoConn} /\ reader[t].conn \in Conns \cup {NoConn}
    BY SessionType, ReaderType DEF Typed
  <2>1. CASE t = s
    BY <1>1, <1>2, <1>4, <1>5, <1>7, <2>1
  <2>2. CASE t # s /\ t \in Stale
    <3>1. reader[t].conn = NoConn
      BY <2>2, PrunedIsFree DEF TerminalInv, CellsAgree
    <3>2. QED
      BY <1>1, <1>2, <1>4, <2>2, <3>1
  <2>3. CASE t # s /\ t \notin Stale
    <3>1. /\ ses[t].conn # NoConn => work'[ses[t].conn].ses = t
          /\ reader[t].conn # NoConn => work'[reader[t].conn].ses = t
      BY <1>2, <1>5, <2>0, TerminalAssumption DEF TerminalInv, CellsAgree
    <3>2. ses'[t] = ses[t] /\ (t \in listed' => t \in listed)
      BY <1>1, <1>4, <2>3
    <3>3. QED
      BY <1>2, <3>1, <3>2 DEF TerminalInv, CellsAgree
  <2>4. QED
    BY <2>1, <2>2, <2>3
<1>11. WorkedOn'
  <2>1. \A t \in Sessions, d \in Conns : work[d].ses = t => t \notin Stale /\ t # s /\ d # c
    BY <1>2, <1>6, PrunedIsFree, TerminalAssumption
  <2>2. \A d \in Conns : d # c => (HasReader(d) <=> HasReader(d)') /\ work'[d] = work[d]
    BY <1>5 DEF HasReader
  <2>3. QED
    BY <1>2, <1>4, <1>7, <2>1, <2>2 DEF TerminalInv, WorkedOn
<1>12. SweepAgrees'
  BY <1>1, <1>2, <1>5 DEF TerminalInv, SweepAgrees, Serving
<1>13. OnlySweptDangle'
  <2> SUFFICES ASSUME NEW t \in Sessions, Dangling(t)' PROVE t \in swept'
    BY DEF OnlySweptDangle
  <2>1. t # s /\ Held(t)
    BY <1>2, <1>4, <1>5 DEF Dangling, Held
  <2>2. CASE t \in Stale
    BY <1>2, <2>1, <2>2, PrunedIsFree DEF Held
  <2>3. CASE t \notin Stale
    BY <1>2, <1>4, <2>1, <2>3 DEF TerminalInv, OnlySweptDangle, Dangling
  <2>4. QED
    BY <2>2, <2>3
<1>14. QED
  BY <1>8, <1>9, <1>10, <1>11, <1>12, <1>13 DEF TerminalInv

\* Most steps of the readers, the programs and the workers: nothing is freed or
\* attached, and a reader gets no socket but the session's.
LEMMA QuietKeeps ==
    ASSUME Typed, TerminalInv, UNCHANGED <<listed, ui, swept>>,
           issuing' \in {issuing, NoSession},
           \A s \in Sessions :
              /\ ses'[s].live = ses[s].live /\ ses'[s].authenticated = ses[s].authenticated
              /\ ses'[s].conn = ses[s].conn
              /\ ses'[s].expired = ses[s].expired \/ issuing' # s
              /\ tty'[s].shell = "runs" => tty[s].shell = "runs"
              /\ reader'[s].pc = "none" <=> reader[s].pc = "none"
              /\ reader[s].pc = "done" => reader'[s].pc = "done"
              /\ \/ reader'[s].pc = reader[s].pc /\ reader'[s].conn = reader[s].conn
                 \/ reader'[s].conn = NoConn
                 \/ reader'[s].conn = ses[s].conn /\ reader'[s].pc \in {"send", "bye"},
           \A c \in Conns :
              /\ work'[c].ses = work[c].ses
              /\ \/ work'[c].pc = work[c].pc
                 \/ {work[c].pc, work'[c].pc} \subseteq {"ready", "write"}
                 \/ work[c].pc = "ready" /\ work'[c].pc = "hang"
                 \/ work[c].pc = "none" /\ work'[c].pc = "open" /\ Serving
                 \/ work[c].pc = "open" /\ work'[c].pc = "none"
    PROVE  TerminalInv'
<1>1. HasSession' /\ HasSocket' /\ OneWorker'
  BY DEF TerminalInv, HasSession, HasSocket, OneWorker
<1>2. WorkersAgree'
  BY TerminalAssumption DEF TerminalInv, WorkersAgree
<1>3. CellsAgree'
  <2> SUFFICES ASSUME NEW s \in Sessions
               PROVE  /\ s \in listed' => ses'[s].live
                      /\ ses'[s].expired => issuing' # s
                      /\ ses'[s].conn # NoConn => work'[ses'[s].conn].ses = s
                      /\ reader'[s].conn # NoConn =>
                            work'[reader'[s].conn].ses = s /\ reader'[s].pc \in {"send", "bye"}
    BY DEF CellsAgree
  <2>1. ses[s].conn \in Conns \cup {NoConn} /\ reader[s].conn \in Conns \cup {NoConn}
    BY SessionType, ReaderType DEF Typed
  <2>2. s \in listed' => ses'[s].live
    BY DEF TerminalInv, CellsAgree
  <2>3. ses'[s].expired => issuing' # s
    BY TerminalAssumption DEF TerminalInv, CellsAgree
  <2>4. ses'[s].conn # NoConn => work'[ses'[s].conn].ses = s
    BY <2>1 DEF TerminalInv, CellsAgree
  <2>5. reader'[s].conn # NoConn =>
           work'[reader'[s].conn].ses = s /\ reader'[s].pc \in {"send", "bye"}
    BY <2>1 DEF TerminalInv, CellsAgree
  <2>6. QED
    BY <2>2, <2>3, <2>4, <2>5
<1>4. WorkedOn'
  <2>1. \A c \in Conns : /\ HasReader(c) => HasReader(c)'
                         /\ work[c].pc = "child" => work'[c].pc = "child"
    BY DEF HasReader
  <2>2. QED
    BY <2>1 DEF TerminalInv, WorkedOn
<1>5. SweepAgrees'
  BY TerminalAssumption DEF TerminalInv, SweepAgrees, Serving
<1>6. OnlySweptDangle'
  <2> SUFFICES ASSUME NEW s \in Sessions, Dangling(s)' PROVE s \in swept'
    BY DEF OnlySweptDangle
  <2>1. Held(s)
    BY ReaderType, TerminalAssumption DEF Dangling, Held
  <2>2. QED
    BY <2>1 DEF TerminalInv, OnlySweptDangle, Dangling
<1>7. QED
  BY <1>1, <1>2, <1>3, <1>4, <1>5, <1>6 DEF TerminalInv

LEMMA ForkKeeps ==
    ASSUME Typed, TerminalInv, ~Broken, NEW c \in Conns, Fork(c)
    PROVE  TerminalInv'
<1> DEFINE s == work[c].ses
<1>1. /\ s \in Sessions /\ work[c].pc = "fork" /\ ses[s].live
      /\ UNCHANGED <<listed, reader, issuing, ui, swept>>
  BY WorkType DEF Fork, Typed, TerminalInv, HasSession, Broken, Dangling, Held
<1>2. /\ \A t \in Sessions : /\ ses'[t].live = ses[t].live
                             /\ ses'[t].authenticated = ses[t].authenticated
                             /\ ses'[t].conn = ses[t].conn /\ ses'[t].expired = ses[t].expired
                             /\ tty'[t].shell = "runs" =>
                                   tty[t].shell = "runs" \/ (t = s /\ work'[c].pc = "child")
      /\ work'[c].ses = s /\ work'[c].pc \in {"child", "unspawn"}
      /\ \A d \in Conns : d # c => work'[d] = work[d]
  <2>1. CASE Goes(c, "unspawn") /\ UNCHANGED <<ses, tty>>
    BY <2>1 DEF Typed, Goes, Works, WorkState
  <2>2. CASE ~(Goes(c, "unspawn") /\ UNCHANGED <<ses, tty>>)
    <3>1. PICK m \in Manners :
            /\ ses' = [ses EXCEPT ![work[c].ses].fd = TRUE]
            /\ tty' = [tty EXCEPT ![work[c].ses] = [NoTty EXCEPT !.shell = "runs", !.manner = m]]
            /\ Goes(c, "child")
      BY <2>2 DEF Fork
    <3>2. /\ \A d \in Conns : d # c => work'[d] = work[d]
          /\ work'[c].ses = s /\ work'[c].pc = "child"
      BY <3>1 DEF Typed, Goes, Works, WorkState
    <3>3. \A t \in Sessions : /\ ses'[t].live = ses[t].live
                              /\ ses'[t].authenticated = ses[t].authenticated
                              /\ ses'[t].conn = ses[t].conn /\ ses'[t].expired = ses[t].expired
      BY <3>1 DEF Typed, Cells, Session
    <3>4. \A t \in Sessions : t # s => tty'[t] = tty[t]
      BY <3>1 DEF Typed, Ttys
    <3>5. QED
      BY <3>2, <3>3, <3>4
  <2>3. QED
    BY <2>1, <2>2
<1> HIDE DEF s
<1>3. HasSession' /\ HasSocket' /\ OneWorker'
  BY <1>1, <1>2, TerminalAssumption DEF TerminalInv, HasSession, HasSocket, OneWorker, s
<1>4. WorkersAgree'
  BY <1>1, <1>2 DEF TerminalInv, WorkersAgree, s
<1>5. CellsAgree'
  <2>1. \A d \in Conns : work'[d].ses = work[d].ses
    BY <1>2 DEF s
  <2>2. \A t \in Sessions : /\ ses[t].conn \in Conns \cup {NoConn}
                            /\ reader[t].conn \in Conns \cup {NoConn}
    BY SessionType, ReaderType DEF Typed
  <2>3. QED
    BY <1>1, <1>2, <2>1, <2>2 DEF TerminalInv, CellsAgree
<1>6. WorkedOn'
  <2>1. \A d \in Conns : /\ d # c => (HasReader(d) <=> HasReader(d)')
                         /\ d = c => ~HasReader(d)
    BY <1>1, <1>2 DEF HasReader
  <2>2. \A d \in Conns : work[d].ses = s => d = c
    BY <1>1, TerminalAssumption DEF TerminalInv, OneWorker, s
  <2>3. tty[s].shell # "runs" /\ reader[s].pc = "none"
    BY <1>1, <2>1, <2>2 DEF TerminalInv, WorkedOn
  <2>4. QED
    BY <1>1, <1>2, <2>1, <2>3 DEF TerminalInv, WorkedOn
<1>7. SweepAgrees'
  BY <1>1, <1>2 DEF TerminalInv, SweepAgrees
<1>8. OnlySweptDangle'
  <2>1. \A t \in Sessions : Held(t)' => Held(t)
    BY <1>1, <1>2 DEF Held, s
  <2>2. QED
    BY <1>1, <1>2, <2>1 DEF TerminalInv, OnlySweptDangle, Dangling
<1>9. QED
  BY <1>3, <1>4, <1>5, <1>6, <1>7, <1>8 DEF TerminalInv

LEMMA StartReaderKeeps ==
    ASSUME Typed, TerminalInv, ~Broken, NEW c \in Conns, StartReader(c)
    PROVE  TerminalInv'
<1> DEFINE s == work[c].ses
<1>1. /\ s \in Sessions /\ work[c].pc = "child" /\ ses[s].live
      /\ UNCHANGED <<listed, issuing, ui, swept>>
  BY WorkType DEF StartReader, Typed, TerminalInv, HasSession, Broken, Dangling, Held
<1>2. /\ \A t \in Sessions : /\ ses'[t].live = ses[t].live
                             /\ ses'[t].authenticated = ses[t].authenticated
                             /\ ses'[t].conn = ses[t].conn /\ ses'[t].expired = ses[t].expired
                             /\ tty'[t].shell = "runs" => tty[t].shell = "runs"
                             /\ t # s => reader'[t] = reader[t]
      /\ work'[c].ses = s
      /\ \/ work'[c].pc = "ready" /\ reader'[s] = [pc |-> "loop", conn |-> NoConn]
         \/ work'[c].pc = "unspawn" /\ reader'[s] = reader[s] /\ tty'[s].shell # "runs"
      /\ \A d \in Conns : d # c => work'[d] = work[d]
  <2>1. CASE /\ ses' = [ses EXCEPT ![work[c].ses].child = TRUE]
             /\ reader' = [reader EXCEPT ![work[c].ses] = [pc |-> "loop", conn |-> NoConn]]
             /\ Goes(c, "ready") /\ UNCHANGED tty
    BY <1>1, <2>1 DEF Typed, Goes, Works, WorkState, Cells, Session, Readers
  <2>2. CASE /\ ses' = [ses EXCEPT ![work[c].ses].fd = FALSE]
             /\ tty' = [tty EXCEPT ![work[c].ses].shell = "gone"]
             /\ Goes(c, "unspawn") /\ UNCHANGED reader
    BY <1>1, <2>2 DEF Typed, Goes, Works, WorkState, Cells, Session, Ttys, Tty
  <2>3. QED
    BY <2>1, <2>2 DEF StartReader
<1>3. \A d \in Conns : (work[d].ses = s <=> d = c) /\ work'[d].ses = work[d].ses
  BY <1>1, <1>2, TerminalAssumption DEF TerminalInv, OneWorker, s
<1> HIDE DEF s
<1>4. reader[s].pc = "none" /\ reader[s].conn = NoConn
  BY <1>1, <1>3 DEF TerminalInv, WorkedOn, CellsAgree, HasReader
<1>5. HasSession' /\ HasSocket' /\ OneWorker'
  BY <1>1, <1>2, <1>3, TerminalAssumption DEF TerminalInv, HasSession, HasSocket, OneWorker
<1>6. WorkersAgree'
  BY <1>1, <1>2, <1>3 DEF TerminalInv, WorkersAgree
<1>7. CellsAgree'
  <2>1. \A t \in Sessions : /\ ses[t].conn \in Conns \cup {NoConn}
                            /\ reader[t].conn \in Conns \cup {NoConn}
    BY SessionType, ReaderType DEF Typed
  <2>2. \A t \in Sessions : /\ t = s => reader'[t].conn = NoConn
                            /\ t # s => reader'[t] = reader[t]
    BY <1>2, <1>4
  <2>3. QED
    BY <1>1, <1>2, <1>3, <2>1, <2>2 DEF TerminalInv, CellsAgree
<1>8. WorkedOn'
  <2> SUFFICES ASSUME NEW t \in Sessions
               PROVE  /\ reader'[t].pc # "none" => \E d \in Conns : work'[d].ses = t /\ HasReader(d)'
                      /\ tty'[t].shell = "runs" =>
                            /\ ses'[t].live
                            /\ \E d \in Conns : /\ work'[d].ses = t
                                                /\ HasReader(d)' \/ work'[d].pc = "child"
    BY DEF WorkedOn, HasReader
  <2>1. CASE t = s
    BY <1>1, <1>2, <1>3, <1>4, <2>1 DEF HasReader
  <2>2. CASE t # s
    <3>1. \A d \in Conns : work[d].ses = t => work'[d] = work[d] /\ (HasReader(d) <=> HasReader(d)')
      BY <1>2, <1>3, <2>2 DEF HasReader
    <3>2. QED
      BY <1>2, <2>2, <3>1 DEF TerminalInv, WorkedOn
  <2>3. QED
    BY <2>1, <2>2
<1>9. SweepAgrees'
  BY <1>1, <1>2 DEF TerminalInv, SweepAgrees
<1>10. OnlySweptDangle'
  <2>1. \A t \in Sessions : Held(t)' => Held(t)
    BY <1>1, <1>2, <1>3 DEF Held
  <2>2. QED
    BY <1>1, <1>2, <2>1 DEF TerminalInv, OnlySweptDangle, Dangling
<1>11. QED
  BY <1>5, <1>6, <1>7, <1>8, <1>9, <1>10 DEF TerminalInv

LEMMA UnspawnKeeps ==
    ASSUME Typed, TerminalInv, ~Broken, NEW c \in Conns, Unspawn(c) \/ Reap(c)
    PROVE  TerminalInv'
<1> DEFINE s == work[c].ses
<1>1. /\ s \in Sessions /\ work[c].pc \in {"unspawn", "reap"}
      /\ listed' \subseteq listed /\ s \notin listed'
      /\ \A t \in listed : t # s => t \in listed'
      /\ UNCHANGED <<issuing, ui, swept>> /\ Free(s) /\ Ends(c)
      /\ tty[s].shell # "runs" \/ work[c].pc = "unspawn"
  BY WorkType DEF Unspawn, Reap, Typed, TerminalInv, HasSession, WorkersAgree
<1>2. /\ work'[c].ses = NoSession /\ work'[c].pc = "none"
      /\ \A d \in Conns : d # c => work'[d] = work[d]
  BY <1>1 DEF Ends, NoWork, Typed, Works
<1>3. \A d \in Conns : work[d].ses = s => d = c
  BY <1>1, TerminalAssumption DEF TerminalInv, OneWorker
<1> HIDE DEF s
<1>4. /\ reader[s].pc \in {"none", "done"} /\ tty[s].shell # "runs" /\ reader[s].conn = NoConn
      /\ reader[s].pc = "none" \/ work[c].pc = "reap"
  BY <1>1, <1>3 DEF TerminalInv, WorkersAgree, WorkedOn, CellsAgree, HasReader, s
<1>5. /\ \A t \in Sessions : t # s => /\ ses'[t] = ses[t] /\ reader'[t] = reader[t]
                                      /\ tty'[t] = tty[t]
      /\ ~ses'[s].live /\ ~ses'[s].expired /\ ses'[s].conn = NoConn
      /\ reader'[s].pc = "none" /\ reader'[s].conn = NoConn /\ tty'[s].shell # "runs"
  BY <1>1, <1>4 DEF Free, Freed, Blank, NoReader, NoTty, Typed, Readers, Ttys
<1>6. HasSession' /\ HasSocket' /\ OneWorker'
  BY <1>1, <1>2, <1>3, TerminalAssumption DEF TerminalInv, HasSession, HasSocket, OneWorker
<1>7. \A d \in Conns, t \in Sessions : work'[d].ses = t => d # c /\ t # s /\ work'[d] = work[d]
  BY <1>2, <1>3, TerminalAssumption DEF s
<1>8. WorkersAgree'
  BY <1>1, <1>5, <1>7 DEF TerminalInv, WorkersAgree
<1>9. CellsAgree'
  <2> SUFFICES ASSUME NEW t \in Sessions
               PROVE  /\ t \in listed' => ses'[t].live
                      /\ ses'[t].expired => issuing' # t
                      /\ ses'[t].conn # NoConn => work'[ses'[t].conn].ses = t
                      /\ reader'[t].conn # NoConn =>
                            work'[reader'[t].conn].ses = t /\ reader'[t].pc \in {"send", "bye"}
    BY DEF CellsAgree
  <2>0. ses[t].conn \in Conns \cup {NoConn} /\ reader[t].conn \in Conns \cup {NoConn}
    BY SessionType, ReaderType DEF Typed
  <2>1. CASE t = s
    BY <1>1, <1>5, <2>1
  <2>2. CASE t # s
    <3>1. \A d \in Conns : work[d].ses = t => work'[d].ses = t
      BY <1>2, <2>2 DEF s
    <3>2. QED
      BY <1>1, <1>5, <2>0, <2>2, <3>1 DEF TerminalInv, CellsAgree
  <2>3. QED
    BY <2>1, <2>2
<1>10. WorkedOn'
  <2> SUFFICES ASSUME NEW t \in Sessions
               PROVE  /\ reader'[t].pc # "none" => \E d \in Conns : work'[d].ses = t /\ HasReader(d)'
                      /\ tty'[t].shell = "runs" =>
                            /\ ses'[t].live
                            /\ \E d \in Conns : /\ work'[d].ses = t
                                                /\ HasReader(d)' \/ work'[d].pc = "child"
    BY DEF WorkedOn, HasReader
  <2>1. CASE t = s
    BY <1>5, <2>1
  <2>2. CASE t # s
    <3>1. \A d \in Conns : work[d].ses = t => work'[d] = work[d] /\ (HasReader(d) <=> HasReader(d)')
      BY <1>2, <2>2 DEF HasReader, s
    <3>2. QED
      BY <1>5, <2>2, <3>1 DEF TerminalInv, WorkedOn
  <2>3. QED
    BY <2>1, <2>2
<1>11. SweepAgrees'
  BY <1>1, <1>2 DEF TerminalInv, SweepAgrees
<1>12. OnlySweptDangle'
  <2> SUFFICES ASSUME NEW t \in Sessions, Dangling(t)' PROVE t \in swept'
    BY DEF OnlySweptDangle
  <2>1. CASE t = s
    <3>1. t \in ui.pending \cup ui.active
      BY <1>1, <1>5, <1>7, <2>1 DEF Dangling, Held, TerminalInv, WorkersAgree, s
    <3>2. QED
      BY <1>1, <3>1 DEF TerminalInv, SweepAgrees
  <2>2. CASE t # s
    <3>1. Held(t)
      BY <1>1, <1>5, <1>7, <2>2 DEF Dangling, Held
    <3>2. QED
      BY <1>1, <1>5, <2>2, <3>1 DEF TerminalInv, OnlySweptDangle, Dangling
  <2>3. QED
    BY <2>1, <2>2
<1>13. QED
  BY <1>6, <1>8, <1>9, <1>10, <1>11, <1>12 DEF TerminalInv

LEMMA ReaderGoesOn ==
    ASSUME Typed, TerminalInv, NEW s \in Sessions, NEW pc \in ReaderPc \ {"none"},
           reader[s].pc \notin {"none", "send", "bye", "done"}, ReaderGoes(s, pc)
    PROVE  \A t \in Sessions : /\ reader'[t].pc = "none" <=> reader[t].pc = "none"
                               /\ reader[t].pc = "done" => reader'[t].pc = "done"
                               /\ \/ reader'[t] = reader[t]
                                  \/ reader'[t].conn = NoConn
<1>1. reader[s].conn = NoConn
  BY DEF TerminalInv, CellsAgree
<1>2. QED
  BY <1>1 DEF ReaderGoes, Typed, Readers, ReaderState

LEMMA WorkerGoesOn ==
    ASSUME Typed, NEW c \in Conns, NEW pc \in WorkPc, Goes(c, pc)
    PROVE  /\ work'[c].pc = pc /\ \A d \in Conns : work'[d].ses = work[d].ses
           /\ \A d \in Conns : d # c => work'[d] = work[d]
  BY DEF Goes, Typed, Works, WorkState

LEMMA HangUpKeeps ==
    ASSUME Typed, NEW s \in Sessions, HangUp(s)
    PROVE  \A t \in Sessions : tty'[t].shell = tty[t].shell
  BY DEF HangUp, Typed, Ttys, Tty

LEMMA HangKeeps ==
    ASSUME Typed, TerminalInv, NEW c \in Conns, Hang(c)
    PROVE  TerminalInv'
<1> DEFINE s == work[c].ses
<1>1. /\ s \in Sessions /\ work[c].pc = "hang"
      /\ UNCHANGED <<listed, reader, issuing, ui, swept>>
  BY WorkType DEF Hang, Typed, TerminalInv, HasSession
<1>2. \A t \in Sessions : /\ ses'[t].live = ses[t].live
                          /\ ses'[t].authenticated = ses[t].authenticated
                          /\ ses'[t].expired = ses[t].expired
                          /\ ses'[t].conn = IF t = s THEN NoConn ELSE ses[t].conn
  <2>1. ses[s] \in Session
    BY <1>1, SessionType DEF Typed
  <2>2. /\ ses'[s].live = ses[s].live /\ ses'[s].authenticated = ses[s].authenticated
        /\ ses'[s].expired = ses[s].expired /\ ses'[s].conn = NoConn
    BY <1>1, <2>1 DEF Hang, Typed, Cells, Session
  <2>3. \A t \in Sessions : t # s => ses'[t] = ses[t]
    BY DEF Hang, Typed, Cells
  <2>4. QED
    BY <2>2, <2>3
<1>3. \A t \in Sessions : tty'[t].shell = tty[t].shell
  BY <1>1, HangUpKeeps DEF Hang
<1>4. /\ work'[c].pc = "unlist" /\ \A d \in Conns : work'[d].ses = work[d].ses
      /\ \A d \in Conns : d # c => work'[d] = work[d]
  BY WorkerGoesOn, WorkPcs DEF Hang
<1>5. HasSession' /\ HasSocket' /\ OneWorker'
  BY <1>1, <1>4 DEF TerminalInv, HasSession, HasSocket, OneWorker
<1>6. WorkersAgree'
  BY <1>1, <1>2, <1>4 DEF TerminalInv, WorkersAgree
<1>7. CellsAgree'
  <2>1. \A t \in Sessions : /\ ses[t].conn \in Conns \cup {NoConn}
                            /\ reader[t].conn \in Conns \cup {NoConn}
    BY SessionType, ReaderType DEF Typed
  <2>2. QED
    BY <1>1, <1>2, <1>4, <2>1 DEF TerminalInv, CellsAgree
<1>8. WorkedOn'
  <2>1. \A d \in Conns : /\ HasReader(d) => HasReader(d)'
                         /\ work[d].pc = "child" => work'[d].pc = "child"
    BY <1>1, <1>4 DEF HasReader
  <2>2. QED
    BY <1>1, <1>2, <1>3, <1>4, <2>1 DEF TerminalInv, WorkedOn
<1>9. SweepAgrees'
  BY <1>1, <1>4 DEF TerminalInv, SweepAgrees
<1>10. OnlySweptDangle'
  <2>1. \A t \in Sessions : Held(t)' => Held(t)
    BY <1>1, <1>4 DEF Held
  <2>2. QED
    BY <1>1, <1>2, <2>1 DEF TerminalInv, OnlySweptDangle, Dangling
<1>11. QED
  BY <1>5, <1>6, <1>7, <1>8, <1>9, <1>10 DEF TerminalInv

LEMMA RelaunchKeeps ==
    ASSUME Typed, TerminalInv, Relaunch
    PROVE  TerminalInv'
<1>1. /\ ui.pc = "down" /\ listed' = {} /\ ses' = Freed(listed) /\ ui' = Idle
      /\ UNCHANGED <<reader, tty, work, issuing, swept>>
  BY DEF Relaunch
<1>2. issuing = NoSession /\ \A c \in Conns : work[c].ses = NoSession
  BY <1>1 DEF TerminalInv, SweepAgrees, HasSession
<1>3. \A t \in Sessions : /\ reader[t].pc = "none" /\ tty[t].shell # "runs"
                          /\ ses[t].conn = NoConn /\ reader[t].conn = NoConn
  <2> SUFFICES ASSUME NEW t \in Sessions
               PROVE  /\ reader[t].pc = "none" /\ tty[t].shell # "runs"
                      /\ ses[t].conn = NoConn /\ reader[t].conn = NoConn
    OBVIOUS
  <2>1. ses[t].conn \in Conns \cup {NoConn} /\ reader[t].conn \in Conns \cup {NoConn}
    BY SessionType, ReaderType DEF Typed
  <2>2. QED
    BY <1>2, <2>1, TerminalAssumption DEF TerminalInv, WorkedOn, CellsAgree
<1>4. \A t \in Sessions : ses'[t].conn = NoConn /\ ~Held(t)'
  <2>1. \A t \in Sessions : ~Held(t)'
    BY <1>1, <1>2, <1>3, TerminalAssumption DEF Held, Idle
  <2>2. \A t \in Sessions : ses'[t].conn = NoConn
    BY <1>1, <1>3, FreedCells
  <2>3. QED
    BY <2>1, <2>2
<1>5. HasSession' /\ HasSocket' /\ OneWorker' /\ WorkersAgree'
  BY <1>1, <1>2, TerminalAssumption
     DEF TerminalInv, HasSession, HasSocket, OneWorker, WorkersAgree, Idle
<1>6. CellsAgree'
  BY <1>1, <1>2, <1>3, <1>4, TerminalAssumption DEF CellsAgree
<1>7. WorkedOn' /\ SweepAgrees' /\ OnlySweptDangle'
  BY <1>1, <1>3, <1>4 DEF WorkedOn, SweepAgrees, OnlySweptDangle, Dangling, Idle
<1>8. QED
  BY <1>5, <1>6, <1>7 DEF TerminalInv

\* A step keeps the invariant, unless C promises nothing any more.
LEMMA NextTerminal == Typed /\ TerminalInv /\ [Next]_vars => TerminalInv'
<1> SUFFICES ASSUME Typed, TerminalInv, [Next]_vars PROVE TerminalInv'
  OBVIOUS
<1>0. CASE UNCHANGED vars
  BY <1>0 DEF vars, TerminalInv, HasSession, HasSocket, OneWorker, WorkersAgree, CellsAgree,
              WorkedOn, SweepAgrees, OnlySweptDangle, Dangling, Held, HasReader
<1>a. SUFFICES ASSUME ~Broken, Step PROVE TerminalInv'
  BY <1>0 DEF Next
<1>1. CASE RequestTicket
  BY <1>a, <1>1, TicketKeeps
<1>2. CASE AnswerTicket
  BY <1>2, QuietKeeps DEF AnswerTicket
<1>3. ASSUME NEW s \in Sessions, Expire(s) PROVE TerminalInv'
  BY <1>3, QuietKeeps DEF Expire, Typed, Cells, Session
<1>4. ASSUME NEW s \in Sessions, Read(s) PROVE TerminalInv'
  BY <1>4, ReaderGoesOn, ReaderPcs, QuietKeeps DEF Read
<1>5. ASSUME NEW s \in Sessions, ReadReturns(s) PROVE TerminalInv'
  <2>1. CASE ReaderGoes(s, "got") /\ tty' = [tty EXCEPT ![s].output = @ - 1]
    <3>1. \A t \in Sessions : tty'[t].shell = tty[t].shell
      BY <2>1 DEF Typed, Ttys, Tty
    <3>2. QED
      BY <1>5, <2>1, <3>1, ReaderGoesOn, ReaderPcs, QuietKeeps DEF ReadReturns
  <2>2. CASE ReaderGoes(s, "end") /\ UNCHANGED tty
    BY <1>5, <2>2, ReaderGoesOn, ReaderPcs, QuietKeeps DEF ReadReturns
  <2>3. QED
    BY <1>5, <2>1, <2>2 DEF ReadReturns
<1>6. ASSUME NEW s \in Sessions, Look(s) PROVE TerminalInv'
  BY <1>6, QuietKeeps DEF Look, Typed, Readers, ReaderState
<1>7. ASSUME NEW s \in Sessions, Send(s) PROVE TerminalInv'
  BY <1>7, QuietKeeps DEF Send, Typed, Readers, ReaderState
<1>8. ASSUME NEW s \in Sessions, End(s) PROVE TerminalInv'
  <2>1. CASE ReaderGoes(s, "done") /\ UNCHANGED ses
    BY <1>8, <2>1, ReaderGoesOn, ReaderPcs, QuietKeeps DEF End
  <2>2. CASE /\ ses' = [ses EXCEPT ![s].closing = TRUE]
             /\ reader' = [reader EXCEPT ![s] = [pc |-> "bye", conn |-> ses[s].conn]]
    BY <1>8, <2>2, QuietKeeps DEF End, Typed, Readers, Cells, Session
  <2>3. QED
    BY <1>8, <2>1, <2>2 DEF End
<1>9. ASSUME NEW s \in Sessions, Bye(s) PROVE TerminalInv'
  BY <1>9, QuietKeeps DEF Bye, Typed, Readers, ReaderState
<1>10. ASSUME NEW s \in Sessions, Prints(s) PROVE TerminalInv'
  BY <1>10, QuietKeeps DEF Prints, Program, Typed, Ttys, Tty
<1>11. ASSUME NEW s \in Sessions, ReadsInput(s) PROVE TerminalInv'
  <2>1. \A t \in Sessions : tty'[t].shell = tty[t].shell
    BY <1>11 DEF ReadsInput, Typed, Ttys, Tty
  <2>2. QED
    BY <1>11, <2>1, QuietKeeps DEF ReadsInput, Program
<1>12. ASSUME NEW s \in Sessions, Exits(s) PROVE TerminalInv'
  BY <1>12, QuietKeeps DEF Exits, Program, Typed, Ttys, Tty
<1>13. ASSUME NEW s \in Sessions, JobEnds(s) PROVE TerminalInv'
  BY <1>13, QuietKeeps DEF JobEnds, Program, Typed, Ttys, Tty
<1>14. ASSUME NEW c \in Conns, Attach(c) PROVE TerminalInv'
  BY <1>a, <1>14, AttachKeeps
<1>15. ASSUME NEW c \in Conns, Fork(c) PROVE TerminalInv'
  BY <1>a, <1>15, ForkKeeps
<1>16. ASSUME NEW c \in Conns, StartReader(c) PROVE TerminalInv'
  BY <1>a, <1>16, StartReaderKeeps
<1>17. ASSUME NEW c \in Conns, Unspawn(c) PROVE TerminalInv'
  BY <1>a, <1>17, UnspawnKeeps
<1>18. ASSUME NEW c \in Conns, WriteInput(c) PROVE TerminalInv'
  <2>1. \A t \in Sessions : tty'[t].shell = tty[t].shell
    BY <1>18 DEF WriteInput, Typed, Ttys, Tty
  <2>2. QED
    BY <1>18, <2>1, WorkerGoesOn, WorkPcs, QuietKeeps DEF WriteInput
<1>19. ASSUME NEW c \in Conns, Hang(c) PROVE TerminalInv'
  BY <1>a, <1>19, HangKeeps
<1>20. ASSUME NEW c \in Conns, Reap(c) PROVE TerminalInv'
  BY <1>a, <1>20, UnspawnKeeps
<1>21. ASSUME NEW c \in Conns, Connect(c) PROVE TerminalInv'
  BY <1>21, QuietKeeps DEF Connect, Goes, Serving, Typed, Works, WorkState
<1>22. ASSUME NEW c \in Conns, Refuse(c) PROVE TerminalInv'
  <2>1. \A d \in Conns : /\ work'[d].ses = work[d].ses
                         /\ \/ work'[d].pc = work[d].pc
                            \/ work[d].pc = "open" /\ work'[d].pc = "none"
    BY <1>22 DEF Refuse, Ends, NoWork, TerminalInv, HasSession, Typed, Works
  <2>2. CASE UNCHANGED <<listed, ses>>
    BY <1>22, <2>1, <2>2, QuietKeeps DEF Refuse
  <2>3. CASE Prune
    BY <1>22, <2>1, <2>3, PruneKeeps DEF Refuse
  <2>4. QED
    BY <1>22, <2>2, <2>3 DEF Refuse
<1>23. ASSUME NEW c \in Conns, Input(c) PROVE TerminalInv'
  BY <1>23, QuietKeeps DEF Input, Goes, Typed, Works, WorkState
<1>24. ASSUME NEW c \in Conns, Leave(c) PROVE TerminalInv'
  <2>1. CASE work[c].pc = "ready" /\ Goes(c, "hang")
    BY <1>24, <2>1, QuietKeeps DEF Leave, Goes, Typed, Works, WorkState
  <2>2. CASE work[c].pc = "open" /\ ~Serving /\ Ends(c)
    BY <1>24, <2>2, QuietKeeps DEF Leave, Ends, NoWork, TerminalInv, HasSession
  <2>3. QED
    BY <1>24, <2>1, <2>2 DEF Leave
<1>25. CASE TurnOff
  <2>1. ui.pc = "idle" /\ UNCHANGED <<listed, ses, reader, tty, work, issuing, swept>>
    BY <1>25 DEF TurnOff, SaveSettings
  <2>2. CASE UiGoes("sweep")
    <3>1. /\ ui'.pc = "sweep" /\ ui'.pending = ui.pending /\ ui'.active = ui.active
      BY <2>2 DEF UiGoes, Typed, UiState
    <3>2. QED
      BY <2>1, <3>1 DEF TerminalInv, HasSession, HasSocket, OneWorker, WorkersAgree, CellsAgree,
                        WorkedOn, HasReader, SweepAgrees, OnlySweptDangle, Dangling, Held
  <2>3. CASE UNCHANGED ui
    BY <2>1, <2>3 DEF TerminalInv, HasSession, HasSocket, OneWorker, WorkersAgree, CellsAgree,
                      WorkedOn, HasReader, SweepAgrees, OnlySweptDangle, Dangling, Held
  <2>4. QED
    BY <1>25, <2>2, <2>3 DEF TurnOff
<1>26. CASE Relaunch
  BY <1>a, <1>26, RelaunchKeeps
<1> USE DEF TerminalInv, HasSession, HasSocket, OneWorker, WorkersAgree, CellsAgree, WorkedOn,
            HasReader, SweepAgrees, OnlySweptDangle, Dangling, Held
<1>27. ASSUME NEW c \in Conns, Unlist(c) PROVE TerminalInv'
  BY <1>27 DEF Unlist, Goes
<1>28. ASSUME NEW c \in Conns, Join(c) PROVE TerminalInv'
  BY <1>28 DEF Join, Goes
<1>29. CASE TurnOn
  BY <1>29 DEF TurnOn
<1>30. CASE StopServer
  BY <1>30 DEF StopServer
<1>31. CASE Sweep
  BY <1>31 DEF Sweep
<1>32. CASE CloseSocket
  BY <1>32 DEF CloseSocket
<1>33. CASE AllClosed
  BY <1>33 DEF AllClosed, UiGoes
<1>34. CASE Stopped
  BY <1>34 DEF Stopped, UiGoes, WorkState
<1>35. ASSUME NEW s \in Sessions, DestroyPending(s) PROVE TerminalInv'
  BY <1>35 DEF DestroyPending, Free, Freed, Blank, NoReader, NoTty
<1>36. ASSUME NEW s \in Sessions, HangActive(s) PROVE TerminalInv'
  BY <1>36 DEF HangActive, HangUp, Typed, Cells, WorkState
<1>37. CASE Resume
  BY <1>37 DEF Resume, Idle
<1> HIDE DEF TerminalInv, HasSession, HasSocket, OneWorker, WorkersAgree, CellsAgree, WorkedOn,
             HasReader, SweepAgrees, OnlySweptDangle, Dangling, Held
<1>38. QED
  BY <1>a, <1>1, <1>2, <1>3, <1>4, <1>5, <1>6, <1>7, <1>8, <1>9, <1>10, <1>11, <1>12, <1>13,
     <1>14, <1>15, <1>16, <1>17, <1>18, <1>19, <1>20, <1>21, <1>22, <1>23, <1>24, <1>25, <1>26,
     <1>27, <1>28, <1>29, <1>30, <1>31, <1>32, <1>33, <1>34, <1>35, <1>36, <1>37
     DEF Step, Worker, Reader, Screen, Programs, Browser

-----------------------------------------------------------------------------
(* Theorems *)

LEMMA InitTerminal == Init => TypeOK /\ TerminalInv
<1> SUFFICES ASSUME Init PROVE TypeOK /\ TerminalInv
  OBVIOUS
<1>1. TypeOK
  <2>1. /\ ses \in Cells /\ reader \in Readers /\ tty \in Ttys /\ work \in Works /\ ui \in UiState
    BY BlankTypes DEF Init, Cells, Readers, Ttys, Works
  <2>2. QED
    BY <2>1, TypeParts DEF Init, Typed
<1>2. TerminalInv
  BY TerminalAssumption
     DEF Init, Blank, NoReader, NoTty, NoWork, Idle, TerminalInv, HasSession, HasSocket,
         OneWorker, WorkersAgree, CellsAgree, WorkedOn, SweepAgrees, OnlySweptDangle, Dangling,
         Held
<1>3. QED
  BY <1>1, <1>2

LEMMA SafeTerminal ==
    ASSUME TerminalInv
    PROVE  OneSocket /\ OnlySweptDangle /\ ShellIsReachable
<1>1. OneSocket
  <2> SUFFICES ASSUME NEW s \in Sessions
               PROVE  /\ Cardinality({c \in Conns : work[c].ses = s}) <= 1
                      /\ reader[s].conn # NoConn => work[reader[s].conn].ses = s
    BY DEF OneSocket
  <2> DEFINE W == {c \in Conns : work[c].ses = s}
  <2>1. W = {} \/ \E c \in Conns : W = {c}
    BY TerminalAssumption DEF TerminalInv, OneWorker
  <2> HIDE DEF W
  <2>2. Cardinality(W) <= 1
    BY <2>1, FS_EmptySet, FS_Singleton
  <2>3. reader[s].conn # NoConn => work[reader[s].conn].ses = s
    BY DEF TerminalInv, CellsAgree
  <2>4. QED
    BY <2>2, <2>3 DEF W
<1>2. ShellIsReachable
  BY DEF TerminalInv, WorkedOn, ShellIsReachable
<1>3. QED
  BY <1>1, <1>2 DEF TerminalInv

LEMMA AlwaysTerminal == Spec => [](TypeOK /\ TerminalInv)
<1>1. TypeOK /\ TerminalInv /\ [Next]_vars => TypeOK' /\ TerminalInv'
  BY NextType, NextTerminal, TypeParts DEF TerminalInv
<1>2. QED
  BY InitTerminal, <1>1, PTL DEF Spec

\* Types of the state of terminal.c.
THEOREM TypeCorrect == Spec => []TypeOK
  BY AlwaysTerminal, PTL

\* A session has one socket: a ticket opens one terminal although two browsers
\* send it at once (cs_terminal_attach_ticket), and the reader writes only to
\* the socket whose handler is with the session (cs_terminal_ws_close joins it
\* before the handler returns).
THEOREM OneSocketAlways == Spec => []OneSocket
  BY AlwaysTerminal, SafeTerminal, PTL

\* cs_terminal_session_destroy frees a session that a reader, a worker or the
\* UI thread still holds only if a close-all had taken hold of it: pruning, a
\* failed spawn and a closing socket never pull it from under another thread.
THEOREM OnlySweptDangleAlways == Spec => []OnlySweptDangle
  BY AlwaysTerminal, SafeTerminal, PTL

\* A shell that runs has a session that can still hang it up: one that is
\* listed, or that a worker or the close-all has in hand.
THEOREM ShellIsReachableAlways == Spec => []ShellIsReachable
  BY AlwaysTerminal, SafeTerminal, PTL

-----------------------------------------------------------------------------
(* That turning the terminal off ends its shells is left to TLC, for programs  *)
(* that obey (OffEndsShells, QuietStopEnds). What the server does for it is    *)
(* proved: it waits for no shell and no reader that it has not sent off.       *)

\* The session was told to close, its terminal is closed, and its shell got the
\* hangup if there is one.
HungUp(s) == ses[s].closing /\ ~ses[s].fd /\ (tty[s].shell = "runs" => tty[s].hup)

\* Somebody is in pthread_join or waitpid for session s, or will be.
WaitedFor(s) ==
    \/ \E c \in Conns : work[c].ses = s /\ work[c].pc \in {"join", "reap"}
    \/ s \in ui.pending

\* waitpid is called for a shell that was hung up, and a reader is joined once its
\* session is closing and has no terminal to read.
WaitedIsHungUp ==
    \A s \in Sessions : WaitedFor(s) /\ ses[s].live =>
        /\ tty[s].shell = "runs" => tty[s].hup
        /\ reader[s].pc \notin {"none", "done"} => ses[s].closing /\ ~ses[s].fd

Attending == {"fork", "child", "unspawn", "ready", "write", "hang"}

\* Until it hangs up, a session has the socket it was attached to, and from the
\* start of its reader the shell to hang up. Without a socket it was hung up, or
\* never attached; and so are those that close-all destroys by itself.
HangInv ==
    /\ \A c \in Conns, s \in Sessions : work[c].ses = s /\ ses[s].live =>
          /\ work[c].pc \in Attending => ses[s].conn = c
          /\ work[c].pc \in {"ready", "write", "hang"} => ses[s].child
    /\ \A s \in Sessions :
          ses[s].live /\ ses[s].authenticated /\ ses[s].conn = NoConn => HungUp(s)
    /\ \A s \in ui.pending : ses[s].live => ~ses[s].authenticated \/ ses[s].conn = NoConn

LEMMA HangingIsEnough ==
    ASSUME Typed, TerminalInv, HangInv
    PROVE  WaitedIsHungUp
<1> SUFFICES ASSUME NEW s \in Sessions, WaitedFor(s), ses[s].live
             PROVE  /\ tty[s].shell = "runs" => tty[s].hup
                    /\ reader[s].pc \notin {"none", "done"} => ses[s].closing /\ ~ses[s].fd
  BY DEF WaitedIsHungUp
<1>1. CASE ~ses[s].authenticated
  <2>1. \A c \in Conns : work[c].ses # s
    BY <1>1 DEF TerminalInv, WorkersAgree
  <2> QED BY <2>1 DEF TerminalInv, WorkedOn
<1>2. CASE ses[s].authenticated
  <2>1. ses[s].conn = NoConn
    BY <1>2 DEF WaitedFor, HangInv, TerminalInv, WorkersAgree
  <2> QED BY <1>2, <2>1 DEF HangInv, HungUp
<1> QED BY <1>1, <1>2

\* What most steps do to a session: they free it, or change neither its browser
\* nor its socket, and do not undo a hangup of a session without one.
Spares(s) ==
    ses'[s].live =>
        /\ ses[s].live /\ ses'[s].authenticated = ses[s].authenticated
        /\ ses'[s].conn = ses[s].conn /\ (ses[s].child => ses'[s].child)
        /\ ses[s].conn = NoConn /\ HungUp(s) => HungUp(s)'

\* What most steps do to a worker: it goes on with its session, or lets go.
Follows(c) ==
    \/ work'[c].ses = NoSession
    \/ /\ work'[c].ses = work[c].ses
       /\ work'[c].pc \in Attending => work[c].pc \in Attending
       /\ work'[c].pc \in {"ready", "write", "hang"} => work[c].pc \in {"ready", "write", "hang"}

LEMMA SparingKeeps ==
    ASSUME HangInv, \A s \in Sessions : Spares(s), \A c \in Conns : Follows(c),
           ui'.pending \subseteq ui.pending, ui.pending \subseteq Sessions
    PROVE  HangInv'
<1>1. ASSUME NEW c \in Conns, NEW s \in Sessions, work'[c].ses = s, ses'[s].live
      PROVE  /\ work'[c].pc \in Attending => ses'[s].conn = c
             /\ work'[c].pc \in {"ready", "write", "hang"} => ses'[s].child
  BY <1>1, TerminalAssumption DEF HangInv, Spares, Follows
<1>2. ASSUME NEW s \in Sessions, ses'[s].live, ses'[s].authenticated, ses'[s].conn = NoConn
      PROVE  HungUp(s)'
  BY <1>2 DEF HangInv, Spares
<1>3. ASSUME NEW s \in ui'.pending, ses'[s].live
      PROVE  ~ses'[s].authenticated \/ ses'[s].conn = NoConn
  BY <1>3 DEF HangInv, Spares
<1> QED BY <1>1, <1>2, <1>3 DEF HangInv

\* Where the cells and the terminals stay as they are.
LEMMA StillSpares ==
    ASSUME UNCHANGED <<ses, tty>>
    PROVE  \A s \in Sessions : Spares(s)
BY DEF Spares, HungUp

LEMMA StillFollows ==
    ASSUME UNCHANGED work
    PROVE  \A c \in Conns : Follows(c)
BY DEF Follows

\* A worker that goes from one step to the next, with the same session.
LEMMA GoesFollows ==
    ASSUME Typed, NEW c \in Conns, NEW pc \in WorkPc, Goes(c, pc),
           pc \in Attending => work[c].pc \in Attending \/ work[c].ses = NoSession,
           pc \in {"ready", "write", "hang"} => work[c].pc \in {"ready", "write", "hang"}
    PROVE  \A d \in Conns : Follows(d)
BY WorkerGoesOn DEF Follows

LEMMA EndsFollows ==
    ASSUME Typed, NEW c \in Conns, Ends(c)
    PROVE  \A d \in Conns : Follows(d)
BY DEF Ends, Follows, NoWork, Typed, Works

LEMMA FreedSpares ==
    ASSUME NEW S, ses' = Freed(S), UNCHANGED tty
    PROVE  \A s \in Sessions : Spares(s)
BY FreedCells DEF Spares, HungUp

LEMMA FreeSpares ==
    ASSUME Typed, NEW t \in Sessions, Free(t)
    PROVE  \A s \in Sessions : Spares(s)
<1> SUFFICES ASSUME NEW s \in Sessions, ses'[s].live PROVE Spares(s)
  BY DEF Spares
<1>1. s # t /\ ses'[s] = ses[s]
  BY FreedCells DEF Free
<1>2. tty'[s] = tty[s]
  BY <1>1 DEF Free, Typed, Ttys
<1> QED BY <1>1, <1>2 DEF Spares, HungUp

\* A hangup is not taken back, neither by another nor by what the programs do.
LEMMA HangUpLasts ==
    ASSUME Typed, NEW t \in Sessions, HangUp(t), NEW s \in Sessions
    PROVE  /\ tty'[s].shell = tty[s].shell /\ (tty[s].hup => tty'[s].hup)
           /\ s = t /\ ses[t].child => tty'[s].hup
BY HangUpKeeps DEF HangUp, Typed, Ttys, Tty

LEMMA ProgramSpares ==
    ASSUME Typed, UNCHANGED ses,
           \A s \in Sessions : tty'[s].hup = tty[s].hup /\ (tty'[s].shell = "runs" => tty[s].shell = "runs")
    PROVE  \A s \in Sessions : Spares(s)
BY DEF Spares, HungUp

\* A new ticket is for a session that nobody holds.
LEMMA TicketHangs ==
    ASSUME Typed, TerminalInv, HangInv, RequestTicket
    PROVE  HangInv'
<1>0. UNCHANGED <<reader, tty, work, ui>> /\ ui.pending \subseteq Sessions
  BY UiType DEF RequestTicket, Typed
<1>1. CASE Prune /\ UNCHANGED <<issuing, swept>>
  BY <1>0, <1>1, FreedSpares, StillFollows, SparingKeeps DEF Prune
<1>2. CASE ~(Prune /\ UNCHANGED <<issuing, swept>>)
  <2>1. PICK s \in Sessions \ (listed \ Stale) :
          ~Held(s) /\ ses' = [Freed(Stale) EXCEPT ![s] = [Blank EXCEPT !.live = TRUE]]
    BY <1>2 DEF RequestTicket
  <2>2. \A t \in Sessions : ses'[t].live => t = s \/ ses'[t] = ses[t]
    <3>1. \A t \in Sessions : t # s => ses'[t] = Freed(Stale)[t]
      BY <2>1 DEF Freed
    <3> QED BY <3>1, FreedCells
  <2>3. ~ses'[s].authenticated
    BY <2>1 DEF Freed, Blank
  <2>4. s \notin ui.pending /\ \A c \in Conns : work[c].ses # s
    BY <2>1 DEF Held
  <2> QED BY <1>0, <2>2, <2>3, <2>4 DEF HangInv, HungUp
<1> QED BY <1>1, <1>2

\* An attached session has its browser's socket, and close-all has not swept it.
LEMMA AttachHangs ==
    ASSUME Typed, TerminalInv, HangInv, NEW c \in Conns, Attach(c)
    PROVE  HangInv'
<1>1. PICK s \in Sessions :
        /\ FindTicket(s)
        /\ ses' = [Freed(Stale) EXCEPT ![s].authenticated = TRUE, ![s].conn = c]
        /\ work' = [work EXCEPT ![c] = [pc |-> "fork", ses |-> s]]
  BY DEF Attach
<1>2. UNCHANGED <<reader, tty, ui>> /\ ui.pending \subseteq Sessions
  BY UiType DEF Attach, Typed
<1>3. s \in listed /\ s \notin Stale /\ ~ses[s].authenticated /\ ses[s].live
  BY <1>1 DEF FindTicket, TerminalInv, CellsAgree
<1>4. s \notin ui.pending /\ \A d \in Conns : work[d].ses # s
  BY <1>3 DEF TerminalInv, SweepAgrees, WorkersAgree
<1>5. \A t \in Sessions : t # s /\ ses'[t].live => ses'[t] = ses[t]
  <2>1. \A t \in Sessions : t # s => ses'[t] = Freed(Stale)[t]
    BY <1>1 DEF Freed
  <2> QED BY <2>1, FreedCells
<1>6. ses'[s].conn = c
  <2>1. Freed(Stale) \in Cells
    BY FreedType DEF Typed
  <2> QED BY <1>1, <2>1 DEF Cells, Session
<1>7. work'[c] = [pc |-> "fork", ses |-> s] /\ \A d \in Conns : d # c => work'[d] = work[d]
  BY <1>1 DEF Typed, Works
<1>8. ASSUME NEW d \in Conns, NEW t \in Sessions, work'[d].ses = t, ses'[t].live
      PROVE  /\ work'[d].pc \in Attending => ses'[t].conn = d
             /\ work'[d].pc \in {"ready", "write", "hang"} => ses'[t].child
  <2>1. CASE d = c
    BY <1>6, <1>7, <1>8, <2>1
  <2>2. CASE d # c
    BY <1>4, <1>5, <1>7, <1>8, <2>2 DEF HangInv
  <2> QED BY <2>1, <2>2
<1>9. ASSUME NEW t \in Sessions, ses'[t].live, ses'[t].authenticated, ses'[t].conn = NoConn
      PROVE  HungUp(t)'
  <2>1. t # s
    BY <1>6, <1>9, TerminalAssumption
  <2> QED BY <1>2, <1>5, <1>9, <2>1 DEF HangInv, HungUp
<1>10. ASSUME NEW t \in ui'.pending, ses'[t].live
       PROVE  ~ses'[t].authenticated \/ ses'[t].conn = NoConn
  BY <1>2, <1>4, <1>5, <1>10 DEF HangInv
<1> QED BY <1>8, <1>9, <1>10 DEF HangInv

\* The session of a worker, the only one it has.
LEMMA OwnSession ==
    ASSUME Typed, TerminalInv, NEW c \in Conns, work[c].pc \notin {"none", "open"}
    PROVE  /\ work[c].ses \in Sessions
           /\ \A d \in Conns : work[d].ses = work[c].ses => d = c
BY WorkType, TerminalAssumption DEF Typed, TerminalInv, HasSession, OneWorker

LEMMA ForkHangs ==
    ASSUME Typed, TerminalInv, HangInv, ~Broken, NEW c \in Conns, Fork(c)
    PROVE  HangInv'
<1> DEFINE s == work[c].ses
<1>0. /\ s \in Sessions /\ work[c].pc = "fork" /\ UNCHANGED <<reader, ui>>
      /\ ui.pending \subseteq Sessions
  BY OwnSession, UiType DEF Fork, Typed
<1>1. CASE Goes(c, "unspawn") /\ UNCHANGED <<ses, tty>>
  <2>1. \A d \in Conns : Follows(d)
    BY <1>0, <1>1, GoesFollows, WorkPcs DEF Attending
  <2> QED BY <1>0, <1>1, <2>1, StillSpares, SparingKeeps
<1>2. CASE ~(Goes(c, "unspawn") /\ UNCHANGED <<ses, tty>>)
  <2>1. PICK m \in Manners :
          /\ ses' = [ses EXCEPT ![s].fd = TRUE]
          /\ tty' = [tty EXCEPT ![s] = [NoTty EXCEPT !.shell = "runs", !.manner = m]]
          /\ Goes(c, "child")
    BY <1>2 DEF Fork
  <2>2. \A d \in Conns : Follows(d)
    BY <1>0, <2>1, GoesFollows, WorkPcs DEF Attending
  <2>3. ses[s].live
    BY <1>0 DEF Broken, Dangling, Held
  <2>4. ses[s].conn = c
    BY <1>0, <2>3 DEF HangInv, Attending
  <2>5. \A t \in Sessions : Spares(t)
    <3> SUFFICES ASSUME NEW t \in Sessions, ses'[t].live PROVE Spares(t)
      BY DEF Spares
    <3>1. CASE t = s
      BY <1>0, <2>1, <2>3, <2>4, <3>1, TerminalAssumption DEF Spares, Typed, Cells, Session
    <3>2. CASE t # s
      BY <2>1, <3>2 DEF Spares, HungUp, Typed, Cells, Ttys
    <3> QED BY <3>1, <3>2
  <2> QED BY <1>0, <2>2, <2>5, SparingKeeps
<1> QED BY <1>1, <1>2

LEMMA StartReaderHangs ==
    ASSUME Typed, TerminalInv, HangInv, ~Broken, NEW c \in Conns, StartReader(c)
    PROVE  HangInv'
<1> DEFINE s == work[c].ses
<1>0. /\ s \in Sessions /\ work[c].pc = "child" /\ UNCHANGED ui
      /\ ui.pending \subseteq Sessions
      /\ \A d \in Conns : work[d].ses = s => d = c
  BY OwnSession, UiType DEF StartReader, Typed
<1>1. CASE /\ ses' = [ses EXCEPT ![s].fd = FALSE]
           /\ tty' = [tty EXCEPT ![s].shell = "gone"]
           /\ Goes(c, "unspawn")
  <2>1. \A d \in Conns : Follows(d)
    BY <1>0, <1>1, GoesFollows, WorkPcs DEF Attending
  <2>2. \A t \in Sessions : Spares(t)
    BY <1>1 DEF Spares, HungUp, Typed, Cells, Session, Ttys, Tty
  <2> QED BY <1>0, <2>1, <2>2, SparingKeeps
<1>2. CASE /\ ses' = [ses EXCEPT ![s].child = TRUE]
           /\ Goes(c, "ready") /\ UNCHANGED tty
  <2>1. /\ ses'[s].child
        /\ \A t \in Sessions : /\ ses'[t].live = ses[t].live
                               /\ ses'[t].authenticated = ses[t].authenticated
                               /\ ses'[t].conn = ses[t].conn /\ ses'[t].fd = ses[t].fd
                               /\ ses'[t].closing = ses[t].closing
                               /\ t # s => ses'[t] = ses[t]
    BY <1>0, <1>2 DEF Typed, Cells, Session
  <2>2. /\ work'[c].pc = "ready" /\ \A d \in Conns : work'[d].ses = work[d].ses
        /\ \A d \in Conns : d # c => work'[d] = work[d]
    BY <1>2, WorkerGoesOn, WorkPcs
  <2>3. ASSUME NEW d \in Conns, NEW t \in Sessions, work'[d].ses = t, ses'[t].live
        PROVE  /\ work'[d].pc \in Attending => ses'[t].conn = d
               /\ work'[d].pc \in {"ready", "write", "hang"} => ses'[t].child
    <3>1. work[d].ses = t /\ ses[t].live /\ ses'[t].conn = ses[t].conn
      BY <2>1, <2>2, <2>3
    <3>2. CASE d = c
      <4>1. t = s /\ work[d].pc \in Attending
        BY <1>0, <3>1, <3>2 DEF Attending
      <4>2. ses[t].conn = d
        BY <3>1, <4>1 DEF HangInv
      <4> QED BY <2>1, <3>1, <4>1, <4>2
    <3>3. CASE d # c
      <4>1. t # s /\ work'[d].pc = work[d].pc
        BY <1>0, <2>2, <3>1, <3>3
      <4>2. ses'[t] = ses[t]
        BY <2>1, <4>1
      <4>3. /\ work[d].pc \in Attending => ses[t].conn = d
            /\ work[d].pc \in {"ready", "write", "hang"} => ses[t].child
        BY <3>1 DEF HangInv
      <4> QED BY <4>1, <4>2, <4>3
    <3> QED BY <3>2, <3>3
  <2>4. \A t \in Sessions : HungUp(t) => HungUp(t)'
    BY <1>2, <2>1 DEF HungUp
  <2>5. ASSUME NEW t \in Sessions, ses'[t].live, ses'[t].authenticated, ses'[t].conn = NoConn
        PROVE  HungUp(t)'
    BY <2>1, <2>4, <2>5 DEF HangInv
  <2>6. ASSUME NEW t \in ui'.pending, ses'[t].live
        PROVE  ~ses'[t].authenticated \/ ses'[t].conn = NoConn
    BY <1>0, <2>1, <2>6 DEF HangInv
  <2> QED BY <2>3, <2>5, <2>6 DEF HangInv
<1> QED BY <1>1, <1>2 DEF StartReader

\* The section that clears the socket closes the terminal and signals the shell.
LEMMA HangHangs ==
    ASSUME Typed, TerminalInv, HangInv, ~Broken, NEW c \in Conns, Hang(c)
    PROVE  HangInv'
<1> DEFINE s == work[c].ses
<1>0. /\ s \in Sessions /\ work[c].pc = "hang" /\ UNCHANGED ui
      /\ ui.pending \subseteq Sessions
      /\ \A d \in Conns : work[d].ses = s => d = c
  BY OwnSession, UiType DEF Hang, Typed
<1>1. ses[s].live /\ ses[s].child
  <2>1. ses[s].live
    BY <1>0 DEF Broken, Dangling, Held
  <2> QED BY <1>0, <2>1 DEF HangInv
<1>2. /\ ses'[s].conn = NoConn /\ ses'[s].closing /\ ~ses'[s].fd
      /\ \A t \in Sessions : t # s => ses'[t] = ses[t]
  BY <1>0 DEF Hang, Typed, Cells, Session
<1>3. /\ tty'[s].hup
      /\ \A t \in Sessions : tty'[t].shell = tty[t].shell /\ (tty[t].hup => tty'[t].hup)
  BY <1>0, <1>1, HangUpLasts DEF Hang
<1>4. /\ work'[c].pc = "unlist" /\ \A d \in Conns : work'[d].ses = work[d].ses
      /\ \A d \in Conns : d # c => work'[d] = work[d]
  BY WorkerGoesOn, WorkPcs DEF Hang
<1>5. ASSUME NEW d \in Conns, NEW t \in Sessions, work'[d].ses = t, ses'[t].live
      PROVE  /\ work'[d].pc \in Attending => ses'[t].conn = d
             /\ work'[d].pc \in {"ready", "write", "hang"} => ses'[t].child
  <2>1. CASE d = c
    BY <1>4, <2>1 DEF Attending
  <2>2. CASE d # c
    BY <1>0, <1>2, <1>4, <1>5, <2>2 DEF HangInv
  <2> QED BY <2>1, <2>2
<1>6. ASSUME NEW t \in Sessions, ses'[t].live, ses'[t].authenticated, ses'[t].conn = NoConn
      PROVE  HungUp(t)'
  <2>1. CASE t = s
    BY <1>2, <1>3, <2>1 DEF HungUp
  <2>2. CASE t # s
    BY <1>2, <1>3, <1>6, <2>2 DEF HangInv, HungUp
  <2> QED BY <2>1, <2>2
<1>7. ASSUME NEW t \in ui'.pending, ses'[t].live
      PROVE  ~ses'[t].authenticated \/ ses'[t].conn = NoConn
  BY <1>0, <1>2, <1>7 DEF HangInv
<1> QED BY <1>5, <1>6, <1>7 DEF HangInv

LEMMA NextHangs ==
    ASSUME Typed, TerminalInv, HangInv, [Next]_vars
    PROVE  HangInv'
<1>0. ui.pending \subseteq Sessions
  BY UiType DEF Typed
<1>u. CASE UNCHANGED vars
  BY <1>0, <1>u, StillSpares, StillFollows, SparingKeeps DEF vars
<1>a. SUFFICES ASSUME ~Broken, Step PROVE HangInv'
  BY <1>u DEF Next
<1>s. SUFFICES ASSUME ~(\A s \in Sessions : Spares(s)) \/ ~(\A c \in Conns : Follows(c))
                      \/ ~(ui'.pending \subseteq ui.pending)
               PROVE  HangInv'
  BY <1>0, SparingKeeps
<1>1. CASE RequestTicket
  BY <1>1, TicketHangs
<1>2. ASSUME NEW c \in Conns, Attach(c) \/ Fork(c) \/ StartReader(c) \/ Hang(c) PROVE HangInv'
  BY <1>a, <1>2, AttachHangs, ForkHangs, StartReaderHangs, HangHangs
<1>3. CASE Sweep
  BY <1>0, <1>3 DEF Sweep, HangInv, HungUp
<1>4. ASSUME NEW s \in Sessions, Reader(s) PROVE FALSE
  <2>1. UNCHANGED <<work, ui>>
    BY <1>4 DEF Reader, Read, ReadReturns, Look, Send, End, Bye
  <2>2. CASE End(s) /\ ses' = [ses EXCEPT ![s].closing = TRUE]
    <3>1. \A t \in Sessions : Spares(t)
      BY <2>2 DEF End, Spares, HungUp, Typed, Cells, Session
    <3> QED BY <1>s, <2>1, <3>1, StillFollows
  <2>3. CASE UNCHANGED ses /\ ~ReadReturns(s)
    <3>1. UNCHANGED tty
      BY <1>4, <2>3 DEF Reader, Read, Look, Send, End, Bye
    <3> QED BY <1>s, <2>1, <2>3, <3>1, StillFollows, StillSpares
  <2>4. CASE ReadReturns(s)
    <3>1. \A t \in Sessions : tty'[t].hup = tty[t].hup /\ tty'[t].shell = tty[t].shell
      BY <2>4 DEF ReadReturns, Typed, Ttys, Tty
    <3>2. UNCHANGED ses
      BY <2>4 DEF ReadReturns
    <3> QED BY <1>s, <2>1, <3>1, <3>2, StillFollows, ProgramSpares
  <2> QED BY <1>4, <2>2, <2>3, <2>4 DEF Reader, Read, Look, Send, End, Bye
<1>5. ASSUME NEW s \in Sessions, Programs(s) PROVE FALSE
  <2>1. UNCHANGED <<ses, work, ui>>
    BY <1>5 DEF Programs, Prints, ReadsInput, Exits, JobEnds, Program
  <2>2. \A t \in Sessions : /\ tty'[t].hup = tty[t].hup
                            /\ tty'[t].shell = "runs" => tty[t].shell = "runs"
    BY <1>5 DEF Programs, Prints, ReadsInput, Exits, JobEnds, Typed, Ttys, Tty
  <2> QED BY <1>s, <2>1, <2>2, StillFollows, ProgramSpares
<1>6. ASSUME NEW s \in Sessions, Expire(s) PROVE FALSE
  <2>1. \A t \in Sessions : Spares(t)
    BY <1>6 DEF Expire, Spares, HungUp, Typed, Cells, Session
  <2>2. UNCHANGED <<work, ui>>
    BY <1>6 DEF Expire
  <2> QED BY <1>s, <2>1, <2>2, StillFollows
<1>7. ASSUME NEW c \in Conns, Unspawn(c) \/ Reap(c) PROVE FALSE
  <2>1. work[c].ses \in Sessions /\ Free(work[c].ses) /\ Ends(c) /\ UNCHANGED ui
    BY <1>7, OwnSession DEF Unspawn, Reap
  <2> QED BY <1>s, <2>1, FreeSpares, EndsFollows
<1>8. ASSUME NEW c \in Conns, WriteInput(c) PROVE FALSE
  <2>1. \A t \in Sessions : tty'[t].hup = tty[t].hup /\ tty'[t].shell = tty[t].shell
    BY <1>8 DEF WriteInput, Typed, Ttys, Tty
  <2>2. \A d \in Conns : Follows(d)
    BY <1>8, GoesFollows, WorkPcs DEF WriteInput, Attending
  <2>3. UNCHANGED <<ses, ui>>
    BY <1>8 DEF WriteInput
  <2> QED BY <1>s, <2>1, <2>2, <2>3, ProgramSpares
<1>9. ASSUME NEW c \in Conns, Unlist(c) \/ Join(c) \/ Input(c) PROVE FALSE
  <2>1. \A d \in Conns : Follows(d)
    BY <1>9, GoesFollows, WorkPcs DEF Unlist, Join, Input, Attending
  <2>2. UNCHANGED <<ses, tty, ui>>
    BY <1>9 DEF Unlist, Join, Input
  <2> QED BY <1>s, <2>1, <2>2, StillSpares
<1>10. ASSUME NEW c \in Conns, Connect(c) \/ Leave(c) \/ Refuse(c) PROVE FALSE
  <2>1. UNCHANGED <<tty, ui>> /\ (UNCHANGED ses \/ ses' = Freed(Stale))
    BY <1>10 DEF Connect, Leave, Refuse, Prune
  <2>2. \A d \in Conns : Follows(d)
    <3>1. CASE Connect(c)
      BY <3>1, GoesFollows, WorkPcs DEF Connect, Attending
    <3>2. CASE Leave(c) /\ Goes(c, "hang")
      BY <3>2, GoesFollows, WorkPcs DEF Leave, Attending, Ends, Goes, NoWork, Typed, Works
    <3>3. CASE Ends(c)
      BY <3>3, EndsFollows
    <3> QED BY <1>10, <3>1, <3>2, <3>3 DEF Leave, Refuse
  <2> QED BY <1>s, <2>1, <2>2, StillSpares, FreedSpares
<1>11. CASE AnswerTicket \/ TurnOn \/ StopServer \/ Resume
  <2>1. UNCHANGED <<ses, tty, work>> /\ ui'.pending \subseteq ui.pending
    <3>1. CASE AnswerTicket \/ TurnOn
      BY <3>1 DEF AnswerTicket, TurnOn
    <3>2. CASE StopServer
      BY <3>2 DEF StopServer, Typed, UiState
    <3>3. CASE Resume
      BY <3>3 DEF Resume, Idle
    <3> QED BY <1>11, <3>1, <3>2, <3>3
  <2> QED BY <1>s, <2>1, StillSpares, StillFollows
<1>12. CASE TurnOff \/ CloseSocket \/ AllClosed \/ Stopped
  <2>1. UNCHANGED <<ses, tty, work>> /\ ui'.pending \subseteq ui.pending
    BY <1>12 DEF TurnOff, SaveSettings, UiGoes, CloseSocket, AllClosed, Stopped, Typed, UiState
  <2> QED BY <1>s, <2>1, StillSpares, StillFollows
<1>13. ASSUME NEW s \in Sessions, DestroyPending(s) PROVE FALSE
  <2>1. Free(s) /\ UNCHANGED work /\ ui'.pending \subseteq ui.pending
    BY <1>13 DEF DestroyPending, Typed, UiState
  <2> QED BY <1>s, <2>1, FreeSpares, StillFollows
<1>14. ASSUME NEW s \in Sessions, HangActive(s) PROVE FALSE
  <2>1. UNCHANGED work /\ ui'.pending \subseteq ui.pending /\ HangUp(s)
    BY <1>14 DEF HangActive, Typed, UiState
  <2>2. \A t \in Sessions : Spares(t)
    BY <1>14, <2>1, HangUpLasts DEF HangActive, Spares, HungUp, Typed, Cells, Session
  <2> QED BY <1>s, <2>1, <2>2, StillFollows
<1>15. CASE Relaunch
  <2>1. ses' = Freed(listed) /\ UNCHANGED <<tty, work>> /\ ui'.pending = {}
    BY <1>15 DEF Relaunch, Idle
  <2> QED BY <1>s, <2>1, FreedSpares, StillFollows
<1> QED BY <1>a, <1>1, <1>2, <1>3, <1>4, <1>5, <1>6, <1>7, <1>8, <1>9, <1>10, <1>11, <1>12,
           <1>13, <1>14, <1>15 DEF Step, Worker, Screen, Browser

\* No thread, and least of all the UI, waits for a shell that was not hung up or
\* joins a reader that would go on by itself: a failed spawn, a close-all in the
\* middle of an attach, and one session destroyed by two leave none behind
\* (cs_terminal_session_destroy). A shell that ignores the hangup, and a job of
\* it that keeps the terminal open, are waited for all the same.
THEOREM WaitedIsHungUpAlways == Spec => []WaitedIsHungUp
<1>1. Init => HangInv
  BY DEF Init, Idle, Blank, HangInv
<1>2. Typed /\ TerminalInv /\ HangInv /\ [Next]_vars => HangInv'
  BY NextHangs
<1>3. TypeOK => Typed
  BY TypeParts
<1>4. Typed /\ TerminalInv /\ HangInv => WaitedIsHungUp
  BY HangingIsEnough
<1> QED BY <1>1, <1>2, <1>3, <1>4, AlwaysTerminal, PTL DEF Spec

=============================================================================
