------------------------------ MODULE Terminal ------------------------------
(* The browser terminal (terminal.c): tickets, WebSocket sessions, the reader  *)
(* thread and the shell of each session, and the close-all that the handheld   *)
(* runs when the terminal is turned off or the server stops.                   *)
(*                                                                             *)
(* One action per critical section or blocking call. The manager's mutex is    *)
(* never held across a call that blocks, so its sections are single steps. A   *)
(* session's mutex is: input is written to the pseudo-terminal under it.       *)
EXTENDS Integers, FiniteSets

CONSTANTS Conns,      \* WebSocket connections, each with its CivetWeb worker
          NoConn,
          Sessions,   \* cells of memory for sessions
          NoSession,
          MaxListed,  \* 32 in cs_terminal_allocate_ticket
          Capacity,   \* of each direction of a pseudo-terminal, in chunks
          Manners     \* how the programs of a shell may behave, see Manner

\* "silent" reads its input whatever becomes of its output; "chatty" answers
\* each chunk before it reads the next; "stubborn" leaves a job in the terminal
\* that ignores the hangup.
Manner == {"silent", "chatty", "stubborn"}

ASSUME TerminalAssumption ==
    /\ NoConn \notin Conns
    /\ NoSession \notin Sessions
    /\ MaxListed \in Nat \ {0}
    /\ Capacity \in Nat \ {0}
    /\ Manners \subseteq Manner

VARIABLES
    enabled,  \* app->terminal_enabled
    saved,    \* terminal_enabled in settings.json
    listed,   \* manager->sessions
    ses,      \* the cells: cs_terminal_session
    reader,   \* the reader thread of each session, and the socket it writes to
    tty,      \* the pseudo-terminal of each session and what runs in it
    work,     \* the worker of each connection, and its user connection data
    issuing,  \* the session whose ticket a POST is about to answer
    told,     \* connections that were sent a close frame
    ui,       \* the UI thread
    swept     \* history: sessions that a close-all took hold of

vars == <<enabled, saved, listed, ses, reader, tty, work, issuing, told, ui, swept>>

----------------------------------------------------------------------------
(* State *)

Blank == [live |-> FALSE, authenticated |-> FALSE, closing |-> FALSE, fd |-> FALSE,
          child |-> FALSE, conn |-> NoConn, expired |-> FALSE]
NoReader == [pc |-> "none", conn |-> NoConn]
NoTty == [shell |-> "none", hup |-> FALSE, job |-> FALSE, input |-> 0, output |-> 0,
          manner |-> "silent"]
NoWork == [pc |-> "none", ses |-> NoSession]
Idle == [pc |-> "idle", pending |-> {}, active |-> {}, ses |-> NoSession,
         conn |-> NoConn, stop |-> FALSE]

Init ==
    /\ saved \in BOOLEAN /\ enabled = saved
    /\ listed = {} /\ swept = {} /\ told = {}
    /\ ses = [s \in Sessions |-> Blank]
    /\ reader = [s \in Sessions |-> NoReader]
    /\ tty = [s \in Sessions |-> NoTty]
    /\ work = [c \in Conns |-> NoWork]
    /\ issuing = NoSession
    /\ ui = Idle

Serving == ui.pc \notin {"stopping", "down"}

\* The threads that have a pointer to session s; each of them uses it next.
Held(s) ==
    \/ issuing = s
    \/ \E c \in Conns : work[c].ses = s
    \/ reader[s].pc \notin {"none", "done"}
    \/ s \in ui.pending \cup ui.active

\* A freed session that is still held, or a connection that close-all still
\* writes to after its handler has ended: from here on C promises nothing.
Dangling(s) == Held(s) /\ ~ses[s].live
DeadSocket(s) == \E c \in Conns : ui.ses = s /\ ui.conn = c /\ work[c].ses # s
Broken == \E s \in Sessions : Dangling(s) \/ DeadSocket(s)

\* The session's mutex is held over a step only by a worker inside write().
Unlocked(s) == \A c \in Conns : ~(work[c].pc = "write" /\ work[c].ses = s)

\* Nobody has the slave side of the pseudo-terminal open.
SlaveClosed(s) == tty[s].shell # "runs" /\ ~tty[s].job

----------------------------------------------------------------------------
(* Tickets *)

Stale == {s \in listed : ~ses[s].authenticated /\ ses[s].expired}

Freed(S) == [s \in Sessions |-> IF s \in S THEN Blank ELSE ses[s]]

\* The end of cs_terminal_session_destroy. The terminal and the thread go with
\* the session if they have ended.
Free(s) ==
    /\ ses' = Freed({s})
    /\ reader' = IF reader[s].pc = "done" THEN [reader EXCEPT ![s] = NoReader] ELSE reader
    /\ tty' = IF tty[s].shell = "runs" THEN tty ELSE [tty EXCEPT ![s] = NoTty]

\* cs_terminal_prune_locked; no reader and no shell exist before a session is
\* authenticated.
Prune ==
    /\ listed' = listed \ Stale
    /\ ses' = Freed(Stale)

\* POST /api/terminal/session. A cell is only used again once nobody holds it,
\* so that a stale pointer shows as one.
RequestTicket ==
    /\ Serving /\ enabled /\ issuing = NoSession
    /\ LET kept == listed \ Stale IN
       \/ /\ Cardinality(kept) >= MaxListed
          /\ Prune
          /\ UNCHANGED <<issuing, swept>>
       \/ /\ Cardinality(kept) < MaxListed
          /\ \E s \in Sessions \ kept :
                /\ ~Held(s) /\ (ses[s].live => s \in Stale)
                /\ listed' = kept \cup {s}
                /\ ses' = [Freed(Stale) EXCEPT ![s] = [Blank EXCEPT !.live = TRUE]]
                /\ swept' = swept \ {s}
                /\ issuing' = s
    /\ UNCHANGED <<enabled, saved, reader, tty, work, told, ui>>

\* The answer is formatted from the session after the lock is given back.
AnswerTicket ==
    /\ issuing # NoSession
    /\ issuing' = NoSession
    /\ UNCHANGED <<enabled, saved, listed, ses, reader, tty, work, told, ui, swept>>

\* Ten seconds pass; the answer to the POST does not take as long.
Expire(s) ==
    /\ s \in listed /\ ~ses[s].authenticated /\ ~ses[s].expired /\ issuing # s
    /\ ses' = [ses EXCEPT ![s].expired = TRUE]
    /\ UNCHANGED <<enabled, saved, listed, reader, tty, work, issuing, told, ui, swept>>

----------------------------------------------------------------------------
(* The worker of a connection, which takes no message once the server stops *)

Goes(c, pc) == work' = [work EXCEPT ![c].pc = pc]
Ends(c) == work' = [work EXCEPT ![c] = NoWork]

Connect(c) ==
    /\ work[c].pc = "none" /\ Serving /\ enabled
    /\ Goes(c, "open")
    /\ told' = told \ {c}
    /\ UNCHANGED <<enabled, saved, listed, ses, reader, tty, issuing, ui, swept>>

\* Mutant: a ticket is found although it was used.
FindTicket_Reused(s) == s \in listed \ Stale /\ ~ses[s].closing

\* cs_terminal_find_ticket_locked
FindTicket(s) == s \in listed \ Stale /\ ~ses[s].closing /\ ~ses[s].authenticated

\* The auth message with the ticket of s, from the browser it was made for; no
\* browser knows a ticket before it is answered.
Attach(c) ==
    /\ work[c].pc = "open" /\ Serving /\ enabled
    /\ \E s \in Sessions :
          /\ FindTicket(s) /\ issuing # s
          /\ listed' = listed \ Stale
          /\ ses' = [Freed(Stale) EXCEPT ![s].authenticated = TRUE, ![s].conn = c]
          /\ work' = [work EXCEPT ![c] = [pc |-> "fork", ses |-> s]]
    /\ UNCHANGED <<enabled, saved, reader, tty, issuing, told, ui, swept>>

\* Anything else as the first message, or the browser leaves.
Refuse(c) ==
    /\ work[c].pc = "open"
    /\ Ends(c)
    /\ Prune \/ UNCHANGED <<listed, ses>>
    /\ UNCHANGED <<enabled, saved, reader, tty, issuing, told, ui, swept>>

Fork(c) ==
    LET s == work[c].ses IN
    /\ work[c].pc = "fork"
    /\ \/ \E m \in Manners :
             /\ ses' = [ses EXCEPT ![s].fd = TRUE]
             /\ tty' = [tty EXCEPT ![s] = [NoTty EXCEPT !.shell = "runs", !.manner = m]]
             /\ Goes(c, "child")
       \/ Goes(c, "unspawn") /\ UNCHANGED <<ses, tty>>
    /\ UNCHANGED <<enabled, saved, listed, reader, issuing, told, ui, swept>>

\* Mutant: without a reader thread the shell is left alone.
StartReader_Forgets(c) ==
    LET s == work[c].ses IN
    /\ work[c].pc = "child"
    /\ ses' = [ses EXCEPT ![s].fd = FALSE]
    /\ Goes(c, "unspawn")
    /\ UNCHANGED <<enabled, saved, listed, reader, tty, issuing, told, ui, swept>>

\* child_pid and the reader thread; without a thread the shell is killed and
\* waited for.
StartReader(c) ==
    LET s == work[c].ses IN
    /\ work[c].pc = "child"
    /\ \/ /\ ses' = [ses EXCEPT ![s].child = TRUE]
          /\ reader' = [reader EXCEPT ![s] = [pc |-> "loop", conn |-> NoConn]]
          /\ Goes(c, "ready")
          /\ UNCHANGED tty
       \/ /\ ses' = [ses EXCEPT ![s].fd = FALSE]
          /\ tty' = [tty EXCEPT ![s].shell = "gone"]
          /\ Goes(c, "unspawn")
          /\ UNCHANGED reader
    /\ UNCHANGED <<enabled, saved, listed, issuing, told, ui, swept>>

Unspawn(c) ==
    LET s == work[c].ses IN
    /\ work[c].pc = "unspawn"
    /\ listed' = listed \ {s}
    /\ Free(s)
    /\ Ends(c)
    /\ UNCHANGED <<enabled, saved, issuing, told, ui, swept>>

\* Input for the shell: the lock is taken, and kept until all is written.
Input(c) ==
    LET s == work[c].ses IN
    /\ work[c].pc = "ready" /\ Serving /\ ~ses[s].closing /\ ses[s].fd
    /\ Goes(c, "write")
    /\ UNCHANGED <<enabled, saved, listed, ses, reader, tty, issuing, told, ui, swept>>

WriteInput(c) ==
    LET s == work[c].ses IN
    /\ work[c].pc = "write"
    /\ \/ tty[s].input < Capacity /\ tty' = [tty EXCEPT ![s].input = @ + 1]
       \/ SlaveClosed(s) /\ UNCHANGED tty
    /\ Goes(c, "ready")
    /\ UNCHANGED <<enabled, saved, listed, ses, reader, issuing, told, ui, swept>>

\* The browser leaves or answers a close frame, or the server is stopping.
Leave(c) ==
    /\ \/ work[c].pc = "ready" /\ Goes(c, "hang")
       \/ work[c].pc = "open" /\ ~Serving /\ Ends(c)
    /\ UNCHANGED <<enabled, saved, listed, ses, reader, tty, issuing, told, ui, swept>>

\* Mutant: the terminal is closed and the shell not signalled.
HangUp_CloseOnly(s) ==
    tty' = [tty EXCEPT ![s].hup = @ \/ (ses[s].fd /\ reader[s].pc # "read")]

\* The terminal is closed and the shell hung up. The kernel hangs up by itself
\* only when nobody is still inside a read of the closed descriptor.
HangUp(s) ==
    tty' = [tty EXCEPT ![s].hup = @ \/ ses[s].child \/ (ses[s].fd /\ reader[s].pc # "read")]

\* cs_terminal_ws_close, its first section.
Hang(c) ==
    LET s == work[c].ses IN
    /\ work[c].pc = "hang"
    /\ HangUp(s)
    /\ ses' = [ses EXCEPT ![s].conn = NoConn, ![s].closing = TRUE, ![s].fd = FALSE]
    /\ Goes(c, "unlist")
    /\ UNCHANGED <<enabled, saved, listed, reader, issuing, told, ui, swept>>

Unlist(c) ==
    /\ work[c].pc = "unlist"
    /\ listed' = listed \ {work[c].ses}
    /\ Goes(c, "join")
    /\ UNCHANGED <<enabled, saved, ses, reader, tty, issuing, told, ui, swept>>

\* Mutant: the reader is not waited for.
Join_Detached(c) ==
    /\ work[c].pc = "join"
    /\ Goes(c, "reap")
    /\ UNCHANGED <<enabled, saved, listed, ses, reader, tty, issuing, told, ui, swept>>

\* cs_terminal_session_destroy: join the reader, then wait for the shell.
Join(c) ==
    /\ work[c].pc = "join"
    /\ reader[work[c].ses].pc \in {"none", "done"}
    /\ Goes(c, "reap")
    /\ UNCHANGED <<enabled, saved, listed, ses, reader, tty, issuing, told, ui, swept>>

Reap(c) ==
    LET s == work[c].ses IN
    /\ work[c].pc = "reap"
    /\ tty[s].shell # "runs"
    /\ Free(s)
    /\ Ends(c)
    /\ UNCHANGED <<enabled, saved, listed, issuing, told, ui, swept>>

----------------------------------------------------------------------------
(* The reader thread of session s *)

ReaderGoes(s, pc) == reader' = [reader EXCEPT ![s].pc = pc]

Read(s) ==
    /\ reader[s].pc = "loop"
    /\ ReaderGoes(s, IF ses[s].fd THEN "read" ELSE "end")
    /\ UNCHANGED <<enabled, saved, listed, ses, tty, work, issuing, told, ui, swept>>

\* A read that has begun goes on although the descriptor is closed under it.
ReadReturns(s) ==
    /\ reader[s].pc = "read"
    /\ \/ /\ tty[s].output > 0
          /\ tty' = [tty EXCEPT ![s].output = @ - 1]
          /\ ReaderGoes(s, "got")
       \/ /\ tty[s].output = 0 /\ SlaveClosed(s)
          /\ ReaderGoes(s, "end")
          /\ UNCHANGED tty
    /\ UNCHANGED <<enabled, saved, listed, ses, work, issuing, told, ui, swept>>

\* Where the chunk goes is looked up under the session's mutex.
Look(s) ==
    /\ reader[s].pc = "got" /\ Unlocked(s)
    /\ reader' = [reader EXCEPT ![s] =
         IF ses[s].closing THEN [pc |-> "done", conn |-> NoConn]
         ELSE IF ses[s].conn = NoConn THEN [pc |-> "loop", conn |-> NoConn]
         ELSE [pc |-> "send", conn |-> ses[s].conn]]
    /\ UNCHANGED <<enabled, saved, listed, ses, tty, work, issuing, told, ui, swept>>

Send(s) ==
    /\ reader[s].pc = "send"
    /\ \E pc \in {"loop", "end"} : reader' = [reader EXCEPT ![s] = [pc |-> pc, conn |-> NoConn]]
    /\ UNCHANGED <<enabled, saved, listed, ses, tty, work, issuing, told, ui, swept>>

End(s) ==
    /\ reader[s].pc = "end" /\ Unlocked(s)
    /\ IF ses[s].closing
       THEN ReaderGoes(s, "done") /\ UNCHANGED ses
       ELSE /\ ses' = [ses EXCEPT ![s].closing = TRUE]
            /\ reader' = [reader EXCEPT ![s] = [pc |-> "bye", conn |-> ses[s].conn]]
    /\ UNCHANGED <<enabled, saved, listed, tty, work, issuing, told, ui, swept>>

Bye(s) ==
    /\ reader[s].pc = "bye"
    /\ told' = told \cup ({reader[s].conn} \ {NoConn})
    /\ reader' = [reader EXCEPT ![s] = [pc |-> "done", conn |-> NoConn]]
    /\ UNCHANGED <<enabled, saved, listed, ses, tty, work, issuing, ui, swept>>

----------------------------------------------------------------------------
(* The programs in the terminal of session s *)

Program(s) == UNCHANGED <<enabled, saved, listed, ses, reader, work, issuing, told, ui, swept>>

Prints(s) ==
    /\ tty[s].shell = "runs" /\ tty[s].output < Capacity
    /\ tty' = [tty EXCEPT ![s].output = @ + 1]
    /\ Program(s)

ReadsInput(s) ==
    /\ tty[s].shell = "runs" /\ tty[s].input > 0
    /\ IF tty[s].manner = "chatty"
       THEN /\ tty[s].output < Capacity
            /\ tty' = [tty EXCEPT ![s].input = @ - 1, ![s].output = @ + 1]
       ELSE tty' = [tty EXCEPT ![s].input = @ - 1]
    /\ Program(s)

\* The shell ends, by itself or at the hangup.
Exits(s) ==
    /\ tty[s].shell = "runs"
    /\ tty' = [tty EXCEPT ![s].shell = "gone", ![s].job = (tty[s].manner = "stubborn")]
    /\ Program(s)

JobEnds(s) ==
    /\ tty[s].job
    /\ tty' = [tty EXCEPT ![s].job = FALSE]
    /\ Program(s)

----------------------------------------------------------------------------
(* The UI thread *)

UiGoes(pc) == ui' = [ui EXCEPT !.pc = pc]

\* cs_settings_save: the file is replaced, and then its folder synced. A sync
\* that fails makes it a failure although the file is the new one.
SaveSettings(on, ok) ==
    /\ ui.pc = "idle" /\ enabled # on
    /\ saved' = on
    /\ enabled' = IF ok THEN on ELSE enabled

TurnOn ==
    /\ \E ok \in BOOLEAN : SaveSettings(TRUE, ok)
    /\ UNCHANGED <<listed, ses, reader, tty, work, issuing, told, ui, swept>>

\* Mutant: only the setting changes.
TurnOff_SettingOnly ==
    /\ SaveSettings(FALSE, TRUE)
    /\ UNCHANGED <<listed, ses, reader, tty, work, issuing, told, ui, swept>>

TurnOff ==
    /\ \/ SaveSettings(FALSE, TRUE) /\ UiGoes("sweep")
       \/ SaveSettings(FALSE, FALSE) /\ UNCHANGED ui
    /\ UNCHANGED <<listed, ses, reader, tty, work, issuing, told, swept>>

\* Quit, or hand the server over: close-all, then cs_server_stop.
StopServer ==
    /\ ui.pc = "idle"
    /\ ui' = [ui EXCEPT !.pc = "sweep", !.stop = TRUE]
    /\ UNCHANGED <<enabled, saved, listed, ses, reader, tty, work, issuing, told, swept>>

\* cs_terminal_manager_close_all under the manager's lock. What it takes off
\* the list it destroys; the others stay listed, and it keeps pointers to them.
Sweep ==
    LET pending == {s \in listed : ~ses[s].authenticated \/ ses[s].conn = NoConn} IN
    /\ ui.pc = "sweep"
    /\ ui' = [ui EXCEPT !.pc = "close", !.pending = pending, !.active = listed \ pending]
    /\ listed' = listed \ pending
    /\ swept' = swept \cup listed
    /\ UNCHANGED <<enabled, saved, ses, reader, tty, work, issuing, told>>

DestroyPending(s) ==
    /\ ui.pc = "close" /\ s \in ui.pending
    /\ reader[s].pc \in {"none", "done"} /\ tty[s].shell # "runs"
    /\ Free(s)
    /\ ui' = [ui EXCEPT !.pending = @ \ {s}]
    /\ UNCHANGED <<enabled, saved, listed, work, issuing, told, swept>>

\* Mutant: the socket is closed without a look whether there is one.
HangActive_AnySocket(s) ==
    /\ ui.pc = "close" /\ ui.pending = {} /\ s \in ui.active /\ Unlocked(s)
    /\ HangUp(s)
    /\ ses' = [ses EXCEPT ![s].closing = TRUE, ![s].fd = FALSE]
    /\ ui' = [ui EXCEPT !.active = @ \ {s}, !.pc = "bye", !.ses = s, !.conn = ses[s].conn]
    /\ UNCHANGED <<enabled, saved, listed, reader, work, issuing, told, swept>>

HangActive(s) ==
    /\ ui.pc = "close" /\ ui.pending = {} /\ s \in ui.active /\ Unlocked(s)
    /\ HangUp(s)
    /\ ses' = [ses EXCEPT ![s].closing = TRUE, ![s].fd = FALSE]
    /\ ui' = IF ses[s].conn = NoConn THEN [ui EXCEPT !.active = @ \ {s}]
             ELSE [ui EXCEPT !.active = @ \ {s}, !.pc = "bye", !.ses = s, !.conn = ses[s].conn]
    /\ UNCHANGED <<enabled, saved, listed, reader, work, issuing, told, swept>>

\* The reason and the close frame go out after the session's lock is given back.
CloseSocket ==
    /\ ui.pc = "bye"
    /\ told' = told \cup {ui.conn}
    /\ ui' = [ui EXCEPT !.pc = "close", !.ses = NoSession, !.conn = NoConn]
    /\ UNCHANGED <<enabled, saved, listed, ses, reader, tty, work, issuing, swept>>

AllClosed ==
    /\ ui.pc = "close" /\ ui.pending = {} /\ ui.active = {}
    /\ UiGoes(IF ui.stop THEN "stopping" ELSE "idle")
    /\ UNCHANGED <<enabled, saved, listed, ses, reader, tty, work, issuing, told, swept>>

\* mg_stop joins the workers.
Stopped ==
    /\ ui.pc = "stopping" /\ issuing = NoSession
    /\ \A c \in Conns : work[c].pc = "none"
    /\ UiGoes("down")
    /\ UNCHANGED <<enabled, saved, listed, ses, reader, tty, work, issuing, told, swept>>

\* The handoff failed and the server starts again with the same manager.
Resume ==
    /\ ui.pc = "down"
    /\ ui' = Idle
    /\ UNCHANGED <<enabled, saved, listed, ses, reader, tty, work, issuing, told, swept>>

\* cs_terminal_manager_shutdown, and the next launch.
Relaunch ==
    /\ ui.pc = "down"
    /\ listed' = {} /\ ses' = Freed(listed)
    /\ enabled' = saved
    /\ ui' = Idle
    /\ UNCHANGED <<saved, reader, tty, work, issuing, told, swept>>

----------------------------------------------------------------------------
(* Specification *)

Worker(c) ==
    \/ Attach(c) \/ Fork(c) \/ StartReader(c) \/ Unspawn(c) \/ WriteInput(c)
    \/ Hang(c) \/ Unlist(c) \/ Join(c) \/ Reap(c)
Reader(s) == Read(s) \/ ReadReturns(s) \/ Look(s) \/ Send(s) \/ End(s) \/ Bye(s)
Screen ==
    \/ Sweep \/ CloseSocket \/ AllClosed \/ Stopped
    \/ \E s \in Sessions : DestroyPending(s) \/ HangActive(s)
Programs(s) == Prints(s) \/ ReadsInput(s) \/ Exits(s) \/ JobEnds(s)
Browser(c) == Connect(c) \/ Refuse(c) \/ Input(c) \/ Leave(c)

Step ==
    \/ RequestTicket \/ AnswerTicket
    \/ \E s \in Sessions : Expire(s) \/ Reader(s) \/ Programs(s)
    \/ \E c \in Conns : Worker(c) \/ Browser(c)
    \/ TurnOn \/ TurnOff \/ StopServer \/ Screen \/ Resume \/ Relaunch

Next ==
    \/ ~Broken /\ Step
    \/ Broken /\ UNCHANGED vars

Spec == Init /\ [][Next]_vars

\* The server's own steps go on: a thread that waits for a mutex gets it in the
\* end, although other threads take it in between. A hung-up shell ends, and a
\* program that can read its input does. A browser answers a close frame, and a
\* connection that is not answered is dropped when the server stops.
Fairness ==
    /\ WF_vars(AnswerTicket) /\ WF_vars(Screen)
    /\ \A s \in Sessions :
          /\ WF_vars(Read(s) \/ ReadReturns(s) \/ Send(s) \/ Bye(s))
          /\ SF_vars(Look(s)) /\ SF_vars(End(s)) /\ SF_vars(HangActive(s))
          /\ WF_vars(tty[s].hup /\ Exits(s)) /\ WF_vars(ReadsInput(s))
    /\ \A c \in Conns :
          /\ WF_vars(Worker(c))
          /\ WF_vars((c \in told \/ ~Serving) /\ (Leave(c) \/ Refuse(c)))

FairSpec == Spec /\ Fairness

----------------------------------------------------------------------------
(* Properties *)

\* Types of the state of terminal.c.
TypeOK ==
    /\ enabled \in BOOLEAN /\ saved \in BOOLEAN
    /\ listed \subseteq Sessions /\ swept \subseteq Sessions /\ told \subseteq Conns
    /\ ses \in [Sessions -> [live : BOOLEAN, authenticated : BOOLEAN, closing : BOOLEAN,
                             fd : BOOLEAN, child : BOOLEAN, conn : Conns \cup {NoConn},
                             expired : BOOLEAN]]
    /\ reader \in [Sessions -> [pc : {"none", "loop", "read", "got", "send", "end", "bye", "done"},
                                conn : Conns \cup {NoConn}]]
    /\ tty \in [Sessions -> [shell : {"none", "runs", "gone"}, hup : BOOLEAN, job : BOOLEAN,
                             input : 0..Capacity, output : 0..Capacity, manner : Manner]]
    /\ work \in [Conns -> [pc : {"none", "open", "fork", "child", "unspawn", "ready", "write",
                                 "hang", "unlist", "join", "reap"},
                           ses : Sessions \cup {NoSession}]]
    /\ issuing \in Sessions \cup {NoSession}
    /\ ui \in [pc : {"idle", "sweep", "close", "bye", "stopping", "down"},
               pending : SUBSET Sessions, active : SUBSET Sessions,
               ses : Sessions \cup {NoSession}, conn : Conns \cup {NoConn}, stop : BOOLEAN]

\* A session has one socket: a ticket opens one terminal, although two browsers
\* send it at once (cs_terminal_attach_ticket), and the reader writes only to the
\* socket whose handler is with the session: cs_terminal_ws_close joins it first.
OneSocket ==
    \A s \in Sessions :
        /\ Cardinality({c \in Conns : work[c].ses = s}) <= 1
        /\ reader[s].conn # NoConn => work[reader[s].conn].ses = s

\* cs_terminal_session_destroy frees a session that a reader, a worker or the
\* UI thread still holds only if a close-all had taken hold of it: pruning, a
\* failed spawn and a closing socket never pull it from under another thread.
OnlySweptDangle == \A s \in Sessions : Dangling(s) => s \in swept

\* A shell that runs has a session that can still hang it up: one that is
\* listed, or that a worker or the close-all has in hand.
ShellIsReachable ==
    \A s \in Sessions : tty[s].shell = "runs" =>
        /\ ses[s].live
        /\ s \in listed \cup ui.pending \/ \E c \in Conns : work[c].ses = s

Silent == \A s \in Sessions : tty[s].manner = "silent"

\* Where programs read their input and obey the hangup: after the terminal is
\* turned off all shells end, also one whose session was attached but not yet
\* spawned when close-all went by, unless the terminal is turned on again.
OffEndsShells ==
    []Silent => ((ui.pc = "idle" /\ ~enabled)
                   ~> (enabled \/ Broken \/ \A s \in Sessions : tty[s].shell # "runs"))

\* Where programs read their input and obey the hangup: a server that is told
\* to stop stops, whatever its terminals are in the middle of.
QuietStopEnds == []Silent => (ui.stop ~> (ui.pc = "down" \/ Broken))

\* A server that is told to stop stops: cs_server_start says of CivetWeb's
\* settings that shutdown stays responsive.
StopEnds == ui.stop ~> (ui.pc = "down" \/ Broken)
=============================================================================
