------------------------------ MODULE Handoff ------------------------------
(***************************************************************************)
(* The life of the processes that serve (app.c, daemon.c): the app in the  *)
(* foreground hands its server to a background child and exits, and an app *)
(* launched later finds the background server through daemon-state.json    *)
(* and stops it before it opens its own.                                   *)
(*                                                                         *)
(* A process is known by its pid, which the system gives out again once    *)
(* the process is gone.  Processes may be killed at any step and the       *)
(* handheld may be switched off; the state file stays.  Every timeout is a *)
(* choice to stop waiting.                                                 *)
(***************************************************************************)
EXTENDS Integers, FiniteSets

CONSTANTS
    Pids,
    NoPid,
    Ports,        \* 8877 and the fallback ports
    Preferred,    \* the port the app asks for
    NoPort

ASSUME HandoffAssumption ==
    /\ NoPid \notin Pids
    /\ Preferred \in Ports
    /\ NoPort \notin Ports

VARIABLES
    proc,    \* the process of each pid
    state,   \* daemon-state.json
    lost     \* history: a background server was left that no file names

vars == <<proc, state, lost>>

AppSteps   == {"load", "term", "kill", "clear", "port", "open", "serve",
               "handoff", "signal", "wait", "reap", "restore"}
ChildSteps == {"start", "bind", "check", "save", "ready", "sigwait", "stop", "erase"}

Process ==
    [kind: {"free", "other", "app", "child"},
     pc: AppSteps \cup ChildSteps \cup {"run"},
     peer: Pids \cup {NoPid},          \* the child, the parent, or the pid to stop
     port: Ports,
     serving: BOOLEAN,                 \* its server is up on the port
     sig: {"none", "term", "kill"},    \* pending signal
     begin: BOOLEAN,                   \* the start byte is in a child's pipe
     status: {"none", "ok", "fail"}]   \* what a child wrote to its ready pipe

NoState == [pid |-> NoPid, port |-> NoPort]

TypeOK ==
    /\ proc \in [Pids -> Process]
    /\ state \in {NoState} \cup [pid: Pids, port: Ports]
    /\ lost \in BOOLEAN

New(kind, pc, peer, port) ==
    [kind |-> kind, pc |-> pc, peer |-> peer, port |-> port, serving |-> FALSE,
     sig |-> "none", begin |-> FALSE, status |-> "none"]

Free == New("free", "run", NoPid, Preferred)

Init ==
    /\ proc = [p \in Pids |-> Free]
    /\ state = NoState
    /\ lost = FALSE

-----------------------------------------------------------------------------
(* Processes, signals and sockets *)

Alive(p) == proc[p].kind # "free"

Runs(p, kind, pc) == proc[p].kind = kind /\ proc[p].pc = pc /\ proc[p].sig # "kill"

\* c is the child that p forked.  A child that died is held by waitpid.
Parent(p, c) == proc[p].kind = "app" /\ proc[p].peer = c
Child(p, c)  == proc[c].kind = "child" /\ proc[c].peer = p

Awaited(c) == \E p \in Pids : Parent(p, c) /\ proc[p].pc \in {"handoff", "signal", "wait", "reap"}

\* A pid may be given out again while the state file names it.
Assignable(p) == ~Alive(p) /\ ~Awaited(p)

PortFree(port) == \A p \in Pids : ~(proc[p].serving /\ proc[p].port = port)

Step(p, pc) == proc' = [proc EXCEPT ![p].pc = pc]

Exit(p) == proc' = [proc EXCEPT ![p] = Free]

\* SIGTERM waits for a background server's sigwait and ends anything else.
AfterTerm(q) ==
    IF proc[q].kind = "child" /\ proc[q].pc # "start"
    THEN [proc[q] EXCEPT !.sig = IF proc[q].sig = "kill" THEN "kill" ELSE "term"]
    ELSE [proc[q] EXCEPT !.sig = "kill"]

-----------------------------------------------------------------------------
(* A launch: cs_daemon_prepare_foreground_start *)

\* The launcher runs one app at a time.
Launch(p) ==
    /\ Assignable(p)
    /\ \A q \in Pids : proc[q].kind # "app"
    /\ proc' = [proc EXCEPT ![p] = New("app", "load", NoPid, Preferred)]
    /\ UNCHANGED <<state, lost>>

\* Mutant: the state file is cleared without a look at the process it names.
LoadState_Trusting(p) ==
    /\ Runs(p, "app", "load")
    /\ state' = NoState
    /\ Step(p, "open")
    /\ UNCHANGED lost

\* A file that cannot be read is cleared, and so is one that names no process.
LoadState(p) ==
    /\ Runs(p, "app", "load")
    /\ \/ /\ state' = NoState
          /\ Step(p, "open")
          /\ lost' = (lost \/ \E q \in Pids : proc[q].kind = "child")
       \/ /\ state # NoState
          /\ ~Alive(state.pid)
          /\ state' = NoState
          /\ proc' = [proc EXCEPT ![p].pc = "open", ![p].port = state.port]
          /\ UNCHANGED lost
       \/ /\ state # NoState
          /\ Alive(state.pid)
          /\ proc' = IF state.pid = p
                     THEN [proc EXCEPT ![p] = AfterTerm(p)]
                     ELSE [proc EXCEPT ![p].pc = "term", ![p].peer = state.pid,
                                       ![p].port = state.port, ![state.pid] = AfterTerm(state.pid)]
          /\ UNCHANGED <<state, lost>>

\* Mutant: a background server that does not end is waited for.
AwaitTerm_Patient(p) ==
    /\ Runs(p, "app", "term")
    /\ ~Alive(proc[p].peer)
    /\ Step(p, "clear")
    /\ UNCHANGED <<state, lost>>

\* The background server ends, or five seconds pass and it is killed.
AwaitTerm(p) ==
    /\ Runs(p, "app", "term")
    /\ LET q == proc[p].peer
       IN  \/ ~Alive(q) /\ Step(p, "clear")
           \/ Alive(q) /\ proc' = [proc EXCEPT ![p].pc = "kill", ![q].sig = "kill"]
    /\ UNCHANGED <<state, lost>>

\* Two seconds more, and the launch fails.
AwaitKill(p) ==
    /\ Runs(p, "app", "kill")
    /\ IF Alive(proc[p].peer) THEN Exit(p) ELSE Step(p, "clear")
    /\ UNCHANGED <<state, lost>>

ClearState(p) ==
    /\ Runs(p, "app", "clear")
    /\ \/ state' = NoState /\ Step(p, "port")
       \/ UNCHANGED state /\ Exit(p)
    /\ UNCHANGED lost

AwaitPort(p) ==
    /\ Runs(p, "app", "port")
    /\ \/ PortFree(proc[p].port) /\ Step(p, "open")
       \/ ~PortFree(proc[p].port) /\ Exit(p)
    /\ UNCHANGED <<state, lost>>

-----------------------------------------------------------------------------
(* The foreground server: cs_app_run_ui, cs_start_server_with_fallback *)

Open(p) ==
    /\ Runs(p, "app", "open")
    /\ \/ \E port \in Ports :
             /\ PortFree(port)
             /\ proc' = [proc EXCEPT ![p].pc = "serve", ![p].port = port, ![p].serving = TRUE]
       \/ Exit(p)
    /\ UNCHANGED <<state, lost>>

\* The network goes away: the server is stopped until it is back.
GoOffline(p) ==
    /\ Runs(p, "app", "serve")
    /\ proc' = [proc EXCEPT ![p].pc = "open", ![p].serving = FALSE]
    /\ UNCHANGED <<state, lost>>

Quit(p) ==
    /\ proc[p].kind = "app"
    /\ proc[p].pc \in {"open", "serve"}
    /\ Exit(p)
    /\ UNCHANGED <<state, lost>>

-----------------------------------------------------------------------------
(* The handoff, as the app runs it: cs_app_start_background_server *)

\* "Run in Background": the child is forked and waits on its start pipe.
Background(p, c) ==
    /\ Runs(p, "app", "serve")
    /\ Assignable(c)
    /\ proc' = [proc EXCEPT ![p].pc = "handoff", ![p].peer = c,
                            ![c] = New("child", "start", p, proc[p].port)]
    /\ UNCHANGED <<state, lost>>

\* cs_terminal_manager_close_all, cs_server_stop
StopServer(p) ==
    /\ Runs(p, "app", "handoff")
    /\ proc' = [proc EXCEPT ![p].pc = "signal", ![p].serving = FALSE]
    /\ UNCHANGED <<state, lost>>

SignalStart(p) ==
    /\ Runs(p, "app", "signal")
    /\ LET c == proc[p].peer
       IN  IF Child(p, c)
           THEN proc' = [proc EXCEPT ![p].pc = "wait", ![c].begin = TRUE]
           ELSE Step(p, "reap")                              \* EPIPE
    /\ UNCHANGED <<state, lost>>

\* Mutant: no timeout.
AwaitReady_Patient(p) ==
    /\ Runs(p, "app", "wait")
    /\ LET c == proc[p].peer
       IN  \/ Child(p, c) /\ proc[c].status = "ok" /\ Exit(p)
           \/ ~Child(p, c) /\ Step(p, "reap")
    /\ UNCHANGED <<state, lost>>

\* The child reports, or dies, or ten seconds pass.
AwaitReady(p) ==
    /\ Runs(p, "app", "wait")
    /\ LET c == proc[p].peer
       IN  \/ Child(p, c) /\ proc[c].status = "ok" /\ Exit(p)
           \/ Child(p, c) /\ proc' = [proc EXCEPT ![p].pc = "reap", ![c].sig = "kill"]
           \/ ~Child(p, c) /\ Step(p, "reap")
    /\ UNCHANGED <<state, lost>>

\* waitpid
Reap(p) ==
    /\ Runs(p, "app", "reap")
    /\ ~Child(p, proc[p].peer)
    /\ Step(p, "restore")
    /\ UNCHANGED <<state, lost>>

\* cs_server_start on the port the app had
Restore(p) ==
    /\ Runs(p, "app", "restore")
    /\ \/ /\ PortFree(proc[p].port)
          /\ proc' = [proc EXCEPT ![p].pc = "serve", ![p].serving = TRUE, ![p].peer = NoPid]
       \/ Exit(p)
    /\ UNCHANGED <<state, lost>>

-----------------------------------------------------------------------------
(* The handoff, as the child runs it: cs_app_run with --daemonized *)

AwaitStart(c) ==
    /\ Runs(c, "child", "start")
    /\ \/ proc[c].begin /\ Step(c, "bind")
       \/ ~proc[c].begin /\ ~Parent(proc[c].peer, c) /\ Exit(c)   \* end of file
    /\ UNCHANGED <<state, lost>>

Fail(c) == proc' = [proc EXCEPT ![c].pc = "stop", ![c].status = "fail"]

Bind(c) ==
    /\ Runs(c, "child", "bind")
    /\ \/ /\ PortFree(proc[c].port)
          /\ proc' = [proc EXCEPT ![c].pc = "check", ![c].serving = TRUE]
       \/ Fail(c)
    /\ UNCHANGED <<state, lost>>

\* cs_app_can_background again: the last client may have been revoked.
CheckTrusted(c) ==
    /\ Runs(c, "child", "check")
    /\ Step(c, "save") \/ Fail(c)
    /\ UNCHANGED <<state, lost>>

\* Mutant: the parent is told before the state file is written.
SaveState_AfterReady(c) ==
    /\ Runs(c, "child", "save")
    /\ proc' = [proc EXCEPT ![c].pc = "ready", ![c].status = "ok"]
    /\ UNCHANGED <<state, lost>>

SaveState(c) ==
    /\ Runs(c, "child", "save")
    /\ \/ state' = [pid |-> c, port |-> proc[c].port] /\ Step(c, "ready")
       \/ Fail(c) /\ UNCHANGED state
    /\ UNCHANGED lost

ReportReady(c) ==
    /\ Runs(c, "child", "ready")
    /\ proc' = [proc EXCEPT ![c].pc = "sigwait", ![c].status = "ok"]
    /\ UNCHANGED <<state, lost>>

\* SIGTERM, from a later launch.
SigWait(c) ==
    /\ Runs(c, "child", "sigwait")
    /\ proc[c].sig = "term"
    /\ Step(c, "stop")
    /\ UNCHANGED <<state, lost>>

\* cs_server_stop, then cs_daemon_state_clear and the end of the process.
StopChild(c) ==
    /\ Runs(c, "child", "stop")
    /\ proc' = [proc EXCEPT ![c].pc = "erase", ![c].serving = FALSE]
    /\ UNCHANGED <<state, lost>>

\* Mutant: the process is struck out of the file, the port is not.
EraseState_PidOnly(c) ==
    /\ Runs(c, "child", "erase")
    /\ state' = [NoState EXCEPT !.port = proc[c].port]
    /\ Exit(c)
    /\ UNCHANGED lost

EraseState(c) ==
    /\ Runs(c, "child", "erase")
    /\ state' = NoState
    /\ Exit(c)
    /\ UNCHANGED lost

-----------------------------------------------------------------------------
(* The rest of the handheld *)

OtherStart(p) ==
    /\ Assignable(p)
    /\ proc' = [proc EXCEPT ![p] = New("other", "run", NoPid, Preferred)]
    /\ UNCHANGED <<state, lost>>

\* SIGKILL takes effect.
Killed(p) ==
    /\ proc[p].sig = "kill"
    /\ Exit(p)
    /\ UNCHANGED <<state, lost>>

\* A child that has begun but is in no state file yet.
Unnamed(c) == proc[c].kind = "child" /\ proc[c].begin /\ state.pid # c

\* A process ends for a reason of its own, or the system kills it.
Die(p) ==
    /\ Alive(p)
    /\ lost' = (lost \/ \E c \in Pids : Parent(p, c) /\ Child(p, c) /\ Unnamed(c))
    /\ Exit(p)
    /\ UNCHANGED state

SwitchOff ==
    /\ \E p \in Pids : Alive(p)
    /\ proc' = [p \in Pids |-> Free]
    /\ lost' = FALSE
    /\ UNCHANGED state

App(p) ==
    \/ LoadState(p) \/ AwaitTerm(p) \/ AwaitKill(p) \/ ClearState(p) \/ AwaitPort(p) \/ Open(p)
    \/ StopServer(p) \/ SignalStart(p) \/ AwaitReady(p) \/ Reap(p) \/ Restore(p)

Daemonized(c) ==
    \/ AwaitStart(c) \/ Bind(c) \/ CheckTrusted(c) \/ SaveState(c) \/ ReportReady(c)
    \/ SigWait(c) \/ StopChild(c) \/ EraseState(c)

User(p) ==
    \/ Launch(p) \/ GoOffline(p) \/ Quit(p)
    \/ \E c \in Pids : Background(p, c)

Next ==
    \/ \E p \in Pids :
          App(p) \/ Daemonized(p) \/ User(p) \/ OtherStart(p) \/ Killed(p) \/ Die(p)
    \/ SwitchOff

Spec == Init /\ [][Next]_vars

\* The app runs on, its own cs_server_stop included, and SIGKILL ends a process.
\* Nothing is assumed of the background process, which may hang on its storage
\* or on a request that keeps a worker busy, nor of users and power cuts.
Fairness == \A p \in Pids : WF_vars(App(p)) /\ WF_vars(Killed(p))

FairSpec == Spec /\ Fairness

-----------------------------------------------------------------------------
(* Properties *)

\* One process at a time serves, and so loads and saves the trust store, unless
\* a background server was lost sight of before its state file was written
\* (cs_app_start_background_server, cs_daemon_prepare_foreground_start).
OneServer ==
    ~lost => \A p, q \in Pids : proc[p].serving /\ proc[q].serving => p = q

\* A background server that has reported ready, upon which its parent leaves,
\* serves, and can be found by the next launch.
ReadyIsNamed ==
    ~lost => \A c \in Pids :
        proc[c].kind = "child" /\ proc[c].status = "ok" /\ proc[c].pc = "sigwait"
            => proc[c].serving /\ state = [pid |-> c, port |-> proc[c].port]

Settled(p) == proc[p].kind # "app" \/ proc[p].pc = "serve"
\* A launch and a handoff end, serving or not, whatever the background server
\* and the child do (cs_daemon_prepare_foreground_start,
\* cs_app_start_background_server).
WaitsEnd ==
    \A p \in Pids :
        proc[p].kind = "app" /\ proc[p].pc \in {"load", "handoff"} ~> Settled(p)
=============================================================================
