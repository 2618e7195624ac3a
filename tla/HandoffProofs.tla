--------------------------- MODULE HandoffProofs ---------------------------
(***************************************************************************)
(* Proofs about Handoff: the types, and that in every state in which no    *)
(* background server was lost sight of, one process serves at most and a   *)
(* background server that reported ready is up and named by its file; and  *)
(* that a launch and a handoff have only so many steps to go.              *)
(***************************************************************************)
EXTENDS Handoff, TLAPS

IsApp(p) == proc[p].kind = "app"
Begun(c) == proc[c].kind = "child" /\ proc[c].begin

\* The launcher runs one app at a time, and no child becomes one.
OneApp == \A p, q \in Pids : IsApp(p) /\ IsApp(q) => p = q

\* What a process is and where it stands tell whether it serves, has been told
\* to begin, has reported, and may have been signalled.
StepsAgree ==
    \A p \in Pids :
        /\ proc[p].serving => proc[p].kind \in {"app", "child"}
        /\ IsApp(p) =>
              /\ proc[p].pc \in AppSteps
              /\ ~proc[p].begin
              /\ proc[p].serving => proc[p].pc \in {"serve", "handoff"}
              /\ proc[p].sig = "none" \/ (proc[p].sig = "kill" /\ proc[p].pc = "load")
              /\ proc[p].pc = "term" => proc[p].peer # p
        /\ proc[p].kind = "child" =>
              /\ proc[p].pc \in ChildSteps
              /\ proc[p].pc # "start" => proc[p].begin
              /\ proc[p].serving => proc[p].pc \in {"check", "save", "ready", "sigwait", "stop"}
              /\ proc[p].pc \in {"check", "save", "ready", "sigwait"} => proc[p].serving
              /\ proc[p].status = "ok" => proc[p].pc \in {"sigwait", "stop", "erase"}

\* The app p knows of the child c and is at a step that deals with it.
Seeks(p, c) ==
    \/ proc[p].pc = "load" /\ state.pid = c
    \/ proc[p].pc \in {"term", "kill"} /\ proc[p].peer = c /\ state.pid = c
    \/ proc[p].pc \in {"wait", "reap"} /\ Parent(p, c) /\ Child(p, c)

\* Why one server holds: a child that was told to begin is the only one, an app
\* that runs beside it is one that seeks it, and is therefore not about to
\* serve, and without an app the state file names it.
InSight ==
    ~lost => \A c \in Pids : Begun(c) =>
        /\ \A d \in Pids : Begun(d) => d = c
        /\ \A p \in Pids : IsApp(p) => Seeks(p, c)
        /\ state.pid = c \/ \E p \in Pids : IsApp(p)
        /\ proc[c].pc = "ready" \/ proc[c].status = "ok"
              => state = [pid |-> c, port |-> proc[c].port]

HandoffInv == OneApp /\ StepsAgree /\ InSight

-----------------------------------------------------------------------------
(* Types *)

Steps == AppSteps \cup ChildSteps \cup {"run"}
Procs == [Pids -> Process]

LEMMA NewType ==
    ASSUME NEW kind \in {"free", "other", "app", "child"}, NEW pc \in Steps,
           NEW peer \in Pids \cup {NoPid}, NEW port \in Ports
    PROVE  New(kind, pc, peer, port) \in Process
  BY DEF New, Process, Steps

LEMMA FreeType == Free \in Process
  BY NewType, HandoffAssumption DEF Free, Steps

\* One field of one process, or a whole process.
LEMMA FieldType ==
    ASSUME NEW f \in Procs, NEW p \in Pids
    PROVE  /\ f[p] \in Process
           /\ \A pc \in Steps : [f EXCEPT ![p].pc = pc] \in Procs
           /\ \A peer \in Pids \cup {NoPid} : [f EXCEPT ![p].peer = peer] \in Procs
           /\ \A port \in Ports : [f EXCEPT ![p].port = port] \in Procs
           /\ \A up \in BOOLEAN : [f EXCEPT ![p].serving = up] \in Procs
           /\ \A sig \in {"none", "term", "kill"} : [f EXCEPT ![p].sig = sig] \in Procs
           /\ \A begin \in BOOLEAN : [f EXCEPT ![p].begin = begin] \in Procs
           /\ \A status \in {"none", "ok", "fail"} : [f EXCEPT ![p].status = status] \in Procs
           /\ \A r \in Process : [f EXCEPT ![p] = r] \in Procs
  BY DEF Procs, Process, Steps

LEMMA ProcessFields ==
    ASSUME NEW r \in Process
    PROVE  r.peer \in Pids \cup {NoPid} /\ r.port \in Ports
  BY DEF Process

LEMMA MoveType ==
    ASSUME proc \in Procs, NEW p \in Pids
    PROVE  /\ \A pc \in Steps : Step(p, pc) => proc' \in Procs
           /\ Exit(p) => proc' \in Procs
           /\ Fail(p) => proc' \in Procs
<1>1. ASSUME NEW pc \in Steps, Step(p, pc) PROVE proc' \in Procs
  BY <1>1, FieldType DEF Step
<1>2. ASSUME Exit(p) PROVE proc' \in Procs
  BY <1>2, FieldType, FreeType DEF Exit
<1>3. ASSUME Fail(p) PROVE proc' \in Procs
  BY <1>3, FieldType DEF Fail, Steps, ChildSteps
<1>4. QED
  BY <1>1, <1>2, <1>3

LEMMA AfterTermType ==
    ASSUME proc \in Procs, NEW q \in Pids
    PROVE  AfterTerm(q) \in Process
<1>1. proc[q] \in Process
  BY DEF Procs
<1>2. \A sig \in {"none", "term", "kill"} : [proc[q] EXCEPT !.sig = sig] \in Process
  BY <1>1 DEF Process
<1>3. QED
  BY <1>2 DEF AfterTerm

LEMMA StepNames ==
    /\ AppSteps \subseteq Steps /\ ChildSteps \subseteq Steps
    /\ {"term", "kill", "clear", "port", "open", "serve", "handoff", "signal", "wait", "reap",
        "restore"} \subseteq Steps
    /\ {"start", "bind", "check", "save", "ready", "sigwait", "stop", "erase"} \subseteq Steps
  BY DEF Steps, AppSteps, ChildSteps

LEMMA InitType == Init => TypeOK
<1> SUFFICES ASSUME Init PROVE TypeOK
  OBVIOUS
<1>1. proc \in [Pids -> Process]
  BY FreeType DEF Init
<1>2. QED
  BY <1>1 DEF Init, TypeOK

LEMMA NextType == TypeOK /\ [Next]_vars => TypeOK'
<1> SUFFICES ASSUME TypeOK, [Next]_vars PROVE TypeOK'
  OBVIOUS
<1>0. proc \in Procs /\ lost \in BOOLEAN /\ state \in {NoState} \cup [pid: Pids, port: Ports]
  BY DEF TypeOK, Procs
<1>a. SUFFICES /\ proc' \in Procs
               /\ lost' \in BOOLEAN
               /\ state' \in {NoState} \cup [pid: Pids, port: Ports]
  BY DEF TypeOK, Procs
<1>b. NoState.pid = NoPid
  BY DEF NoState
<1>1. ASSUME NEW p \in Pids,
             App(p) \/ Daemonized(p) \/ User(p) \/ OtherStart(p) \/ Killed(p) \/ Die(p)
      PROVE  proc' \in Procs
  <2>1. CASE LoadState(p)
    <3>1. CASE Step(p, "open")
      BY <1>0, <3>1, MoveType, StepNames
    <3>2. CASE state # NoState /\ ~Step(p, "open")
      <4>1. state.pid \in Pids /\ state.port \in Ports
        BY <1>0, <3>2
      <4>2. CASE proc' = [proc EXCEPT ![p].pc = "open", ![p].port = state.port]
        BY <1>0, <4>1, <4>2, FieldType, StepNames
      <4>3. CASE proc' = [proc EXCEPT ![p] = AfterTerm(p)]
        BY <1>0, <4>3, FieldType, AfterTermType
      <4>4. CASE proc' = [proc EXCEPT ![p].pc = "term", ![p].peer = state.pid,
                                      ![p].port = state.port, ![state.pid] = AfterTerm(state.pid)]
        <5> DEFINE f == [proc EXCEPT ![p].pc = "term", ![p].peer = state.pid, ![p].port = state.port]
        <5>1. f \in Procs
          BY <1>0, <4>1, FieldType, StepNames
        <5>2. proc' = [f EXCEPT ![state.pid] = AfterTerm(state.pid)]
          BY <4>4
        <5> HIDE DEF f
        <5>3. QED
          BY <1>0, <4>1, <5>1, <5>2, FieldType, AfterTermType
      <4>5. QED
        BY <3>2, <4>2, <4>3, <4>4, <2>1 DEF LoadState
    <3>3. QED
      BY <2>1, <3>1, <3>2 DEF LoadState
  <2>2. CASE AwaitTerm(p)
    <3>1. CASE Step(p, "clear")
      BY <1>0, <3>1, MoveType, StepNames
    <3>2. CASE Alive(proc[p].peer)
                 /\ proc' = [proc EXCEPT ![p].pc = "kill", ![proc[p].peer].sig = "kill"]
      <4>1. [proc EXCEPT ![p].pc = "kill"] \in Procs
        BY <1>0, FieldType, StepNames
      <4>2. CASE proc[p].peer \in Pids
        BY <1>0, <3>2, <4>1, <4>2, FieldType
      <4>3. CASE proc[p].peer \notin Pids
        BY <1>0, <3>2, <4>1, <4>3 DEF Procs
      <4>4. QED
        BY <4>2, <4>3
    <3>3. QED
      BY <2>2, <3>1, <3>2 DEF AwaitTerm
  <2>3. CASE AwaitKill(p)
    BY <1>0, <2>3, MoveType, StepNames DEF AwaitKill
  <2>4. CASE ClearState(p)
    BY <1>0, <2>4, MoveType, StepNames DEF ClearState
  <2>5. CASE AwaitPort(p)
    BY <1>0, <2>5, MoveType, StepNames DEF AwaitPort
  <2>6. CASE Open(p)
    <3>1. CASE Exit(p)
      BY <1>0, <3>1, MoveType
    <3>2. CASE ~Exit(p)
      <4>1. PICK port \in Ports :
              proc' = [proc EXCEPT ![p].pc = "serve", ![p].port = port, ![p].serving = TRUE]
        BY <2>6, <3>2 DEF Open
      <4>2. QED
        BY <1>0, <4>1, FieldType, StepNames
    <3>3. QED
      BY <3>1, <3>2
  <2>7. CASE StopServer(p)
    BY <1>0, <2>7, FieldType, StepNames DEF StopServer
  <2>8. CASE SignalStart(p)
    <3>1. CASE Step(p, "reap")
      BY <1>0, <3>1, MoveType, StepNames
    <3>2. CASE proc' = [proc EXCEPT ![p].pc = "wait", ![proc[p].peer].begin = TRUE]
      <4>1. [proc EXCEPT ![p].pc = "wait"] \in Procs
        BY <1>0, FieldType, StepNames
      <4>2. CASE proc[p].peer \in Pids
        BY <1>0, <3>2, <4>1, <4>2, FieldType
      <4>3. CASE proc[p].peer \notin Pids
        BY <1>0, <3>2, <4>1, <4>3 DEF Procs
      <4>4. QED
        BY <4>2, <4>3
    <3>3. QED
      BY <2>8, <3>1, <3>2 DEF SignalStart
  <2>9. CASE AwaitReady(p)
    <3>1. CASE Exit(p) \/ Step(p, "reap")
      BY <1>0, <3>1, MoveType, StepNames
    <3>2. CASE proc' = [proc EXCEPT ![p].pc = "reap", ![proc[p].peer].sig = "kill"]
      <4>1. [proc EXCEPT ![p].pc = "reap"] \in Procs
        BY <1>0, FieldType, StepNames
      <4>2. CASE proc[p].peer \in Pids
        BY <1>0, <3>2, <4>1, <4>2, FieldType
      <4>3. CASE proc[p].peer \notin Pids
        BY <1>0, <3>2, <4>1, <4>3 DEF Procs
      <4>4. QED
        BY <4>2, <4>3
    <3>3. QED
      BY <2>9, <3>1, <3>2 DEF AwaitReady
  <2>10. CASE Reap(p)
    BY <1>0, <2>10, MoveType, StepNames DEF Reap
  <2>11. CASE Restore(p)
    <3>1. CASE Exit(p)
      BY <1>0, <3>1, MoveType
    <3>2. CASE ~Exit(p)
      <4>1. proc' = [proc EXCEPT ![p].pc = "serve", ![p].serving = TRUE, ![p].peer = NoPid]
        BY <2>11, <3>2 DEF Restore
      <4>2. QED
        BY <1>0, <4>1, FieldType, StepNames
    <3>3. QED
      BY <3>1, <3>2
  <2>12. CASE AwaitStart(p)
    BY <1>0, <2>12, MoveType, StepNames DEF AwaitStart
  <2>13. CASE Bind(p)
    <3>1. CASE Fail(p)
      BY <1>0, <3>1, MoveType
    <3>2. CASE ~Fail(p)
      <4>1. proc' = [proc EXCEPT ![p].pc = "check", ![p].serving = TRUE]
        BY <2>13, <3>2 DEF Bind
      <4>2. QED
        BY <1>0, <4>1, FieldType, StepNames
    <3>3. QED
      BY <3>1, <3>2
  <2>14. CASE CheckTrusted(p)
    BY <1>0, <2>14, MoveType, StepNames DEF CheckTrusted
  <2>15. CASE SaveState(p)
    BY <1>0, <2>15, MoveType, StepNames DEF SaveState
  <2>16. CASE ReportReady(p)
    BY <1>0, <2>16, FieldType, StepNames DEF ReportReady
  <2>17. CASE SigWait(p)
    BY <1>0, <2>17, MoveType, StepNames DEF SigWait
  <2>18. CASE StopChild(p)
    BY <1>0, <2>18, FieldType, StepNames DEF StopChild
  <2>19. CASE EraseState(p)
    BY <1>0, <2>19, MoveType, StepNames DEF EraseState
  <2>20. CASE Launch(p)
    <3>1. New("app", "load", NoPid, Preferred) \in Process
      BY NewType, HandoffAssumption DEF Steps, AppSteps
    <3>2. QED
      BY <1>0, <2>20, <3>1, FieldType DEF Launch
  <2>21. CASE GoOffline(p)
    BY <1>0, <2>21, FieldType, StepNames DEF GoOffline
  <2>22. CASE Quit(p)
    BY <1>0, <2>22, MoveType, StepNames DEF Quit
  <2>23. CASE \E c \in Pids : Background(p, c)
    <3>1. PICK c \in Pids : Background(p, c)
      BY <2>23
    <3>2. New("child", "start", p, proc[p].port) \in Process
      BY <1>0, FieldType, ProcessFields, NewType, StepNames
    <3>3. QED
      BY <1>0, <3>1, <3>2, FieldType, StepNames DEF Background
  <2>24. CASE OtherStart(p)
    <3>1. New("other", "run", NoPid, Preferred) \in Process
      BY NewType, HandoffAssumption DEF Steps, AppSteps
    <3>2. QED
      BY <1>0, <2>24, <3>1, FieldType DEF OtherStart
  <2>25. CASE Killed(p)
    BY <1>0, <2>25, MoveType, StepNames DEF Killed
  <2>26. CASE Die(p)
    BY <1>0, <2>26, MoveType, StepNames DEF Die
  <2>27. QED
    BY <1>1, <2>1, <2>2, <2>3, <2>4, <2>5, <2>6, <2>7, <2>8, <2>9, <2>10, <2>11, <2>12, <2>13, <2>14, <2>15, <2>16, <2>17, <2>18, <2>19, <2>20, <2>21, <2>22, <2>23, <2>24, <2>25, <2>26 DEF App, Daemonized, User
<1>2. ASSUME NEW p \in Pids,
             App(p) \/ Daemonized(p) \/ User(p) \/ OtherStart(p) \/ Killed(p) \/ Die(p)
      PROVE  lost' \in BOOLEAN
  BY <1>0, <1>2 DEF App, Daemonized, User, LoadState, AwaitTerm, AwaitKill, ClearState, AwaitPort, Open, StopServer, SignalStart, AwaitReady, Reap, Restore, AwaitStart, Bind, CheckTrusted, SaveState, ReportReady, SigWait, StopChild, EraseState, Launch, GoOffline, Quit, Background, OtherStart, Killed, Die
<1>3. ASSUME NEW p \in Pids,
             App(p) \/ Daemonized(p) \/ User(p) \/ OtherStart(p) \/ Killed(p) \/ Die(p)
      PROVE  state' \in {NoState} \cup [pid: Pids, port: Ports]
  <2>1. proc[p].port \in Ports
    BY <1>0, FieldType, ProcessFields
  <2>2. state' \in {state, NoState, [pid |-> p, port |-> proc[p].port]}
    BY <1>3 DEF App, Daemonized, User, LoadState, AwaitTerm, AwaitKill, ClearState, AwaitPort, Open, StopServer, SignalStart, AwaitReady, Reap, Restore, AwaitStart, Bind, CheckTrusted, SaveState, ReportReady, SigWait, StopChild, EraseState, Launch, GoOffline, Quit, Background, OtherStart, Killed, Die
  <2>3. QED
    BY <1>0, <2>1, <2>2
<1>4. CASE SwitchOff
  <2>1. proc' \in Procs
    BY <1>4, FreeType DEF SwitchOff, Procs
  <2>2. QED
    BY <1>0, <1>4, <2>1 DEF SwitchOff
<1>5. CASE UNCHANGED vars
  BY <1>0, <1>5 DEF vars
<1>6. QED
  BY <1>1, <1>2, <1>3, <1>4, <1>5 DEF Next

\* Every reachable state is well typed: pids, ports, steps and signals of the
\* processes, and what daemon-state.json may hold (app.c, daemon.c).
THEOREM TypeCorrect == Spec => []TypeOK
<1>1. Init => TypeOK
  BY InitType
<1>2. TypeOK /\ [Next]_vars => TypeOK'
  BY NextType
<1>3. QED
  BY <1>1, <1>2, PTL DEF Spec

-----------------------------------------------------------------------------
(* One app, and the steps agree with what a process is *)

LEMMA InitHandoff == Init => HandoffInv
  BY DEF Init, Free, New, HandoffInv, OneApp, StepsAgree, InSight, IsApp, Begun

LEMMA NextSteps ==
    ASSUME TypeOK, OneApp, StepsAgree, NEW p \in Pids,
           App(p) \/ Daemonized(p) \/ User(p) \/ OtherStart(p) \/ Killed(p) \/ Die(p)
    PROVE  OneApp' /\ StepsAgree'
<1>0. proc \in [Pids -> Process]
  BY DEF TypeOK
<1> USE DEF OneApp, StepsAgree, IsApp, Process, AppSteps, ChildSteps, Free, New
<1>1. CASE LoadState(p)
  <2>1. CASE Step(p, "open")
    BY <1>0, <1>1, <2>1 DEF LoadState, Runs, Step
  <2>2. CASE proc' = [proc EXCEPT ![p].pc = "open", ![p].port = state.port]
    BY <1>0, <1>1, <2>2 DEF LoadState, Runs
  <2>3. CASE proc' = [proc EXCEPT ![p] = AfterTerm(p)]
    BY <1>0, <1>1, <2>3 DEF LoadState, Runs, AfterTerm
  <2>4. CASE /\ state.pid # p
             /\ proc' = [proc EXCEPT ![p].pc = "term", ![p].peer = state.pid,
                                     ![p].port = state.port, ![state.pid] = AfterTerm(state.pid)]
    <3>1. /\ proc'[p].kind = "app" /\ proc'[p].pc = "term" /\ proc'[p].peer # p
          /\ proc'[p].serving = proc[p].serving /\ proc'[p].sig = proc[p].sig
          /\ proc'[p].begin = proc[p].begin
      BY <1>0, <1>1, <2>4 DEF LoadState, Runs
    <3>2. ASSUME NEW q \in Pids, q # p
          PROVE  /\ proc'[q].kind = proc[q].kind /\ proc'[q].pc = proc[q].pc
                 /\ proc'[q].peer = proc[q].peer /\ proc'[q].serving = proc[q].serving
                 /\ proc'[q].begin = proc[q].begin /\ proc'[q].status = proc[q].status
      BY <1>0, <2>4, <3>2 DEF AfterTerm
    <3>3. \A q \in Pids : proc[q].kind = "app" => q = p
      BY <1>1 DEF LoadState, Runs
    <3>4. proc[p].pc = "load" /\ proc[p].sig = "none" /\ ~proc[p].begin /\ ~proc[p].serving
      BY <1>0, <1>1 DEF LoadState, Runs
    <3>5. QED
      BY <1>0, <3>1, <3>2, <3>3, <3>4
  <2>5. QED
    BY <1>1, <2>1, <2>2, <2>3, <2>4 DEF LoadState
<1>2. CASE AwaitTerm(p)
  BY <1>0, <1>2 DEF AwaitTerm, Runs, Step, Alive
<1>3. CASE AwaitKill(p)
  BY <1>0, <1>3 DEF AwaitKill, Runs, Step, Exit, Alive
<1>4. CASE ClearState(p)
  BY <1>0, <1>4 DEF ClearState, Runs, Step, Exit
<1>5. CASE AwaitPort(p)
  BY <1>0, <1>5 DEF AwaitPort, Runs, Step, Exit, PortFree
<1>6. CASE Open(p)
  <2>1. CASE Exit(p)
    BY <1>0, <1>6, <2>1 DEF Open, Runs, Exit
  <2>2. CASE ~Exit(p)
    <3>1. PICK port \in Ports :
            proc' = [proc EXCEPT ![p].pc = "serve", ![p].port = port, ![p].serving = TRUE]
      BY <1>6, <2>2 DEF Open
    <3>2. Runs(p, "app", "open") /\ UNCHANGED <<state, lost>>
      BY <1>6 DEF Open
    <3>3. QED
      BY <1>0, <3>1, <3>2 DEF Runs
  <2>3. QED
    BY <2>1, <2>2
<1>7. CASE StopServer(p)
  BY <1>0, <1>7 DEF StopServer, Runs
<1>8. CASE SignalStart(p)
  BY <1>0, <1>8 DEF SignalStart, Runs, Step, Child
<1>9. CASE AwaitReady(p)
  BY <1>0, <1>9 DEF AwaitReady, Runs, Step, Exit, Child
<1>10. CASE Reap(p)
  BY <1>0, <1>10 DEF Reap, Runs, Step, Child
<1>11. CASE Restore(p)
  BY <1>0, <1>11 DEF Restore, Runs, Exit, PortFree
<1>12. CASE AwaitStart(p)
  BY <1>0, <1>12 DEF AwaitStart, Runs, Step, Exit, Parent
<1>13. CASE Bind(p)
  BY <1>0, <1>13 DEF Bind, Runs, Fail, PortFree
<1>14. CASE CheckTrusted(p)
  BY <1>0, <1>14 DEF CheckTrusted, Runs, Step, Fail
<1>15. CASE SaveState(p)
  BY <1>0, <1>15 DEF SaveState, Runs, Step, Fail
<1>16. CASE ReportReady(p)
  BY <1>0, <1>16 DEF ReportReady, Runs
<1>17. CASE SigWait(p)
  BY <1>0, <1>17 DEF SigWait, Runs, Step
<1>18. CASE StopChild(p)
  BY <1>0, <1>18 DEF StopChild, Runs
<1>19. CASE EraseState(p)
  BY <1>0, <1>19 DEF EraseState, Runs, Exit
<1>20. CASE Launch(p)
  BY <1>0, <1>20 DEF Launch, New, Assignable
<1>21. CASE GoOffline(p)
  BY <1>0, <1>21 DEF GoOffline, Runs
<1>22. CASE Quit(p)
  BY <1>0, <1>22 DEF Quit, Exit
<1>23. CASE \E c \in Pids : Background(p, c)
  BY <1>0, <1>23 DEF Background, Runs, New, Assignable
<1>24. CASE OtherStart(p)
  BY <1>0, <1>24 DEF OtherStart, New, Assignable
<1>25. CASE Killed(p)
  BY <1>0, <1>25 DEF Killed, Exit
<1>26. CASE Die(p)
  BY <1>0, <1>26 DEF Die, Exit, Alive, Child, Parent, Unnamed
<1>27. QED
  BY <1>1, <1>2, <1>3, <1>4, <1>5, <1>6, <1>7, <1>8, <1>9, <1>10, <1>11, <1>12, <1>13, <1>14, <1>15, <1>16, <1>17, <1>18, <1>19, <1>20, <1>21, <1>22, <1>23, <1>24, <1>25, <1>26 DEF App, Daemonized, User

-----------------------------------------------------------------------------
(* A child that was told to begin stays in sight *)

LEMMA NextInSight ==
    ASSUME TypeOK, HandoffInv, NEW p \in Pids,
           App(p) \/ Daemonized(p) \/ User(p) \/ OtherStart(p) \/ Killed(p) \/ Die(p)
    PROVE  InSight'
<1>0. /\ proc \in [Pids -> Process]
      /\ NoPid \notin Pids /\ NoState = [pid |-> NoPid, port |-> NoPort]
      /\ state \in {NoState} \cup [pid: Pids, port: Ports]
      /\ lost \in BOOLEAN
  BY HandoffAssumption DEF TypeOK, NoState
<1> USE DEF HandoffInv, OneApp, StepsAgree, InSight, Seeks, Begun, IsApp, Parent, Child,
            Process, AppSteps, ChildSteps, Free, New
<1>1. CASE LoadState(p)
  BY <1>0, <1>1 DEF LoadState, Runs, Step, Alive, AfterTerm
<1>2. CASE AwaitTerm(p)
  <2>1. Runs(p, "app", "term") /\ UNCHANGED <<state, lost>>
    BY <1>2 DEF AwaitTerm
  <2>2. CASE ~Alive(proc[p].peer) /\ Step(p, "clear")
    BY <1>0, <2>1, <2>2 DEF Runs, Step, Alive
  <2>3. CASE proc' = [proc EXCEPT ![p].pc = "kill", ![proc[p].peer].sig = "kill"]
    BY <1>0, <2>1, <2>3 DEF Runs
  <2>4. QED
    BY <1>2, <2>2, <2>3 DEF AwaitTerm
<1>3. CASE AwaitKill(p)
  BY <1>0, <1>3 DEF AwaitKill, Runs, Step, Exit, Alive
<1>4. CASE ClearState(p)
  BY <1>0, <1>4 DEF ClearState, Runs, Step, Exit
<1>5. CASE AwaitPort(p)
  BY <1>0, <1>5 DEF AwaitPort, Runs, Step, Exit, PortFree
<1>6. CASE Open(p)
  <2>1. CASE Exit(p)
    BY <1>0, <1>6, <2>1 DEF Open, Runs, Exit
  <2>2. CASE ~Exit(p)
    <3>1. PICK port \in Ports :
            proc' = [proc EXCEPT ![p].pc = "serve", ![p].port = port, ![p].serving = TRUE]
      BY <1>6, <2>2 DEF Open
    <3>2. Runs(p, "app", "open") /\ UNCHANGED <<state, lost>>
      BY <1>6 DEF Open
    <3>3. QED
      BY <1>0, <3>1, <3>2 DEF Runs
  <2>3. QED
    BY <2>1, <2>2
<1>7. CASE StopServer(p)
  BY <1>0, <1>7 DEF StopServer, Runs
<1>8. CASE SignalStart(p)
  BY <1>0, <1>8 DEF SignalStart, Runs, Step
<1>9. CASE AwaitReady(p)
  BY <1>0, <1>9 DEF AwaitReady, Runs, Step, Exit
<1>10. CASE Reap(p)
  BY <1>0, <1>10 DEF Reap, Runs, Step
<1>11. CASE Restore(p)
  BY <1>0, <1>11 DEF Restore, Runs, Exit, PortFree
<1>12. CASE AwaitStart(p)
  BY <1>0, <1>12 DEF AwaitStart, Runs, Step, Exit
<1>13. CASE Bind(p)
  BY <1>0, <1>13 DEF Bind, Runs, Fail, PortFree
<1>14. CASE CheckTrusted(p)
  BY <1>0, <1>14 DEF CheckTrusted, Runs, Step, Fail
<1>15. CASE SaveState(p)
  BY <1>0, <1>15 DEF SaveState, Runs, Step, Fail
<1>16. CASE ReportReady(p)
  BY <1>0, <1>16 DEF ReportReady, Runs
<1>17. CASE SigWait(p)
  BY <1>0, <1>17 DEF SigWait, Runs, Step
<1>18. CASE StopChild(p)
  BY <1>0, <1>18 DEF StopChild, Runs
<1>19. CASE EraseState(p)
  BY <1>0, <1>19 DEF EraseState, Runs, Exit
<1>20. CASE Launch(p)
  BY <1>0, <1>20 DEF Launch, Assignable, Alive
<1>21. CASE GoOffline(p)
  BY <1>0, <1>21 DEF GoOffline, Runs
<1>22. CASE Quit(p)
  BY <1>0, <1>22 DEF Quit, Exit
<1>23. CASE \E c \in Pids : Background(p, c)
  BY <1>0, <1>23 DEF Background, Runs, Assignable, Alive
<1>24. CASE OtherStart(p)
  BY <1>0, <1>24 DEF OtherStart, Assignable, Alive
<1>25. CASE Killed(p)
  BY <1>0, <1>25 DEF Killed, Exit
<1>26. CASE Die(p)
  BY <1>0, <1>26 DEF Die, Exit, Alive, Unnamed
<1>27. QED
  BY <1>1, <1>2, <1>3, <1>4, <1>5, <1>6, <1>7, <1>8, <1>9, <1>10, <1>11, <1>12, <1>13, <1>14, <1>15, <1>16, <1>17, <1>18, <1>19, <1>20, <1>21, <1>22, <1>23, <1>24, <1>25, <1>26 DEF App, Daemonized, User

LEMMA NextHandoff == TypeOK /\ HandoffInv /\ [Next]_vars => HandoffInv'
<1> SUFFICES ASSUME TypeOK, HandoffInv, [Next]_vars PROVE HandoffInv'
  OBVIOUS
<1>1. ASSUME NEW p \in Pids,
             App(p) \/ Daemonized(p) \/ User(p) \/ OtherStart(p) \/ Killed(p) \/ Die(p)
      PROVE  HandoffInv'
  BY <1>1, NextSteps, NextInSight DEF HandoffInv
<1>2. CASE SwitchOff
  BY <1>2 DEF SwitchOff, HandoffInv, OneApp, StepsAgree, InSight, IsApp, Begun, Free, New
<1>3. CASE UNCHANGED vars
  BY <1>3 DEF vars, HandoffInv, OneApp, StepsAgree, InSight, IsApp, Begun, Seeks, Parent, Child
<1>4. QED
  BY <1>1, <1>2, <1>3 DEF Next

\* What HandoffInv says of two processes that serve.
LEMMA SeenIsSafe == HandoffInv => OneServer /\ ReadyIsNamed
<1> SUFFICES ASSUME HandoffInv PROVE OneServer /\ ReadyIsNamed
  OBVIOUS
<1> USE DEF HandoffInv, OneApp, StepsAgree, InSight, IsApp, Begun, Seeks
<1>1. ASSUME ~lost, NEW p \in Pids, NEW q \in Pids, proc[p].serving, proc[q].serving
      PROVE  p = q
  <2>1. CASE IsApp(p) /\ IsApp(q)
    BY <2>1
  <2>2. CASE proc[p].kind = "child" /\ proc[q].kind = "child"
    BY <1>1, <2>2
  <2>3. CASE IsApp(p) /\ proc[q].kind = "child"
    BY <1>1, <2>3
  <2>4. CASE proc[p].kind = "child" /\ IsApp(q)
    BY <1>1, <2>4
  <2>5. QED
    BY <1>1, <2>1, <2>2, <2>3, <2>4
<1>2. ASSUME ~lost, NEW c \in Pids, proc[c].kind = "child", proc[c].status = "ok",
             proc[c].pc = "sigwait"
      PROVE  proc[c].serving /\ state = [pid |-> c, port |-> proc[c].port]
  BY <1>2
<1>3. QED
  BY <1>1, <1>2 DEF OneServer, ReadyIsNamed

\* Whatever launches, handoffs, deaths, reused pids and power cuts do, one
\* process at a time has the server and with it the trust store, as long as no
\* background server was left that no file names (daemon.c, app.c).
THEOREM OneServerAlways == Spec => []OneServer
<1>1. Init => TypeOK /\ HandoffInv
  BY InitType, InitHandoff
<1>2. TypeOK /\ HandoffInv /\ [Next]_vars => TypeOK' /\ HandoffInv'
  BY NextType, NextHandoff
<1>3. HandoffInv => OneServer
  BY SeenIsSafe
<1>4. QED
  BY <1>1, <1>2, <1>3, PTL DEF Spec

\* A background server that has reported ready is up, and the state file that a
\* later launch reads names its process and its port.
THEOREM ReadyIsNamedAlways == Spec => []ReadyIsNamed
<1>1. Init => TypeOK /\ HandoffInv
  BY InitType, InitHandoff
<1>2. TypeOK /\ HandoffInv /\ [Next]_vars => TypeOK' /\ HandoffInv'
  BY NextType, NextHandoff
<1>3. HandoffInv => ReadyIsNamed
  BY SeenIsSafe
<1>4. QED
  BY <1>1, <1>2, <1>3, PTL DEF Spec

-----------------------------------------------------------------------------
(* That a launch and a handoff come to an end is left to TLC (WaitsEnd). It    *)
(* follows from two facts: the app goes through its steps in one direction,    *)
(* and the one step without a time limit waits for a process that was killed.  *)

\* The parent p is in waitpid for c, and c has not ended.
Reaps(p, c) ==
    /\ proc[p].kind = "app" /\ proc[p].pc = "reap" /\ proc[p].peer = c
    /\ proc[c].kind = "child" /\ proc[c].peer = p

\* waitpid without a timeout is only called for a child that has been killed.
ReapedIsKilled == \A p, c \in Pids : Reaps(p, c) => proc[c].sig = "kill"

LEMMA StepsReap ==
    ASSUME TypeOK, StepsAgree, ReapedIsKilled, NEW p \in Pids,
           App(p) \/ Daemonized(p) \/ User(p) \/ OtherStart(p) \/ Killed(p) \/ Die(p)
    PROVE  ReapedIsKilled'
<1>0. proc \in [Pids -> Process]
  BY DEF TypeOK
<1> SUFFICES ASSUME NEW a \in Pids, NEW c \in Pids, Reaps(a, c)' PROVE proc'[c].sig = "kill"
  BY DEF ReapedIsKilled
<1>w. /\ proc'[a].kind = "app" /\ proc'[a].pc = "reap" /\ proc'[a].peer = c
      /\ proc'[c].kind = "child" /\ proc'[c].peer = a /\ a # c
  BY DEF Reaps
<1>r. Reaps(a, c) => proc[c].sig = "kill"
  BY DEF ReapedIsKilled
<1> USE DEF Process, AppSteps, ChildSteps, Free, New, Reaps
<1>1. CASE LoadState(p)
  <2>1. \A q \in Pids : proc'[q].pc = "reap" \/ proc'[q].kind = "child" =>
           proc'[q].kind = proc[q].kind /\ proc'[q].peer = proc[q].peer
           /\ proc'[q].pc = proc[q].pc
           /\ (proc[q].sig = "kill" => proc'[q].sig = "kill")
    BY <1>0, <1>1 DEF LoadState, Runs, Step, AfterTerm
  <2>2. QED
    BY <1>w, <1>r, <2>1
<1>2. CASE AwaitTerm(p) \/ AwaitKill(p) \/ ClearState(p) \/ AwaitPort(p) \/ StopServer(p)
           \/ SignalStart(p) \/ Reap(p) \/ Restore(p) \/ GoOffline(p) \/ Quit(p)
  BY <1>0, <1>2, <1>w, <1>r
  DEF AwaitTerm, AwaitKill, ClearState, AwaitPort, StopServer, SignalStart, Reap, Restore,
      GoOffline, Quit, Runs, Step, Exit, Alive, Child
<1>3. CASE AwaitReady(p)
  BY <1>0, <1>3, <1>w, <1>r DEF AwaitReady, Runs, Step, Exit, Child
<1>4. CASE Open(p)
  <2>1. proc[p].kind = "app" /\ proc'[p].kind # "child" /\ proc'[p].pc # "reap"
    <3>1. CASE Exit(p)
      BY <1>0, <1>4, <3>1 DEF Open, Runs, Exit
    <3>2. CASE ~Exit(p)
      <4>1. PICK port \in Ports :
              proc' = [proc EXCEPT ![p].pc = "serve", ![p].port = port, ![p].serving = TRUE]
        BY <1>4, <3>2 DEF Open
      <4>2. proc[p].kind = "app"
        BY <1>4 DEF Open, Runs
      <4>3. proc'[p].kind = proc[p].kind /\ proc'[p].pc = "serve"
        BY <1>0, <4>1
      <4>4. QED
        BY <4>2, <4>3
    <3>3. QED
      BY <3>1, <3>2
  <2>2. \A q \in Pids : q # p => proc'[q] = proc[q]
    BY <1>0, <1>4 DEF Open, Exit
  <2>3. QED
    BY <1>w, <1>r, <2>1, <2>2
<1>5. CASE Daemonized(p)
  BY <1>0, <1>5, <1>w, <1>r
  DEF Daemonized, AwaitStart, Bind, CheckTrusted, SaveState, ReportReady, SigWait, StopChild,
      EraseState, Runs, Step, Exit, Fail
<1>6. CASE Launch(p) \/ OtherStart(p) \/ Killed(p) \/ Die(p)
  BY <1>0, <1>6, <1>w, <1>r DEF Launch, OtherStart, Killed, Die, Exit
<1>7. ASSUME NEW d \in Pids, Background(p, d) PROVE proc'[c].sig = "kill"
  BY <1>0, <1>7, <1>w, <1>r DEF Background, Runs, Assignable, Alive
<1>8. QED
  BY <1>1, <1>2, <1>3, <1>4, <1>5, <1>6, <1>7 DEF App, User

\* A failed handoff does not hang: the app that takes the server back waits for
\* no background process that could still refuse to end
\* (cs_app_start_background_server).
THEOREM ReapedIsKilledAlways == Spec => []ReapedIsKilled
<1>1. Init => TypeOK /\ HandoffInv /\ ReapedIsKilled
  BY InitType, InitHandoff DEF Init, Free, New, ReapedIsKilled, Reaps
<1>2. TypeOK /\ HandoffInv /\ ReapedIsKilled /\ [Next]_vars => ReapedIsKilled'
  <2> SUFFICES ASSUME TypeOK, HandoffInv, ReapedIsKilled, [Next]_vars PROVE ReapedIsKilled'
    OBVIOUS
  <2>1. CASE UNCHANGED vars
    BY <2>1 DEF vars, ReapedIsKilled, Reaps
  <2>2. CASE SwitchOff
    BY <2>2 DEF SwitchOff, Free, New, ReapedIsKilled, Reaps
  <2>3. QED
    BY <2>1, <2>2, StepsReap DEF Next, HandoffInv
<1>3. TypeOK /\ HandoffInv /\ [Next]_vars => TypeOK' /\ HandoffInv'
  BY NextType, NextHandoff
<1>4. QED
  BY <1>1, <1>2, <1>3, PTL DEF Spec

\* The steps that an app is away from serving, at most.
StepsLeft(pc) ==
    CASE pc = "serve" -> 0
      [] pc \in {"open", "restore"} -> 1
      [] pc \in {"port", "reap"} -> 2
      [] pc \in {"clear", "wait"} -> 3
      [] pc \in {"kill", "signal"} -> 4
      [] pc \in {"term", "handoff"} -> 5
      [] OTHER -> 6

\* It has ended, or has been told to in a way it cannot refuse.
Over(p) == proc[p].kind # "app" \/ proc[p].sig = "kill"

\* A step of the app brings it nearer to where it serves or ends; nobody else's
\* takes it back.
WaitsRunOut ==
    [][\A p \in Pids :
          /\ App(p) => Over(p)' \/ StepsLeft(proc'[p].pc) < StepsLeft(proc[p].pc)
          /\ ~App(p) /\ ~Over(p) /\ proc[p].pc # "serve" =>
                Over(p)' \/ proc'[p].pc = proc[p].pc]_vars

LEMMA AppIsNearer ==
    ASSUME TypeOK, StepsAgree, NEW p \in Pids, App(p)
    PROVE  Over(p)' \/ StepsLeft(proc'[p].pc) < StepsLeft(proc[p].pc)
<1>0. proc \in [Pids -> Process]
  BY DEF TypeOK
<1> USE DEF Process, StepsLeft, Over, Runs, Step
<1>1. CASE LoadState(p)
  BY <1>0, <1>1 DEF LoadState, AfterTerm
<1>2. CASE AwaitTerm(p)
  BY <1>0, <1>2 DEF AwaitTerm, StepsAgree, IsApp, Alive
<1>3. CASE AwaitKill(p) \/ ClearState(p) \/ AwaitPort(p)
  BY <1>0, <1>3 DEF AwaitKill, ClearState, AwaitPort, Exit, Free, New
<1>4. CASE Open(p)
  <2>1. CASE Exit(p)
    BY <1>0, <2>1 DEF Exit, Free, New
  <2>2. CASE ~Exit(p)
    <3>1. PICK port \in Ports :
            proc' = [proc EXCEPT ![p].pc = "serve", ![p].port = port, ![p].serving = TRUE]
      BY <1>4, <2>2 DEF Open
    <3>2. proc[p].pc = "open" /\ proc'[p].pc = "serve"
      BY <1>0, <1>4, <3>1 DEF Open
    <3>3. QED
      BY <3>2
  <2>3. QED
    BY <2>1, <2>2
<1>5. CASE StopServer(p)
  BY <1>0, <1>5 DEF StopServer
<1>6. CASE SignalStart(p)
  BY <1>0, <1>6 DEF SignalStart, Child
<1>7. CASE AwaitReady(p)
  BY <1>0, <1>7 DEF AwaitReady, Child, Exit, Free, New
<1>8. CASE Reap(p) \/ Restore(p)
  BY <1>0, <1>8 DEF Reap, Restore, Exit, Free, New
<1>9. QED
  BY <1>1, <1>2, <1>3, <1>4, <1>5, <1>6, <1>7, <1>8 DEF App

\* The steps of others leave an app where it is.
LEMMA OthersLeaveApp ==
    ASSUME TypeOK, StepsAgree, NEW p \in Pids, NEW q \in Pids, q # p, ~Over(p),
           App(q) \/ Daemonized(q) \/ User(q) \/ OtherStart(q) \/ Killed(q) \/ Die(q)
    PROVE  Over(p)' \/ proc'[p].pc = proc[p].pc
<1>0. proc \in [Pids -> Process]
  BY DEF TypeOK
<1> USE DEF Process, Over, Runs, Step, Exit, Alive
<1>1. CASE LoadState(q)
  BY <1>0, <1>1 DEF LoadState, AfterTerm
<1>2. CASE Open(q)
  BY <1>0, <1>2 DEF Open
<1>3. CASE AwaitTerm(q) \/ AwaitKill(q) \/ ClearState(q) \/ AwaitPort(q) \/ StopServer(q)
           \/ SignalStart(q) \/ AwaitReady(q) \/ Reap(q) \/ Restore(q) \/ GoOffline(q) \/ Quit(q)
  BY <1>0, <1>3
  DEF AwaitTerm, AwaitKill, ClearState, AwaitPort, StopServer, SignalStart, AwaitReady, Reap,
      Restore, GoOffline, Quit
<1>4. CASE Daemonized(q)
  BY <1>0, <1>4
  DEF Daemonized, AwaitStart, Bind, CheckTrusted, SaveState, ReportReady, SigWait, StopChild,
      EraseState, Fail
<1>5. CASE Launch(q) \/ OtherStart(q) \/ Killed(q) \/ Die(q)
  BY <1>0, <1>5 DEF Launch, OtherStart, Killed, Die
<1>6. ASSUME NEW c \in Pids, Background(q, c) PROVE Over(p)' \/ proc'[p].pc = proc[p].pc
  BY <1>0, <1>6 DEF Background, Assignable
<1>7. QED
  BY <1>1, <1>2, <1>3, <1>4, <1>5, <1>6 DEF App, User

LEMMA AppStays ==
    ASSUME TypeOK, HandoffInv, Next, NEW p \in Pids, ~App(p), ~Over(p), proc[p].pc # "serve"
    PROVE  Over(p)' \/ proc'[p].pc = proc[p].pc
<1>0. proc \in [Pids -> Process] /\ StepsAgree /\ IsApp(p)
  BY DEF TypeOK, HandoffInv, Over, IsApp
<1>1. CASE SwitchOff
  BY <1>1 DEF SwitchOff, Over, Free, New
<1>2. ASSUME NEW q \in Pids, q # p,
             App(q) \/ Daemonized(q) \/ User(q) \/ OtherStart(q) \/ Killed(q) \/ Die(q)
      PROVE  Over(p)' \/ proc'[p].pc = proc[p].pc
  BY <1>0, <1>2, OthersLeaveApp
<1>3. CASE Daemonized(p)
  BY <1>0, <1>3
  DEF IsApp, Daemonized, AwaitStart, Bind, CheckTrusted, SaveState, ReportReady, SigWait, StopChild,
      EraseState, Runs
<1>4. CASE User(p) \/ OtherStart(p)
  BY <1>0, <1>4
  DEF IsApp, User, Launch, GoOffline, Quit, Background, OtherStart, Assignable, Alive, Runs, Exit,
      Free, New, Over
<1>5. CASE Killed(p) \/ Die(p)
  BY <1>0, <1>5 DEF Killed, Die, Exit, Free, New, Over
<1>6. QED
  BY <1>1, <1>2, <1>3, <1>4, <1>5 DEF Next

\* From a launch the app serves or has ended after six steps of its own at most,
\* and from a handoff after five, whatever the processes around it do
\* (cs_daemon_prepare_foreground_start, cs_app_start_background_server).
THEOREM WaitsRunOutAlways == Spec => WaitsRunOut
<1> DEFINE Nearer(p) ==
       /\ App(p) => Over(p)' \/ StepsLeft(proc'[p].pc) < StepsLeft(proc[p].pc)
       /\ ~App(p) /\ ~Over(p) /\ proc[p].pc # "serve" => Over(p)' \/ proc'[p].pc = proc[p].pc
<1>1. TypeOK /\ HandoffInv /\ [Next]_vars => [\A p \in Pids : Nearer(p)]_vars
  BY AppIsNearer, AppStays DEF HandoffInv
<1>2. Init => TypeOK /\ HandoffInv
  BY InitType, InitHandoff
<1>3. TypeOK /\ HandoffInv /\ [Next]_vars => TypeOK' /\ HandoffInv'
  BY NextType, NextHandoff
<1>4. Spec => [][\A p \in Pids : Nearer(p)]_vars
  <2> HIDE DEF Nearer
  <2> QED BY <1>1, <1>2, <1>3, PTL DEF Spec
<1>5. QED
  BY <1>4 DEF WaitsRunOut

-----------------------------------------------------------------------------
(* Between two servers *)

\* No step hands the server from one process to another: the one that had it
\* stops first, and there is a moment in which nobody serves.
ServesAlone ==
    [][~lost /\ ~lost' => \A p, q \in Pids : proc[p].serving /\ proc'[q].serving => p = q]_vars

LEMMA OneBegins ==
    ASSUME TypeOK, Next, NEW p \in Pids, NEW q \in Pids, p # q, proc'[q].serving,
           ~proc[q].serving, proc[p].serving
    PROVE  proc'[p].serving
<1>0. proc \in [Pids -> Process]
  BY DEF TypeOK
<1> USE DEF Process, Runs, Step, Exit, Free, New
<1>1. ~SwitchOff
  BY DEF SwitchOff
<1>2. PICK r \in Pids :
         App(r) \/ Daemonized(r) \/ User(r) \/ OtherStart(r) \/ Killed(r) \/ Die(r)
  BY <1>1 DEF Next
<1>3. CASE LoadState(r)
  BY <1>0, <1>3 DEF LoadState, AfterTerm
<1>4. CASE Open(r)
  BY <1>0, <1>4 DEF Open
<1>5. CASE AwaitTerm(r) \/ AwaitKill(r) \/ ClearState(r) \/ AwaitPort(r) \/ StopServer(r)
           \/ SignalStart(r) \/ AwaitReady(r) \/ Reap(r) \/ Restore(r) \/ GoOffline(r) \/ Quit(r)
  BY <1>0, <1>5
  DEF AwaitTerm, AwaitKill, ClearState, AwaitPort, StopServer, SignalStart, AwaitReady, Reap,
      Restore, GoOffline, Quit
<1>6. CASE Daemonized(r)
  BY <1>0, <1>6
  DEF Daemonized, AwaitStart, Bind, CheckTrusted, SaveState, ReportReady, SigWait, StopChild,
      EraseState, Fail
<1>7. CASE Launch(r) \/ OtherStart(r) \/ Killed(r) \/ Die(r)
  BY <1>0, <1>7 DEF Launch, OtherStart, Killed, Die
<1>8. ASSUME NEW c \in Pids, Background(r, c) PROVE proc'[p].serving
  BY <1>0, <1>8 DEF Background
<1>9. QED
  BY <1>2, <1>3, <1>4, <1>5, <1>6, <1>7, <1>8 DEF App, User

\* The process that takes over the server loads the trust store only after the
\* one before it has stopped answering requests, and saving, in both directions
\* of a handoff and over any launch, unless a background server was lost sight
\* of (cs_app_start_background_server, cs_daemon_prepare_foreground_start).
THEOREM ServesAloneAlways == Spec => ServesAlone
<1> DEFINE Alone == ~lost /\ ~lost' => \A p, q \in Pids : proc[p].serving /\ proc'[q].serving => p = q
<1>1. ASSUME TypeOK, OneServer, OneServer', Next PROVE Alone
  <2> SUFFICES ASSUME ~lost, ~lost', NEW p \in Pids, NEW q \in Pids, proc[p].serving,
                      proc'[q].serving, p # q
               PROVE  FALSE
    OBVIOUS
  <2>1. ~proc[q].serving
    BY <1>1 DEF OneServer
  <2>2. proc'[p].serving
    BY <1>1, <2>1, OneBegins
  <2>3. QED
    BY <1>1, <2>2 DEF OneServer
<1>2. TypeOK /\ OneServer /\ OneServer' /\ [Next]_vars => [Alone]_vars
  BY <1>1
<1>3. Spec => [][Alone]_vars
  <2> HIDE DEF Alone
  <2> QED BY <1>2, TypeCorrect, OneServerAlways, PTL DEF Spec
<1>4. QED
  BY <1>3 DEF ServesAlone

=============================================================================
