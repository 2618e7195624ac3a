------------------------------- MODULE Rescan --------------------------------
(* POST /api/library/rescan (routes_jawaka.c, jawaka_ipc.c): the server asks   *)
(* the Leaf daemon for a scan over its socket, and polls until it is done.     *)
(* The daemon is not in this repository: it is modelled by what its answers    *)
(* mean to jawaka_ipc.c. It serves other clients too, and may be restarted.    *)
EXTENDS Integers

CONSTANTS Askers,       \* requests that are served at a time
          MaxAttempts,  \* CS_JAWAKA_SCAN_POLL_ATTEMPTS, 600
          MaxFailures   \* CS_JAWAKA_SCAN_POLL_MAX_FAILURES, 5

ASSUME RescanAssumption ==
    /\ MaxAttempts \in Nat \ {0}
    /\ MaxFailures \in Nat \ {0}

VARIABLES
    daemon,  \* jawakad
    wire,    \* the socket of each asker: a request, or its answer
    ask,     \* where each asker is
    scanned  \* history: what became of the scan each asker asked for

rescanVars == <<daemon, wire, ask, scanned>>

Closed == [type |-> "closed"]
ScanRequest == [type |-> "scan-library"]
Status == [type |-> "library-status"]
StatusIs(busy, waits, bad) ==
    [type |-> "status", scan_running |-> busy, pending_rescan |-> waits, scan_error |-> bad]
Answers == [type : {"closed", "error", "ok", "counts"}]
           \cup [type : {"status"}, scan_running : BOOLEAN, pending_rescan : BOOLEAN,
                 scan_error : BOOLEAN]

NotAsked == [pc |-> "idle", attempt |-> 0, failures |-> 0]
Calm == [up |-> TRUE, legacy |-> FALSE, running |-> FALSE, pending |-> FALSE, error |-> FALSE]

RescanInit ==
    /\ \E up, old \in BOOLEAN : daemon = [Calm EXCEPT !.up = up, !.legacy = old]
    /\ wire = [a \in Askers |-> Closed]
    /\ ask = [a \in Askers |-> NotAsked]
    /\ scanned = [a \in Askers |-> "no"]

----------------------------------------------------------------------------
(* The daemon *)

Began == [a \in Askers |-> IF scanned[a] = "asked" THEN "began" ELSE scanned[a]]

Ended(bad) ==
    [a \in Askers |-> IF scanned[a] \in {"began", "failed"} THEN IF bad THEN "failed" ELSE "done"
                      ELSE scanned[a]]

\* A scan is started, or made to follow the one that runs; a daemon from before
\* that scans at once and answers with its counts.
TakeScan(a) ==
    /\ daemon.up /\ wire[a] = ScanRequest
    /\ \/ /\ wire' = [wire EXCEPT ![a] = [type |-> "error"]]
          /\ UNCHANGED <<daemon, scanned>>
       \/ /\ daemon.legacy
          /\ wire' = [wire EXCEPT ![a] = [type |-> "counts"]]
          /\ scanned' = [scanned EXCEPT ![a] = "done"]
          /\ UNCHANGED daemon
       \/ /\ ~daemon.legacy
          /\ wire' = [wire EXCEPT ![a] = [type |-> "ok"]]
          /\ IF daemon.running
             THEN /\ daemon' = [daemon EXCEPT !.pending = TRUE]
                  /\ scanned' = [scanned EXCEPT ![a] = "asked"]
             ELSE /\ daemon' = [daemon EXCEPT !.running = TRUE, !.pending = FALSE]
                  /\ scanned' = [Began EXCEPT ![a] = "began"]
    /\ UNCHANGED ask

TakeStatus(a) ==
    /\ daemon.up /\ wire[a] = Status
    /\ wire' \in {[wire EXCEPT ![a] = StatusIs(daemon.running, daemon.pending, daemon.error)],
                  [wire EXCEPT ![a] = [type |-> "error"]]}
    /\ UNCHANGED <<daemon, ask, scanned>>

\* A scan the daemon begins: the one that waits, or one for another client.
BeginScan ==
    /\ daemon.up /\ ~daemon.legacy /\ ~daemon.running
    /\ daemon' = [daemon EXCEPT !.running = TRUE, !.pending = FALSE]
    /\ scanned' = Began
    /\ UNCHANGED <<wire, ask>>

\* Another client asks while a scan runs.
ScanAgain ==
    /\ daemon.up /\ daemon.running
    /\ daemon' = [daemon EXCEPT !.pending = TRUE]
    /\ UNCHANGED <<wire, ask, scanned>>

EndScan ==
    /\ daemon.running
    /\ \E bad \in BOOLEAN :
          /\ daemon' = [daemon EXCEPT !.running = FALSE, !.error = bad]
          /\ scanned' = Ended(bad)
    /\ UNCHANGED <<wire, ask>>

\* The daemon dies, or comes back as another release: sockets close, and what
\* was asked of it and is not done is forgotten.
RestartDaemon ==
    /\ \E up, old \in BOOLEAN : daemon' = [Calm EXCEPT !.up = up, !.legacy = old]
    /\ wire' = [a \in Askers |-> Closed]
    /\ scanned' = [a \in Askers |-> IF scanned[a] \in {"no", "done"} THEN scanned[a] ELSE "lost"]
    /\ UNCHANGED ask

----------------------------------------------------------------------------
(* The worker that serves the request *)

AskGoes(a, pc) == ask' = [ask EXCEPT ![a].pc = pc]

\* cs_ipc_request, its first half: connect and write. There is no time limit.
SendRequest(a, message) ==
    wire' = [wire EXCEPT ![a] = IF daemon.up THEN message ELSE Closed]

RequestScan(a) ==
    /\ ask[a].pc = "idle"
    /\ SendRequest(a, ScanRequest)
    /\ AskGoes(a, "asked")
    /\ UNCHANGED <<daemon, scanned>>

\* Its second half: the answer is read, and the socket closed.
Received(a) == wire[a] \in Answers /\ wire' = [wire EXCEPT ![a] = Closed]

\* The answer to the request: counts are a scan that is over, 503 if refused.
ReadAnswer(a) ==
    /\ ask[a].pc = "asked" /\ Received(a)
    /\ AskGoes(a, CASE wire[a].type = "counts" -> "ok"
                    [] wire[a].type = "ok" -> "poll"
                    [] OTHER -> "failed")
    /\ UNCHANGED <<daemon, scanned>>

Poll(a) ==
    /\ ask[a].pc = "poll"
    /\ SendRequest(a, Status)
    /\ AskGoes(a, "wait")
    /\ UNCHANGED <<daemon, scanned>>

\* Mutant: one attempt too many.
Again_OneMore(a, failures) ==
    ask' = [ask EXCEPT ![a] =
        IF ask[a].attempt < MaxAttempts
        THEN [pc |-> "poll", attempt |-> ask[a].attempt + 1, failures |-> failures]
        ELSE [NotAsked EXCEPT !.pc = "failed"]]

\* The loop of cs_jawaka_wait_for_library_rescan goes round, or is over.
Again(a, failures) ==
    ask' = [ask EXCEPT ![a] =
        IF ask[a].attempt + 1 < MaxAttempts
        THEN [pc |-> "poll", attempt |-> ask[a].attempt + 1, failures |-> failures]
        ELSE [NotAsked EXCEPT !.pc = "failed"]]

\* Mutant: only attempts that fail are counted.
ReadStatus_NoLimit(a) ==
    LET s == wire[a]
        failures == ask[a].failures + 1 IN
    /\ ask[a].pc = "wait" /\ Received(a)
    /\ IF s.type # "status"
       THEN IF failures >= MaxFailures THEN ask' = [ask EXCEPT ![a] = [NotAsked EXCEPT !.pc = "failed"]]
            ELSE Again(a, failures)
       ELSE IF s.scan_running \/ s.pending_rescan THEN AskGoes(a, "poll")
       ELSE ask' = [ask EXCEPT ![a] = [NotAsked EXCEPT !.pc = IF s.scan_error THEN "failed" ELSE "ok"]]
    /\ UNCHANGED <<daemon, scanned>>

\* Mutant: a scan that is to follow is not waited for.
ReadStatus_NotPending(a) ==
    LET s == wire[a]
        failures == ask[a].failures + 1 IN
    /\ ask[a].pc = "wait" /\ Received(a)
    /\ IF s.type # "status"
       THEN IF failures >= MaxFailures THEN ask' = [ask EXCEPT ![a] = [NotAsked EXCEPT !.pc = "failed"]]
            ELSE Again(a, failures)
       ELSE IF s.scan_running THEN Again(a, 0)
       ELSE ask' = [ask EXCEPT ![a] = [NotAsked EXCEPT !.pc = IF s.scan_error THEN "failed" ELSE "ok"]]
    /\ UNCHANGED <<daemon, scanned>>

\* Failures in a row end the loop; a status starts their count again.
ReadStatus(a) ==
    LET s == wire[a]
        failures == ask[a].failures + 1 IN
    /\ ask[a].pc = "wait" /\ Received(a)
    /\ IF s.type # "status"
       THEN IF failures >= MaxFailures THEN ask' = [ask EXCEPT ![a] = [NotAsked EXCEPT !.pc = "failed"]]
            ELSE Again(a, failures)
       ELSE IF s.scan_running \/ s.pending_rescan THEN Again(a, 0)
       ELSE ask' = [ask EXCEPT ![a] = [NotAsked EXCEPT !.pc = IF s.scan_error THEN "failed" ELSE "ok"]]
    /\ UNCHANGED <<daemon, scanned>>

\* 200, or 503 rescan_failed.
AnswerRescan(a) ==
    /\ ask[a].pc \in {"ok", "failed"}
    /\ ask' = [ask EXCEPT ![a] = NotAsked]
    /\ scanned' = [scanned EXCEPT ![a] = "no"]
    /\ UNCHANGED <<daemon, wire>>

----------------------------------------------------------------------------
(* Specification *)

AskStep(a) == ReadAnswer(a) \/ Poll(a) \/ ReadStatus(a) \/ AnswerRescan(a)

RescanNext ==
    \/ BeginScan \/ ScanAgain \/ EndScan \/ RestartDaemon
    \/ \E a \in Askers : TakeScan(a) \/ TakeStatus(a) \/ RequestScan(a) \/ AskStep(a)

\* The worker goes on, and a daemon that took a request answers it or dies:
\* nothing in cs_ipc_request would end the wait for an answer that never comes.
\* Nothing is assumed of the scan.
RescanFairness ==
    \A a \in Askers : WF_rescanVars(AskStep(a)) /\ WF_rescanVars(TakeScan(a) \/ TakeStatus(a))

RescanSpec == RescanInit /\ [][RescanNext]_rescanVars

----------------------------------------------------------------------------
(* Properties *)

\* Types of the loop of jawaka_ipc.c and of what goes over its socket.
RescanTypeOK ==
    /\ daemon \in [up : BOOLEAN, legacy : BOOLEAN, running : BOOLEAN, pending : BOOLEAN,
                   error : BOOLEAN]
    /\ wire \in [Askers -> Answers \cup {ScanRequest, Status}]
    /\ ask \in [Askers -> [pc : {"idle", "asked", "poll", "wait", "ok", "failed"},
                           attempt : 0 .. MaxAttempts - 1, failures : 0 .. MaxFailures - 1]]
    /\ scanned \in [Askers -> {"no", "asked", "began", "failed", "done", "lost"}]

\* 200 means that a scan which began after the daemon took the request has
\* ended well, also when one was running then, and others were asked for and
\* ended in between; only a daemon that was restarted is taken at its word.
OkMeansScanned == \A a \in Askers : ask[a].pc = "ok" => scanned[a] \in {"done", "lost"}

\* The request is answered in the end, although its scan may never end and the
\* daemon may go away and come back.
RescanAnswers == \A a \in Askers : ask[a].pc # "idle" ~> ask[a].pc = "idle"
=============================================================================
