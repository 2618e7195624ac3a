--------------------------- MODULE ServicesProofs ---------------------------
(***************************************************************************)
(* Proofs about the rescan (Rescan) and the tail of a log (LogTail), for   *)
(* any number of requests and connections, any bounds, and any log: their  *)
(* types, that 200 means a scan that was asked for is over, and that a     *)
(* browser is sent a log once and in order.                                *)
(***************************************************************************)
EXTENDS MCServices, FiniteSetTheorems, SequenceTheorems, TLAPS

-----------------------------------------------------------------------------
(* The rescan: what is on the socket, and what it means *)

Messages == Answers \cup {ScanRequest, Status}
Daemons == [up : BOOLEAN, legacy : BOOLEAN, running : BOOLEAN, pending : BOOLEAN,
            error : BOOLEAN]
Stages == {"idle", "asked", "poll", "wait", "ok", "failed"}
Waits == [pc : Stages, attempt : 0 .. MaxAttempts - 1, failures : 0 .. MaxFailures - 1]
Fates == {"no", "asked", "began", "failed", "done", "lost"}

\* A status that ends the loop with 200.
Finished(m) == m.type = "status" /\ ~m.scan_running /\ ~m.pending_rescan /\ ~m.scan_error

\* What the daemon knows of the scan that was asked for.
Kept(fate, d) ==
    /\ fate = "asked" => d.pending
    /\ fate = "began" => d.running
    /\ fate = "failed" => d.error

\* Where an asker is, what is on its socket and what became of its scan.
AskerOK(pc, m, fate) ==
    /\ pc \in {"idle", "poll", "ok", "failed"} => m.type = "closed"
    /\ pc = "asked" => m.type \in {"closed", "scan-library", "error", "ok", "counts"}
    /\ pc = "wait" => m.type \in {"closed", "library-status", "error", "status"}
    /\ pc = "idle" \/ m.type = "scan-library" => fate = "no"
    /\ pc \in {"poll", "wait"} \/ m.type = "ok" => fate # "no"
    /\ pc = "ok" \/ m.type = "counts" \/ Finished(m) => fate \in {"done", "lost"}

RescanInv ==
    /\ daemon \in Daemons
    /\ wire \in [Askers -> Messages]
    /\ ask \in [Askers -> Waits]
    /\ scanned \in [Askers -> Fates]
    /\ \A a \in Askers : Kept(scanned[a], daemon) /\ AskerOK(ask[a].pc, wire[a], scanned[a])

LEMMA MessageFacts ==
    /\ Closed \in Messages /\ Closed.type = "closed"
    /\ ScanRequest \in Messages /\ ScanRequest.type = "scan-library"
    /\ Status \in Messages /\ Status.type = "library-status"
    /\ [type |-> "error"] \in Messages /\ [type |-> "ok"] \in Messages
    /\ [type |-> "counts"] \in Messages
BY DEF Messages, Answers, Closed, ScanRequest, Status

LEMMA StatusFacts ==
    ASSUME NEW busy \in BOOLEAN, NEW waits \in BOOLEAN, NEW bad \in BOOLEAN
    PROVE  /\ StatusIs(busy, waits, bad) \in Messages
           /\ StatusIs(busy, waits, bad).type = "status"
           /\ Finished(StatusIs(busy, waits, bad)) <=> ~busy /\ ~waits /\ ~bad
BY DEF Messages, Answers, StatusIs, Finished

LEMMA BoundFacts ==
    MaxAttempts \in Nat /\ MaxAttempts >= 1 /\ MaxFailures \in Nat /\ MaxFailures >= 1
BY RescanAssumption

\* What is read from a socket.
LEMMA ReadFacts ==
    ASSUME RescanInv, NEW a \in Askers, Received(a)
    PROVE  /\ wire' \in [Askers -> Messages] /\ wire'[a] = Closed
           /\ \A b \in Askers \ {a} : wire'[b] = wire[b]
           /\ wire[a].type \in {"closed", "error", "ok", "counts", "status"}
           /\ wire[a].type = "status" => /\ wire[a].scan_running \in BOOLEAN
                                         /\ wire[a].pending_rescan \in BOOLEAN
                                         /\ wire[a].scan_error \in BOOLEAN
<1>1. wire[a] \in Answers /\ wire' = [wire EXCEPT ![a] = Closed]
  BY DEF Received
<1>2. /\ wire' \in [Askers -> Messages] /\ wire'[a] = Closed
      /\ \A b \in Askers \ {a} : wire'[b] = wire[b]
  BY <1>1, MessageFacts DEF RescanInv
<1>3. /\ wire[a].type \in {"closed", "error", "ok", "counts", "status"}
      /\ wire[a].type = "status" => /\ wire[a].scan_running \in BOOLEAN
                                    /\ wire[a].pending_rescan \in BOOLEAN
                                    /\ wire[a].scan_error \in BOOLEAN
  BY <1>1 DEF Answers
<1>4. QED
  BY <1>2, <1>3

\* A step of one asker's worker: the daemon and the other askers stay.
LEMMA WorkerKeeps ==
    ASSUME RescanInv, NEW a \in Askers, UNCHANGED daemon,
           wire' \in [Askers -> Messages], ask' \in [Askers -> Waits],
           scanned' \in [Askers -> Fates],
           \A b \in Askers \ {a} : wire'[b] = wire[b] /\ ask'[b] = ask[b] /\ scanned'[b] = scanned[b],
           Kept(scanned'[a], daemon), AskerOK(ask'[a].pc, wire'[a], scanned'[a])
    PROVE  RescanInv'
<1>1. \A b \in Askers : Kept(scanned'[b], daemon') /\ AskerOK(ask'[b].pc, wire'[b], scanned'[b])
  <2> SUFFICES ASSUME NEW b \in Askers
               PROVE  Kept(scanned'[b], daemon') /\ AskerOK(ask'[b].pc, wire'[b], scanned'[b])
    OBVIOUS
  <2>1. CASE b = a
    BY <2>1
  <2>2. CASE b # a
    BY <2>2 DEF RescanInv
  <2>3. QED
    BY <2>1, <2>2
<1>2. QED
  BY <1>1 DEF RescanInv

\* The request goes to another stage, and keeps its counts.
LEMMA AskGoesTo ==
    ASSUME ask \in [Askers -> Waits], NEW a \in Askers, NEW pc \in Stages, AskGoes(a, pc)
    PROVE  /\ ask' \in [Askers -> Waits] /\ ask'[a].pc = pc
           /\ \A b \in Askers \ {a} : ask'[b] = ask[b]
<1> DEFINE w == [ask[a] EXCEPT !.pc = pc]
<1>1. ask' = [ask EXCEPT ![a] = w]
  BY DEF AskGoes
<1>2. w \in Waits /\ w.pc = pc
  BY DEF Waits
<1> HIDE DEF w
<1>3. QED
  BY <1>1, <1>2

LEMMA SendKeeps ==
    ASSUME RescanInv, NEW a \in Askers, RequestScan(a) \/ Poll(a)
    PROVE  RescanInv'
<1>1. /\ wire \in [Askers -> Messages] /\ ask \in [Askers -> Waits]
      /\ Kept(scanned[a], daemon) /\ AskerOK(ask[a].pc, wire[a], scanned[a])
      /\ scanned \in [Askers -> Fates] /\ UNCHANGED <<daemon, scanned>>
  BY DEF RescanInv, RequestScan, Poll
<1>2. ASSUME NEW m \in {ScanRequest, Status}, SendRequest(a, m)
      PROVE  /\ wire' \in [Askers -> Messages] /\ wire'[a] \in {m, Closed}
             /\ \A b \in Askers \ {a} : wire'[b] = wire[b]
  BY <1>1, <1>2, MessageFacts DEF SendRequest
<1>3. CASE RequestScan(a)
  <2>1. /\ wire' \in [Askers -> Messages] /\ wire'[a] \in {ScanRequest, Closed}
        /\ \A b \in Askers \ {a} : wire'[b] = wire[b]
    BY <1>2, <1>3 DEF RequestScan
  <2>2. /\ ask' \in [Askers -> Waits] /\ ask'[a].pc = "asked"
        /\ \A b \in Askers \ {a} : ask'[b] = ask[b]
    BY <1>1, <1>3, AskGoesTo DEF RequestScan, Stages
  <2>3. AskerOK(ask'[a].pc, wire'[a], scanned'[a])
    BY <1>1, <1>3, <2>1, <2>2, MessageFacts DEF AskerOK, Finished, RequestScan
  <2>4. QED
    BY <1>1, <2>1, <2>2, <2>3, WorkerKeeps
<1>4. CASE Poll(a)
  <2>1. /\ wire' \in [Askers -> Messages] /\ wire'[a] \in {Status, Closed}
        /\ \A b \in Askers \ {a} : wire'[b] = wire[b]
    BY <1>2, <1>4 DEF Poll
  <2>2. /\ ask' \in [Askers -> Waits] /\ ask'[a].pc = "wait"
        /\ \A b \in Askers \ {a} : ask'[b] = ask[b]
    BY <1>1, <1>4, AskGoesTo DEF Poll, Stages
  <2>3. AskerOK(ask'[a].pc, wire'[a], scanned'[a])
    BY <1>1, <1>4, <2>1, <2>2, MessageFacts DEF AskerOK, Finished, Poll
  <2>4. QED
    BY <1>1, <2>1, <2>2, <2>3, WorkerKeeps
<1>5. QED
  BY <1>3, <1>4

LEMMA ReadAnswerKeeps ==
    ASSUME RescanInv, NEW a \in Askers, ReadAnswer(a)
    PROVE  RescanInv'
<1>1. /\ ask \in [Askers -> Waits] /\ ask[a].pc = "asked" /\ Received(a)
      /\ Kept(scanned[a], daemon) /\ AskerOK(ask[a].pc, wire[a], scanned[a])
      /\ scanned \in [Askers -> Fates] /\ UNCHANGED <<daemon, scanned>>
  BY DEF RescanInv, ReadAnswer
<1> DEFINE pc == CASE wire[a].type = "counts" -> "ok"
                   [] wire[a].type = "ok" -> "poll"
                   [] OTHER -> "failed"
<1>2. /\ pc \in {"ok", "poll", "failed"} /\ (pc = "ok" => wire[a].type = "counts")
      /\ (pc = "poll" => wire[a].type = "ok")
  OBVIOUS
<1>3. AskGoes(a, pc)
  BY DEF ReadAnswer
<1> HIDE DEF pc
<1>4. /\ ask' \in [Askers -> Waits] /\ ask'[a].pc = pc
      /\ \A b \in Askers \ {a} : ask'[b] = ask[b]
  BY <1>1, <1>2, <1>3, AskGoesTo DEF Stages
<1>5. /\ wire' \in [Askers -> Messages] /\ wire'[a] = Closed
      /\ \A b \in Askers \ {a} : wire'[b] = wire[b]
  BY <1>1, ReadFacts
<1>6. AskerOK(ask'[a].pc, wire'[a], scanned'[a])
  BY <1>1, <1>2, <1>4, <1>5, MessageFacts DEF AskerOK, Finished
<1>7. QED
  BY <1>1, <1>4, <1>5, <1>6, WorkerKeeps

LEMMA ReadStatusKeeps ==
    ASSUME RescanInv, NEW a \in Askers, ReadStatus(a)
    PROVE  RescanInv'
<1>1. /\ ask \in [Askers -> Waits] /\ ask[a].pc = "wait" /\ Received(a)
      /\ Kept(scanned[a], daemon) /\ AskerOK(ask[a].pc, wire[a], scanned[a])
      /\ scanned \in [Askers -> Fates] /\ UNCHANGED <<daemon, scanned>>
  BY DEF RescanInv, ReadStatus
<1>2. /\ wire' \in [Askers -> Messages] /\ wire'[a] = Closed
      /\ \A b \in Askers \ {a} : wire'[b] = wire[b]
  BY <1>1, ReadFacts
<1>3. /\ ask[a].attempt \in 0 .. MaxAttempts - 1 /\ ask[a].failures \in 0 .. MaxFailures - 1
      /\ MaxAttempts \in Nat /\ MaxAttempts >= 1 /\ MaxFailures \in Nat /\ MaxFailures >= 1
  BY <1>1, BoundFacts DEF Waits
<1>4. \A pc \in Stages : [NotAsked EXCEPT !.pc = pc] \in Waits /\ [NotAsked EXCEPT !.pc = pc].pc = pc
  BY <1>3 DEF NotAsked, Waits
<1>5. PICK w \in Waits :
         /\ ask' = [ask EXCEPT ![a] = w] /\ w.pc \in {"poll", "failed", "ok"}
         /\ w.pc = "ok" => Finished(wire[a])
  <2>1. ASSUME NEW n \in 0 .. MaxFailures - 1, Again(a, n)
        PROVE  \E w \in Waits : ask' = [ask EXCEPT ![a] = w] /\ w.pc \in {"poll", "failed"}
    <3>1. CASE ask[a].attempt + 1 < MaxAttempts
      <4> DEFINE w == [pc |-> "poll", attempt |-> ask[a].attempt + 1, failures |-> n]
      <4>1. w \in Waits /\ w.pc = "poll"
        BY <1>3, <3>1 DEF Waits, Stages
      <4>2. ask' = [ask EXCEPT ![a] = w]
        BY <2>1, <3>1 DEF Again
      <4> HIDE DEF w
      <4>3. QED
        BY <4>1, <4>2
    <3>2. CASE ~(ask[a].attempt + 1 < MaxAttempts)
      BY <1>4, <2>1, <3>2 DEF Again, Stages
    <3>3. QED
      BY <3>1, <3>2
  <2>2. CASE wire[a].type # "status"
    <3>1. CASE ask[a].failures + 1 >= MaxFailures
      BY <1>4, <2>2, <3>1 DEF ReadStatus, Stages
    <3>2. CASE ~(ask[a].failures + 1 >= MaxFailures)
      <4>1. ask[a].failures + 1 \in 0 .. MaxFailures - 1
        BY <1>3, <3>2
      <4>2. Again(a, ask[a].failures + 1)
        BY <2>2, <3>2 DEF ReadStatus
      <4>3. QED
        BY <2>1, <4>1, <4>2
    <3>3. QED
      BY <3>1, <3>2
  <2>3. CASE wire[a].type = "status"
    <3>1. CASE wire[a].scan_running \/ wire[a].pending_rescan
      <4>1. Again(a, 0) /\ 0 \in 0 .. MaxFailures - 1
        BY <1>3, <2>3, <3>1 DEF ReadStatus
      <4>2. QED
        BY <2>1, <4>1
    <3>2. CASE ~(wire[a].scan_running \/ wire[a].pending_rescan)
      <4>1. ask' = [ask EXCEPT ![a] = [NotAsked EXCEPT !.pc = IF wire[a].scan_error THEN "failed" ELSE "ok"]]
        BY <2>3, <3>2 DEF ReadStatus
      <4>2. ~wire[a].scan_error => Finished(wire[a])
        BY <2>3, <3>2 DEF Finished
      <4>3. QED
        BY <1>4, <4>1, <4>2 DEF Stages
    <3>3. QED
      BY <3>1, <3>2
  <2>4. QED
    BY <2>2, <2>3
<1>6. /\ ask' \in [Askers -> Waits] /\ ask'[a].pc = w.pc
      /\ \A b \in Askers \ {a} : ask'[b] = ask[b]
  BY <1>1, <1>5
<1>7. AskerOK(ask'[a].pc, wire'[a], scanned'[a])
  BY <1>1, <1>2, <1>5, <1>6, MessageFacts DEF AskerOK, Finished
<1>8. QED
  BY <1>1, <1>2, <1>6, <1>7, WorkerKeeps

LEMMA AnswerRescanKeeps ==
    ASSUME RescanInv, NEW a \in Askers, AnswerRescan(a)
    PROVE  RescanInv'
<1>1. /\ ask \in [Askers -> Waits] /\ wire \in [Askers -> Messages]
      /\ AskerOK(ask[a].pc, wire[a], scanned[a]) /\ ask[a].pc \in {"ok", "failed"}
      /\ scanned \in [Askers -> Fates] /\ UNCHANGED <<daemon, wire>>
      /\ ask' = [ask EXCEPT ![a] = NotAsked] /\ scanned' = [scanned EXCEPT ![a] = "no"]
  BY DEF RescanInv, AnswerRescan
<1>2. NotAsked \in Waits /\ NotAsked.pc = "idle"
  BY BoundFacts DEF NotAsked, Waits, Stages
<1>3. /\ ask' \in [Askers -> Waits] /\ scanned' \in [Askers -> Fates]
      /\ ask'[a].pc = "idle" /\ scanned'[a] = "no"
      /\ \A b \in Askers \ {a} : ask'[b] = ask[b] /\ scanned'[b] = scanned[b]
  BY <1>1, <1>2 DEF Fates
<1>4. Kept(scanned'[a], daemon) /\ AskerOK(ask'[a].pc, wire'[a], scanned'[a])
  BY <1>1, <1>3 DEF Kept, AskerOK, Finished
<1>5. QED
  BY <1>1, <1>3, <1>4, WorkerKeeps

\* A scan begins: those that waited for it are served by it.
LEMMA BeganFates ==
    ASSUME scanned \in [Askers -> Fates]
    PROVE  /\ Began \in [Askers -> Fates]
           /\ \A a \in Askers :
                 /\ Began[a] # "asked"
                 /\ Began[a] # scanned[a] => scanned[a] = "asked" /\ Began[a] = "began"
BY DEF Began, Fates

LEMMA EndedFates ==
    ASSUME scanned \in [Askers -> Fates], NEW bad \in BOOLEAN
    PROVE  /\ Ended(bad) \in [Askers -> Fates]
           /\ \A a \in Askers :
                 /\ Ended(bad)[a] # "began" /\ (Ended(bad)[a] = "failed" => bad)
                 /\ Ended(bad)[a] # scanned[a] => /\ scanned[a] \in {"began", "failed"}
                                                  /\ Ended(bad)[a] \in {"done", "failed"}
BY DEF Ended, Fates

\* A scan that an asker is told to wait for becomes another: no more is known
\* of it than before.
LEMMA FateGoes ==
    ASSUME NEW pc, NEW m, NEW fate \in Fates, NEW new \in Fates, AskerOK(pc, m, fate),
           fate \in {"asked", "began", "failed"}, new # "no"
    PROVE  AskerOK(pc, m, new)
BY DEF AskerOK

LEMMA DaemonScanKeeps ==
    ASSUME RescanInv, BeginScan \/ ScanAgain \/ EndScan
    PROVE  RescanInv'
<1>1. /\ daemon \in Daemons /\ scanned \in [Askers -> Fates] /\ UNCHANGED <<wire, ask>>
      /\ \A a \in Askers : Kept(scanned[a], daemon) /\ AskerOK(ask[a].pc, wire[a], scanned[a])
  BY DEF RescanInv, BeginScan, ScanAgain, EndScan
<1>2. CASE BeginScan
  <2>1. /\ scanned' = Began /\ daemon' = [daemon EXCEPT !.running = TRUE, !.pending = FALSE]
    BY <1>2 DEF BeginScan
  <2>2. daemon' \in Daemons /\ daemon'.running /\ daemon'.error = daemon.error
    BY <1>1, <2>1 DEF Daemons
  <2>3. \A a \in Askers : Kept(scanned'[a], daemon')
    BY <1>1, <2>1, <2>2, BeganFates DEF Kept
  <2>4. \A a \in Askers : AskerOK(ask[a].pc, wire[a], scanned'[a])
    BY <1>1, <2>1, BeganFates, FateGoes
  <2>5. QED
    BY <1>1, <2>1, <2>2, <2>3, <2>4, BeganFates DEF RescanInv
<1>3. CASE ScanAgain
  <2>1. daemon' = [daemon EXCEPT !.pending = TRUE] /\ UNCHANGED scanned
    BY <1>3 DEF ScanAgain
  <2>2. /\ daemon' \in Daemons /\ daemon'.pending /\ daemon'.error = daemon.error
        /\ daemon'.running = daemon.running
    BY <1>1, <2>1 DEF Daemons
  <2>3. \A a \in Askers : Kept(scanned'[a], daemon')
    BY <1>1, <2>1, <2>2 DEF Kept
  <2>4. QED
    BY <1>1, <2>1, <2>2, <2>3 DEF RescanInv
<1>4. CASE EndScan
  <2>1. PICK bad \in BOOLEAN :
           /\ daemon' = [daemon EXCEPT !.running = FALSE, !.error = bad]
           /\ scanned' = Ended(bad)
    BY <1>4 DEF EndScan
  <2>2. daemon' \in Daemons /\ daemon'.pending = daemon.pending /\ daemon'.error = bad
    BY <1>1, <2>1 DEF Daemons
  <2>3. \A a \in Askers : Kept(scanned'[a], daemon')
    BY <1>1, <2>1, <2>2, EndedFates DEF Kept
  <2>4. \A a \in Askers : AskerOK(ask[a].pc, wire[a], scanned'[a])
    BY <1>1, <2>1, EndedFates, FateGoes
  <2>5. QED
    BY <1>1, <2>1, <2>2, <2>3, <2>4, EndedFates DEF RescanInv
<1>5. QED
  BY <1>2, <1>3, <1>4

LEMMA CalmFacts ==
    ASSUME NEW up \in BOOLEAN, NEW old \in BOOLEAN
    PROVE  [Calm EXCEPT !.up = up, !.legacy = old] \in Daemons
BY DEF Calm, Daemons

LEMMA RestartKeeps ==
    ASSUME RescanInv, RestartDaemon
    PROVE  RescanInv'
<1>1. /\ scanned \in [Askers -> Fates] /\ UNCHANGED ask /\ ask \in [Askers -> Waits]
      /\ \A a \in Askers : AskerOK(ask[a].pc, wire[a], scanned[a])
      /\ wire' = [a \in Askers |-> Closed]
      /\ scanned' = [a \in Askers |-> IF scanned[a] \in {"no", "done"} THEN scanned[a]
                                  ELSE "lost"]
  BY DEF RescanInv, RestartDaemon
<1>2. daemon' \in Daemons
  <2>1. PICK up \in BOOLEAN, old \in BOOLEAN :
           daemon' = [Calm EXCEPT !.up = up, !.legacy = old]
    BY DEF RestartDaemon
  <2>2. QED
    BY <2>1, CalmFacts
<1>3. wire' \in [Askers -> Messages] /\ \A a \in Askers : wire'[a].type = "closed"
  BY <1>1, MessageFacts
<1>4. /\ scanned' \in [Askers -> Fates]
      /\ \A a \in Askers : /\ scanned'[a] \in {"no", "done", "lost"}
                           /\ scanned'[a] = "no" <=> scanned[a] = "no"
  BY <1>1 DEF Fates
<1>5. \A a \in Askers : Kept(scanned'[a], daemon') /\ AskerOK(ask'[a].pc, wire'[a], scanned'[a])
  <2> SUFFICES ASSUME NEW a \in Askers
               PROVE  Kept(scanned'[a], daemon') /\ AskerOK(ask'[a].pc, wire'[a], scanned'[a])
    OBVIOUS
  <2>1. ask'[a].pc = ask[a].pc
    BY <1>1
  <2>2. Kept(scanned'[a], daemon')
    BY <1>4 DEF Kept
  <2>3. AskerOK(ask[a].pc, wire'[a], scanned'[a])
    BY <1>1, <1>3, <1>4 DEF AskerOK, Finished
  <2>4. QED
    BY <2>1, <2>2, <2>3
<1>6. QED
  BY <1>1, <1>2, <1>3, <1>4, <1>5 DEF RescanInv

LEMMA TakeScanKeeps ==
    ASSUME RescanInv, NEW a \in Askers, TakeScan(a)
    PROVE  RescanInv'
<1>1. /\ daemon \in Daemons /\ scanned \in [Askers -> Fates] /\ UNCHANGED ask
      /\ ask \in [Askers -> Waits] /\ wire \in [Askers -> Messages] /\ wire[a].type = "scan-library"
      /\ \A b \in Askers : Kept(scanned[b], daemon) /\ AskerOK(ask[b].pc, wire[b], scanned[b])
  BY MessageFacts DEF RescanInv, TakeScan
<1>2. scanned[a] = "no" /\ ask[a].pc = "asked"
  <2>1. ask[a].pc \in Stages
    BY <1>1 DEF Waits
  <2>2. QED
    BY <1>1, <2>1 DEF AskerOK, Stages
<1>3. CASE wire' = [wire EXCEPT ![a] = [type |-> "error"]] /\ UNCHANGED <<daemon, scanned>>
  <2>1. /\ wire' \in [Askers -> Messages] /\ wire'[a].type = "error"
        /\ \A b \in Askers \ {a} : wire'[b] = wire[b]
    BY <1>1, <1>3, MessageFacts
  <2>2. AskerOK(ask'[a].pc, wire'[a], scanned'[a])
    BY <1>1, <1>2, <1>3, <2>1 DEF AskerOK, Finished
  <2>3. QED
    BY <1>1, <1>3, <2>1, <2>2, WorkerKeeps
<1>4. CASE /\ wire' = [wire EXCEPT ![a] = [type |-> "counts"]]
           /\ scanned' = [scanned EXCEPT ![a] = "done"] /\ UNCHANGED daemon
  <2>1. /\ wire' \in [Askers -> Messages] /\ wire'[a].type = "counts"
        /\ scanned' \in [Askers -> Fates] /\ scanned'[a] = "done"
        /\ \A b \in Askers \ {a} : wire'[b] = wire[b] /\ scanned'[b] = scanned[b]
    BY <1>1, <1>4, MessageFacts DEF Fates
  <2>2. Kept(scanned'[a], daemon) /\ AskerOK(ask'[a].pc, wire'[a], scanned'[a])
    BY <1>1, <1>2, <2>1 DEF Kept, AskerOK, Finished
  <2>3. QED
    BY <1>1, <1>4, <2>1, <2>2, WorkerKeeps
<1>5. CASE wire' = [wire EXCEPT ![a] = [type |-> "ok"]] /\ ~daemon.legacy
           /\ IF daemon.running
              THEN /\ daemon' = [daemon EXCEPT !.pending = TRUE]
                   /\ scanned' = [scanned EXCEPT ![a] = "asked"]
              ELSE /\ daemon' = [daemon EXCEPT !.running = TRUE, !.pending = FALSE]
                   /\ scanned' = [Began EXCEPT ![a] = "began"]
  <2>1. /\ wire' \in [Askers -> Messages] /\ wire'[a].type = "ok"
        /\ \A b \in Askers \ {a} : wire'[b] = wire[b]
    BY <1>1, <1>5, MessageFacts
  <2>2. /\ daemon' \in Daemons /\ scanned' \in [Askers -> Fates]
        /\ scanned'[a] \in {"asked", "began"} /\ Kept(scanned'[a], daemon')
        /\ \A b \in Askers \ {a} :
              /\ Kept(scanned'[b], daemon')
              /\ scanned'[b] # scanned[b] => scanned[b] = "asked" /\ scanned'[b] = "began"
    <3>1. CASE daemon.running
      <4>1. /\ daemon' \in Daemons /\ daemon'.pending /\ daemon'.error = daemon.error
            /\ daemon'.running = daemon.running
        BY <1>1, <1>5, <3>1 DEF Daemons
      <4>2. /\ scanned' \in [Askers -> Fates] /\ scanned'[a] = "asked"
            /\ \A b \in Askers \ {a} : scanned'[b] = scanned[b]
        BY <1>1, <1>5, <3>1 DEF Fates
      <4>3. QED
        BY <1>1, <4>1, <4>2 DEF Kept
    <3>2. CASE ~daemon.running
      <4>1. /\ daemon' \in Daemons /\ daemon'.running /\ daemon'.error = daemon.error
        BY <1>1, <1>5, <3>2 DEF Daemons
      <4>2. /\ scanned' \in [Askers -> Fates] /\ scanned'[a] = "began"
            /\ \A b \in Askers \ {a} : scanned'[b] = Began[b]
        <5>1. scanned' = [Began EXCEPT ![a] = "began"]
          BY <1>5, <3>2
        <5>2. QED
          BY <1>1, <5>1, BeganFates DEF Fates
      <4>3. QED
        BY <1>1, <4>1, <4>2, BeganFates DEF Kept
    <3>3. QED
      BY <3>1, <3>2
  <2>3. AskerOK(ask'[a].pc, wire'[a], scanned'[a])
    BY <1>1, <1>2, <2>1, <2>2 DEF AskerOK, Finished
  <2>4. \A b \in Askers \ {a} : AskerOK(ask'[b].pc, wire'[b], scanned'[b])
    <3> SUFFICES ASSUME NEW b \in Askers \ {a}
                 PROVE  AskerOK(ask'[b].pc, wire'[b], scanned'[b])
      OBVIOUS
    <3>1. ask'[b].pc = ask[b].pc /\ wire'[b] = wire[b] /\ scanned[b] \in Fates /\ scanned'[b] \in Fates
      BY <1>1, <2>1, <2>2
    <3>2. QED
      BY <1>1, <2>2, <3>1, FateGoes
  <2>5. QED
    BY <1>1, <2>1, <2>2, <2>3, <2>4 DEF RescanInv
<1>6. QED
  BY <1>3, <1>4, <1>5 DEF TakeScan

LEMMA TakeStatusKeeps ==
    ASSUME RescanInv, NEW a \in Askers, TakeStatus(a)
    PROVE  RescanInv'
<1>1. /\ daemon \in Daemons /\ scanned \in [Askers -> Fates]
      /\ ask \in [Askers -> Waits] /\ wire \in [Askers -> Messages] /\ wire[a].type = "library-status"
      /\ Kept(scanned[a], daemon) /\ AskerOK(ask[a].pc, wire[a], scanned[a])
      /\ UNCHANGED <<daemon, ask, scanned>>
  BY MessageFacts DEF RescanInv, TakeStatus
<1>2. ask[a].pc = "wait" /\ scanned[a] # "no" /\ scanned[a] \in Fates
  <2>1. ask[a].pc \in Stages
    BY <1>1 DEF Waits
  <2>2. QED
    BY <1>1, <2>1 DEF AskerOK, Stages
<1> DEFINE s == StatusIs(daemon.running, daemon.pending, daemon.error)
<1>3. /\ s \in Messages /\ s.type = "status"
      /\ Finished(s) => scanned[a] \in {"done", "lost"}
  <2>1. daemon.running \in BOOLEAN /\ daemon.pending \in BOOLEAN /\ daemon.error \in BOOLEAN
    BY <1>1 DEF Daemons
  <2>2. /\ s \in Messages /\ s.type = "status"
        /\ Finished(s) <=> ~daemon.running /\ ~daemon.pending /\ ~daemon.error
    BY <2>1, StatusFacts
  <2>3. QED
    BY <1>1, <1>2, <2>2 DEF Kept, Fates
<1>4. PICK m \in {s, [type |-> "error"]} : wire' = [wire EXCEPT ![a] = m]
  BY DEF TakeStatus
<1> HIDE DEF s
<1>5. m \in Messages /\ m.type \in {"status", "error"} /\ (Finished(m) => scanned[a] \in {"done", "lost"})
  BY <1>3, MessageFacts DEF Finished
<1>6. /\ wire' \in [Askers -> Messages] /\ wire'[a] = m
      /\ \A b \in Askers \ {a} : wire'[b] = wire[b]
  BY <1>1, <1>4, <1>5
<1>7. AskerOK(ask'[a].pc, wire'[a], scanned'[a])
  BY <1>1, <1>2, <1>5, <1>6 DEF AskerOK
<1>8. QED
  BY <1>1, <1>6, <1>7, WorkerKeeps

LEMMA RescanHolds == RescanSpec => []RescanInv
<1>1. RescanInit => RescanInv
  <2> SUFFICES ASSUME RescanInit PROVE RescanInv
    OBVIOUS
  <2>1. daemon \in Daemons
    <3>1. PICK up \in BOOLEAN, old \in BOOLEAN :
             daemon = [Calm EXCEPT !.up = up, !.legacy = old]
      BY DEF RescanInit
    <3>2. QED
      BY <3>1, CalmFacts
  <2>2. wire \in [Askers -> Messages] /\ \A a \in Askers : wire[a].type = "closed"
    BY MessageFacts DEF RescanInit
  <2>3. ask \in [Askers -> Waits] /\ \A a \in Askers : ask[a].pc = "idle"
    <3>1. NotAsked \in Waits /\ NotAsked.pc = "idle"
      BY BoundFacts DEF NotAsked, Waits, Stages
    <3>2. QED
      BY <3>1 DEF RescanInit
  <2>4. scanned \in [Askers -> Fates] /\ \A a \in Askers : scanned[a] = "no"
    BY DEF RescanInit, Fates
  <2>5. QED
    BY <2>1, <2>2, <2>3, <2>4 DEF RescanInv, Kept, AskerOK, Finished
<1>2. RescanInv /\ [RescanNext]_rescanVars => RescanInv'
  <2> SUFFICES ASSUME RescanInv, [RescanNext]_rescanVars PROVE RescanInv'
    OBVIOUS
  <2>1. CASE UNCHANGED rescanVars
    BY <2>1 DEF rescanVars, RescanInv
  <2>2. CASE RescanNext
    BY <2>2, DaemonScanKeeps, RestartKeeps, TakeScanKeeps, TakeStatusKeeps, SendKeeps,
       ReadAnswerKeeps, ReadStatusKeeps, AnswerRescanKeeps DEF RescanNext, AskStep
  <2>3. QED
    BY <2>1, <2>2
<1>3. QED
  BY <1>1, <1>2, PTL DEF RescanSpec

\* In every reachable state the daemon, what is on each socket, and the counts
\* of each polling loop of jawaka_ipc.c are well typed, however many rescans
\* are asked for at a time: no loop counts past its limits.
THEOREM RescanTypes == RescanSpec => []RescanTypeOK
<1>1. RescanInv => RescanTypeOK
  BY DEF RescanInv, RescanTypeOK, Daemons, Messages, Waits, Stages, Fates
<1>2. QED
  BY <1>1, RescanHolds, PTL

\* Whatever else is asked of the daemon, and whoever asks at the same time: 200
\* is only answered when a scan that began after the daemon took the request has
\* ended well, or when the daemon was restarted before that scan had ended.
THEOREM OkMeansScannedAlways == RescanSpec => []OkMeansScanned
<1>1. RescanInv => OkMeansScanned
  BY DEF RescanInv, AskerOK, OkMeansScanned
<1>2. QED
  BY <1>1, RescanHolds, PTL

-----------------------------------------------------------------------------
(* That a rescan is answered in the end is left to TLC (RescanAnswers). These  *)
(* are the two facts it comes from: a worker waits only for what will come,    *)
(* and not for more of it than its loop allows.                                *)

\* A socket that holds a question leads to a daemon that is up.
Heard == \A a \in Askers : wire[a].type \in {"scan-library", "library-status"} => daemon.up

LEMMA HeardKept ==
    ASSUME RescanInv, Heard, daemon'.up = daemon.up, NEW a \in Askers, NEW m,
           m.type \in {"scan-library", "library-status"} => daemon.up,
           wire' = [wire EXCEPT ![a] = m]
    PROVE  Heard'
<1>1. \A b \in Askers : wire'[b] = IF b = a THEN m ELSE wire[b]
  BY DEF RescanInv
<1>2. QED
  BY <1>1 DEF Heard

LEMMA ScansAreHeard ==
    ASSUME RescanInv, Heard, BeginScan \/ ScanAgain \/ EndScan
    PROVE  Heard'
<1>1. daemon'.up = daemon.up /\ wire' = wire
  BY DEF RescanInv, Daemons, BeginScan, ScanAgain, EndScan
<1>2. QED
  BY <1>1 DEF Heard

LEMMA AskersAreHeard ==
    ASSUME RescanInv, Heard, NEW a \in Askers,
           TakeScan(a) \/ TakeStatus(a) \/ RequestScan(a) \/ AskStep(a)
    PROVE  Heard'
<1>1. CASE TakeScan(a)
  <2>1. daemon'.up = daemon.up
    BY <1>1 DEF TakeScan, RescanInv, Daemons
  <2>2. \E m \in {[type |-> "error"], [type |-> "counts"], [type |-> "ok"]} :
           wire' = [wire EXCEPT ![a] = m]
    BY <1>1 DEF TakeScan
  <2>3. QED
    BY <2>1, <2>2, HeardKept
<1>2. CASE TakeStatus(a)
  <2>1. daemon' = daemon
    BY <1>2 DEF TakeStatus
  <2>2. \/ wire' = [wire EXCEPT ![a] = StatusIs(daemon.running, daemon.pending, daemon.error)]
        \/ wire' = [wire EXCEPT ![a] = [type |-> "error"]]
    BY <1>2 DEF TakeStatus
  <2>3. QED
    BY <2>1, <2>2, HeardKept DEF StatusIs
<1>3. CASE RequestScan(a) \/ Poll(a)
  <2>1. daemon' = daemon
    BY <1>3 DEF RequestScan, Poll
  <2>2. \E m \in {ScanRequest, Status} :
           wire' = [wire EXCEPT ![a] = IF daemon.up THEN m ELSE Closed]
    BY <1>3 DEF RequestScan, Poll, SendRequest
  <2>3. QED
    BY <2>1, <2>2, HeardKept DEF Closed
<1>4. CASE ReadAnswer(a) \/ ReadStatus(a)
  <2>1. daemon' = daemon /\ wire' = [wire EXCEPT ![a] = Closed]
    BY <1>4 DEF ReadAnswer, ReadStatus, Received
  <2>2. QED
    BY <2>1, HeardKept DEF Closed
<1>5. CASE AnswerRescan(a)
  BY <1>5 DEF AnswerRescan, Heard
<1>6. QED
  BY <1>1, <1>2, <1>3, <1>4, <1>5 DEF AskStep

LEMMA HeardHolds == RescanSpec => []Heard
<1>1. RescanInit => Heard
  BY DEF RescanInit, Heard, Closed
<1>2. RescanInv /\ Heard /\ [RescanNext]_rescanVars => Heard'
  <2> SUFFICES ASSUME RescanInv, Heard, [RescanNext]_rescanVars PROVE Heard'
    OBVIOUS
  <2>1. CASE UNCHANGED rescanVars
    BY <2>1 DEF rescanVars, Heard
  <2>2. CASE RestartDaemon
    BY <2>2 DEF RestartDaemon, Heard, Closed
  <2>3. QED
    BY <2>1, <2>2, ScansAreHeard, AskersAreHeard DEF RescanNext
<1>3. QED
  BY <1>1, <1>2, RescanHolds, PTL DEF RescanSpec

\* A worker that reads its socket, with no time limit (cs_ipc_request), has an
\* answer there or the end of it, or a daemon that is up has its question.
AnswerComes ==
    \A a \in Askers :
        /\ ask[a].pc = "asked" =>
              wire[a] \in Answers \/ (daemon.up /\ wire[a] = ScanRequest)
        /\ ask[a].pc = "wait" => wire[a] \in Answers \/ (daemon.up /\ wire[a] = Status)

\* No worker waits on a socket that nobody will write to or close, whatever the
\* daemon did since: it is only the daemon's answer that is waited for.
THEOREM AnswerComesAlways == RescanSpec => []AnswerComes
<1>1. RescanInv /\ Heard => AnswerComes
  <2> SUFFICES ASSUME RescanInv, Heard, NEW a \in Askers
               PROVE  /\ ask[a].pc = "asked" =>
                            wire[a] \in Answers \/ (daemon.up /\ wire[a] = ScanRequest)
                      /\ ask[a].pc = "wait" =>
                            wire[a] \in Answers \/ (daemon.up /\ wire[a] = Status)
    BY DEF AnswerComes
  <2>1. wire[a] \in Answers \/ wire[a] = ScanRequest \/ wire[a] = Status
    BY DEF RescanInv, Messages
  <2>2. AskerOK(ask[a].pc, wire[a], scanned[a])
    BY DEF RescanInv
  <2>3. QED
    BY <2>1, <2>2 DEF AskerOK, Heard, ScanRequest, Status
<1>2. QED
  BY <1>1, RescanHolds, HeardHolds, PTL

\* The steps a worker has left at most: two for each round of the loop that is
\* left, and those around it.
RoundsLeft(u) ==
    CASE u.pc = "asked" -> 2 * MaxAttempts + 2
      [] u.pc = "poll" -> 2 * (MaxAttempts - u.attempt) + 1
      [] u.pc = "wait" -> 2 * (MaxAttempts - u.attempt)
      [] u.pc \in {"ok", "failed"} -> 1
      [] OTHER -> 0

LEMMA RoundsFact == \A u \in Waits : RoundsLeft(u) \in 0 .. 2 * MaxAttempts + 2
BY RescanAssumption DEF Waits, Stages, RoundsLeft

\* Each step of a request's worker leaves it fewer, and nobody else's changes
\* where it is.
RoundsRunOut ==
    [][\A a \in Askers :
          /\ AskStep(a) => RoundsLeft(ask'[a]) \in 0 .. RoundsLeft(ask[a]) - 1
          /\ ~AskStep(a) => ask'[a] = ask[a] \/ ask[a].pc = "idle"]_rescanVars

LEMMA AgainIsLess ==
    ASSUME RescanInv, NEW a \in Askers, ask[a].pc = "wait", NEW f, Again(a, f)
    PROVE  RoundsLeft(ask'[a]) < RoundsLeft(ask[a])
<1>1. ask[a] \in Waits /\ ask[a].attempt \in Nat /\ ask[a].attempt < MaxAttempts
  BY RescanAssumption DEF RescanInv, Waits
<1>2. \/ ask[a].attempt + 1 < MaxAttempts /\ ask'[a].pc = "poll"
            /\ ask'[a].attempt = ask[a].attempt + 1
      \/ ask'[a].pc = "failed"
  BY DEF Again, RescanInv, NotAsked
<1>3. QED
  BY <1>1, <1>2, RescanAssumption DEF RoundsLeft

LEMMA StepIsLess ==
    ASSUME RescanInv, NEW a \in Askers, AskStep(a)
    PROVE  RoundsLeft(ask'[a]) < RoundsLeft(ask[a])
<1>1. ask[a] \in Waits /\ ask[a].attempt \in Nat /\ ask[a].attempt < MaxAttempts
  BY RescanAssumption DEF RescanInv, Waits
<1>2. CASE ReadAnswer(a)
  <2>1. ask[a].pc = "asked" /\ ask'[a].attempt = ask[a].attempt
        /\ ask'[a].pc \in {"ok", "poll", "failed"}
    BY <1>1, <1>2 DEF ReadAnswer, AskGoes, RescanInv, Waits
  <2>2. QED
    BY <1>1, <2>1, RescanAssumption DEF RoundsLeft
<1>3. CASE Poll(a)
  <2>1. ask[a].pc = "poll" /\ ask'[a].attempt = ask[a].attempt /\ ask'[a].pc = "wait"
    BY <1>1, <1>3 DEF Poll, AskGoes, RescanInv, Waits
  <2>2. QED
    BY <1>1, <2>1, RescanAssumption DEF RoundsLeft
<1>4. CASE ReadStatus(a)
  <2>1. ask[a].pc = "wait"
    BY <1>4 DEF ReadStatus
  <2>2. \/ \E f : Again(a, f)
        \/ \E pc \in {"ok", "failed"} : ask' = [ask EXCEPT ![a] = [NotAsked EXCEPT !.pc = pc]]
    BY <1>4 DEF ReadStatus
  <2>3. CASE \E f : Again(a, f)
    BY <2>1, <2>3, AgainIsLess
  <2>4. CASE \E pc \in {"ok", "failed"} : ask' = [ask EXCEPT ![a] = [NotAsked EXCEPT !.pc = pc]]
    <3>1. ask'[a].pc \in {"ok", "failed"}
      BY <2>4 DEF RescanInv, NotAsked
    <3>2. QED
      BY <1>1, <2>1, <3>1, RescanAssumption DEF RoundsLeft
  <2>5. QED
    BY <2>2, <2>3, <2>4
<1>5. CASE AnswerRescan(a)
  <2>1. ask[a].pc \in {"ok", "failed"} /\ ask'[a].pc = "idle"
    BY <1>5 DEF AnswerRescan, NotAsked, RescanInv
  <2>2. QED
    BY <2>1 DEF RoundsLeft
<1>6. QED
  BY <1>2, <1>3, <1>4, <1>5 DEF AskStep

LEMMA OthersStay ==
    ASSUME RescanInv, RescanNext, NEW a \in Askers, ~AskStep(a)
    PROVE  ask'[a] = ask[a] \/ ask[a].pc = "idle"
<1>1. CASE BeginScan \/ ScanAgain \/ EndScan \/ RestartDaemon
  BY <1>1 DEF BeginScan, ScanAgain, EndScan, RestartDaemon
<1>2. ASSUME NEW b \in Askers, TakeScan(b) \/ TakeStatus(b) PROVE ask' = ask
  BY <1>2 DEF TakeScan, TakeStatus
<1>3. ASSUME NEW b \in Askers, RequestScan(b) PROVE ask'[a] = ask[a] \/ ask[a].pc = "idle"
  BY <1>3 DEF RequestScan, AskGoes, RescanInv
<1>4. ASSUME NEW b \in Askers, AskStep(b) PROVE ask'[a] = ask[a]
  <2>1. a # b
    BY <1>4
  <2>2. \E u : ask' = [ask EXCEPT ![b] = u]
    <3>1. CASE ReadAnswer(b) \/ Poll(b)
      <4>1. \E pc : ask' = [ask EXCEPT ![b].pc = pc]
        BY <3>1 DEF ReadAnswer, Poll, AskGoes
      <4>2. QED
        BY <4>1
    <3>2. CASE ReadStatus(b)
      BY <3>2 DEF ReadStatus, Again
    <3>3. CASE AnswerRescan(b)
      BY <3>3 DEF AnswerRescan
    <3>4. QED
      BY <1>4, <3>1, <3>2, <3>3 DEF AskStep
  <2>3. QED
    BY <2>1, <2>2 DEF RescanInv
<1>5. QED
  BY <1>1, <1>2, <1>3, <1>4 DEF RescanNext

\* A request for a rescan is over after 2 * MaxAttempts + 3 steps of its worker
\* at most, the first of them included, however long the scan takes, however
\* often the daemon goes away, and whatever is asked at the same time
\* (cs_jawaka_wait_for_library_rescan).
THEOREM RoundsRunOutAlways == RescanSpec => RoundsRunOut
<1> DEFINE Round(a) == /\ AskStep(a) => RoundsLeft(ask'[a]) \in 0 .. RoundsLeft(ask[a]) - 1
                       /\ ~AskStep(a) => ask'[a] = ask[a] \/ ask[a].pc = "idle"
<1>1. ASSUME RescanInv, RescanInv', RescanNext, NEW a \in Askers PROVE Round(a)
  <2>1. /\ RoundsLeft(ask'[a]) \in 0 .. 2 * MaxAttempts + 2
        /\ RoundsLeft(ask[a]) \in 0 .. 2 * MaxAttempts + 2
    BY <1>1, RoundsFact DEF RescanInv
  <2>2. AskStep(a) => RoundsLeft(ask'[a]) < RoundsLeft(ask[a])
    BY <1>1, StepIsLess
  <2>3. AskStep(a) => RoundsLeft(ask'[a]) \in 0 .. RoundsLeft(ask[a]) - 1
    BY <2>1, <2>2, RescanAssumption
  <2>4. QED
    BY <1>1, <2>3, OthersStay
<1>2. RescanInv /\ RescanInv' /\ [RescanNext]_rescanVars => [\A a \in Askers : Round(a)]_rescanVars
  BY <1>1
<1>3. RescanSpec => [][\A a \in Askers : Round(a)]_rescanVars
  <2> HIDE DEF Round
  <2> QED BY <1>2, RescanHolds, PTL DEF RescanSpec
<1>4. QED
  BY <1>3 DEF RoundsRunOut

-----------------------------------------------------------------------------
(* The tail: what is in a log, and what was sent of it *)

Pieces == Seq(1..MaxPieces)
TailStages == {"none", "acquire", "recent", "first", "follow", "send", "end", "release"}
Handlers == [pc : TailStages, fd : Logs \cup {NoLog}, pos : 0..MaxPieces, offset : 0..MaxPieces,
             sending : Pieces, idle : BOOLEAN, late : BOOLEAN]

Rising(s) == \A i, j \in 1..Len(s) : i < j => s[i] < s[j]

\* The pieces that t has sent, or is about to.
Sent(t) == {got[t][i] : i \in 1..Len(got[t])}
           \cup {tail[t].sending[i] : i \in 1..Len(tail[t].sending)}

\* A log holds what was written to it since it was emptied, in order.
LogsOK ==
    /\ logs \in [Logs -> Pieces] /\ named \in Logs /\ pieces \in 0..MaxPieces
    /\ \A f \in Logs :
          /\ Rising(logs[f]) /\ Len(logs[f]) <= pieces
          /\ \A i \in 1..Len(logs[f]) : logs[f][i] <= pieces

\* What a stream is still to read comes after all that it has sent: the rest
\* of the file, or all of it once it has become shorter than its offset.
TailOK(t) ==
    /\ tail[t].pc # "none" => tail[t].fd \in Logs
    /\ Rising(got[t]) /\ Rising(tail[t].sending)
    /\ \A v \in Sent(t) : v <= pieces
    /\ tail[t].pc \in {"follow", "send", "end"} =>
          /\ tail[t].offset = tail[t].pos
          /\ \A i \in 1..Len(logs[tail[t].fd]) :
                i > tail[t].pos \/ Len(logs[tail[t].fd]) < tail[t].pos =>
                   \A v \in Sent(t) : v < logs[tail[t].fd][i]
    /\ tail[t].pc \in {"follow", "end"} => tail[t].sending = <<>>
    /\ tail[t].pc = "send" =>
          /\ Len(tail[t].sending) = 1
          /\ \A i \in 1..Len(got[t]) : got[t][i] < tail[t].sending[1]

Holders == {t \in Streams : tail[t].pc # "acquire"}

SlotsOK ==
    /\ active \in 0..MaxTails
    /\ IsFiniteSet(Holders) /\ active = Cardinality(Holders)

LogInv ==
    /\ LogsOK /\ SlotsOK
    /\ tail \in [Tails -> Handlers]
    /\ got \in [Tails -> Pieces]
    /\ \A t \in Tails : TailOK(t)

LEMMA LogBounds == MaxTails \in Nat /\ MaxPieces \in Nat /\ NoLog \notin Logs
BY LogTailAssumption

LEMMA EmptyPieces == <<>> \in Pieces /\ Len(<<>>) = 0 /\ Rising(<<>>)
BY DEF Pieces, Rising

LEMMA PieceFacts ==
    ASSUME NEW s \in Pieces
    PROVE  /\ Len(s) \in Nat
           /\ \A i \in 1..Len(s) : s[i] \in 1..MaxPieces /\ s[i] \in Nat
<1>1. s \in Seq(1..MaxPieces)
  BY DEF Pieces
<1>2. Len(s) \in Nat
  BY <1>1, LenProperties
<1>3. \A i \in 1..Len(s) : s[i] \in 1..MaxPieces
  BY <1>1, ElementOfSeq
<1>4. 1..MaxPieces \subseteq Nat
  BY LogBounds
<1>5. QED
  BY <1>2, <1>3, <1>4

LEMMA NoTailFacts == NoTail \in Handlers /\ NoTail.pc = "none" /\ NoTail.sending = <<>>
BY LogBounds, EmptyPieces DEF Handlers, NoTail, TailStages

LEMMA HandlerFields ==
    ASSUME tail \in [Tails -> Handlers], NEW t \in Tails
    PROVE  /\ tail[t] \in Handlers
           /\ tail[t].pc \in TailStages /\ tail[t].fd \in Logs \cup {NoLog}
           /\ tail[t].pos \in 0..MaxPieces /\ tail[t].offset \in 0..MaxPieces
           /\ tail[t].sending \in Pieces /\ tail[t].idle \in BOOLEAN /\ tail[t].late \in BOOLEAN
BY DEF Handlers

\* What t has sent is no more than it was.
LEMMA SentIs ==
    ASSUME NEW t \in Tails
    PROVE  \A v : v \in Sent(t) <=>
              \/ \E i \in 1..Len(got[t]) : v = got[t][i]
              \/ \E i \in 1..Len(tail[t].sending) : v = tail[t].sending[i]
BY DEF Sent

LEMMA SentIsNext ==
    ASSUME NEW t \in Tails
    PROVE  \A v : v \in Sent(t)' <=>
              \/ \E i \in 1..Len(got'[t]) : v = got'[t][i]
              \/ \E i \in 1..Len(tail'[t].sending) : v = tail'[t].sending[i]
BY DEF Sent

\* A step of one connection leaves the logs and the other connections alone.
LEMMA TailKeeps ==
    ASSUME LogInv, NEW t \in Tails, UNCHANGED <<logs, named, pieces>>,
           NEW v \in Handlers, tail' = [tail EXCEPT ![t] = v],
           got' \in [Tails -> Pieces], \A u \in Tails \ {t} : got'[u] = got[u],
           TailOK(t)', SlotsOK'
    PROVE  LogInv'
<1>1. tail' \in [Tails -> Handlers] /\ \A u \in Tails \ {t} : tail'[u] = tail[u]
  BY DEF LogInv
<1>2. \A u \in Tails \ {t} : TailOK(u)'
  <2> SUFFICES ASSUME NEW u \in Tails \ {t} PROVE TailOK(u)'
    OBVIOUS
  <2>1. Sent(u)' = Sent(u)
    BY <1>1 DEF Sent
  <2>2. TailOK(u)
    BY DEF LogInv
  <2>3. QED
    BY <1>1, <2>1, <2>2 DEF TailOK
<1>3. LogsOK'
  BY DEF LogInv, LogsOK
<1>4. QED
  BY <1>1, <1>2, <1>3 DEF LogInv

\* The slots are as many as there are handlers that took one.
LEMMA SlotsStay ==
    ASSUME LogInv, NEW t \in Tails, NEW v, tail' = [tail EXCEPT ![t] = v], UNCHANGED active,
           v.pc \in {"none", "acquire"} <=> tail[t].pc \in {"none", "acquire"}
    PROVE  SlotsOK'
<1>1. tail'[t] = v /\ \A u \in Tails \ {t} : tail'[u] = tail[u]
  BY DEF LogInv
<1>2. Holders' = Holders
  BY <1>1 DEF Holders, Streams
<1>3. QED
  BY <1>2 DEF LogInv, SlotsOK

LEMMA SlotTaken ==
    ASSUME LogInv, NEW t \in Tails, NEW v, tail' = [tail EXCEPT ![t] = v], active' = active + 1,
           active < MaxTails, tail[t].pc = "acquire", v.pc \notin {"none", "acquire"}
    PROVE  SlotsOK'
<1>1. tail'[t] = v /\ \A u \in Tails \ {t} : tail'[u] = tail[u]
  BY DEF LogInv
<1>2. Holders' = Holders \cup {t} /\ t \notin Holders
  BY <1>1 DEF Holders, Streams
<1>3. /\ active \in 0..MaxTails /\ IsFiniteSet(Holders) /\ active = Cardinality(Holders)
      /\ MaxTails \in Nat
  BY LogBounds DEF LogInv, SlotsOK
<1>4. IsFiniteSet(Holders') /\ Cardinality(Holders') = active + 1
  BY <1>2, <1>3, FS_AddElement
<1>5. QED
  BY <1>3, <1>4 DEF SlotsOK

LEMMA SlotGiven ==
    ASSUME LogInv, NEW t \in Tails, NEW v, tail' = [tail EXCEPT ![t] = v], active' = active - 1,
           tail[t].pc \notin {"none", "acquire"}, v.pc = "none"
    PROVE  SlotsOK'
<1>1. tail'[t] = v /\ \A u \in Tails \ {t} : tail'[u] = tail[u]
  BY DEF LogInv
<1>2. Holders' = Holders \ {t} /\ t \in Holders
  BY <1>1 DEF Holders, Streams
<1>3. /\ active \in 0..MaxTails /\ IsFiniteSet(Holders) /\ active = Cardinality(Holders)
      /\ MaxTails \in Nat
  BY LogBounds DEF LogInv, SlotsOK
<1>4. IsFiniteSet(Holders') /\ Cardinality(Holders') = active - 1
  BY <1>2, <1>3, FS_RemoveElement
<1>5. Cardinality(Holders') \in Nat
  BY <1>4, FS_CardinalityType
<1>6. QED
  BY <1>3, <1>4, <1>5 DEF SlotsOK

\* A handler that reads nothing, or no longer.
LEMMA RestsOK ==
    ASSUME LogInv, NEW t \in Tails, UNCHANGED <<logs, pieces>>,
           NEW v, tail' = [tail EXCEPT ![t] = v],
           got'[t] \in {got[t], <<>>}, v.sending \in {tail[t].sending, <<>>},
           v.pc \notin {"follow", "send", "end"}, v.pc # "none" => v.fd \in Logs
    PROVE  TailOK(t)'
<1>1. tail'[t] = v
  BY DEF LogInv
<1>2. TailOK(t)
  BY DEF LogInv
<1>3. Rising(got'[t]) /\ Rising(v.sending)
  BY <1>2, EmptyPieces DEF TailOK
<1>4. \A w \in Sent(t)' : w \in Sent(t)
  BY <1>1, EmptyPieces, SentIs, SentIsNext
<1>5. QED
  BY <1>1, <1>2, <1>3, <1>4 DEF TailOK

LEMMA AppendKeeps ==
    ASSUME LogInv, AppendLog
    PROVE  LogInv'
<1>1. /\ LogsOK /\ SlotsOK /\ tail \in [Tails -> Handlers] /\ got \in [Tails -> Pieces]
      /\ \A t \in Tails : TailOK(t)
      /\ pieces < MaxPieces /\ pieces' = pieces + 1 /\ UNCHANGED <<named, active, tail, got>>
      /\ logs' = [logs EXCEPT ![named] = Append(@, pieces + 1)]
  BY DEF LogInv, AppendLog
<1>2. /\ logs[named] \in Pieces /\ named \in Logs /\ pieces \in Nat /\ MaxPieces \in Nat
      /\ pieces + 1 \in 1..MaxPieces /\ Len(logs[named]) \in Nat
  BY <1>1, LogBounds DEF LogsOK, Pieces
<1> DEFINE s == Append(logs[named], pieces + 1)
<1>3. /\ s \in Pieces /\ Len(s) = Len(logs[named]) + 1 /\ s[Len(s)] = pieces + 1
      /\ \A i \in 1..Len(logs[named]) : s[i] = logs[named][i]
  BY <1>2 DEF Pieces
<1>4. logs' = [logs EXCEPT ![named] = s]
  BY <1>1
<1> HIDE DEF s
<1>5. /\ logs' \in [Logs -> Pieces] /\ logs'[named] = s
      /\ \A f \in Logs \ {named} : logs'[f] = logs[f]
  BY <1>1, <1>3, <1>4 DEF LogsOK
<1>6. \A i \in 1..Len(s) : i \in 1..Len(logs[named]) \/ i = Len(s)
  BY <1>2, <1>3
<1>7. LogsOK'
  <2>1. ASSUME NEW f \in Logs
        PROVE  /\ Rising(logs'[f]) /\ Len(logs'[f]) <= pieces'
               /\ \A i \in 1..Len(logs'[f]) : logs'[f][i] <= pieces'
    <3>1. /\ Rising(logs[f]) /\ Len(logs[f]) <= pieces /\ logs[f] \in Pieces
          /\ \A i \in 1..Len(logs[f]) : logs[f][i] <= pieces /\ logs[f][i] \in Nat
      BY <1>1, <1>2 DEF LogsOK, Pieces
    <3>2. CASE f # named
      <4>1. Len(logs[f]) \in Nat
        BY <3>1 DEF Pieces
      <4>2. QED
        BY <1>1, <1>2, <1>5, <3>1, <3>2, <4>1
    <3>3. CASE f = named
      <4>1. \A i \in 1..Len(s) : s[i] <= pieces + 1 /\ s[i] \in Nat
        BY <1>2, <1>3, <1>6, <3>1, <3>3
      <4>2. Rising(s)
        <5> SUFFICES ASSUME NEW i \in 1..Len(s), NEW j \in 1..Len(s), i < j PROVE s[i] < s[j]
          BY DEF Rising
        <5>1. i \in 1..Len(logs[named])
          BY <1>2, <1>3
        <5>2. CASE j = Len(s)
          BY <1>2, <1>3, <3>1, <3>3, <5>1, <5>2
        <5>3. CASE j \in 1..Len(logs[named])
          BY <1>3, <3>1, <3>3, <5>1, <5>3 DEF Rising
        <5>4. QED
          BY <1>6, <5>2, <5>3
      <4>3. Len(s) <= pieces + 1
        BY <1>2, <1>3, <3>1, <3>3
      <4>4. QED
        BY <1>1, <1>5, <3>3, <4>1, <4>2, <4>3
    <3>4. QED
      BY <3>2, <3>3
  <2>2. pieces' \in 0..MaxPieces /\ named' \in Logs
    BY <1>1, <1>2
  <2>3. QED
    BY <1>5, <2>1, <2>2 DEF LogsOK
<1>8. ASSUME NEW t \in Tails PROVE TailOK(t)'
  <2>1. Sent(t)' = Sent(t) /\ TailOK(t) /\ tail'[t] = tail[t] /\ got'[t] = got[t]
    BY <1>1 DEF Sent
  <2>2. Sent(t) \subseteq Nat /\ \A v \in Sent(t) : v <= pieces
    <3>1. got[t] \in Pieces /\ tail[t].sending \in Pieces
      BY <1>1, HandlerFields
    <3>2. /\ \A i \in 1..Len(got[t]) : got[t][i] \in Nat
          /\ \A i \in 1..Len(tail[t].sending) : tail[t].sending[i] \in Nat
      BY <3>1, PieceFacts
    <3>3. Sent(t) \subseteq Nat
      BY <3>2 DEF Sent
    <3>4. QED
      BY <2>1, <3>3 DEF TailOK
  <2>3. \A v \in Sent(t) : v < pieces + 1 /\ v <= pieces'
    BY <1>1, <1>2, <2>2
  <2>4. ASSUME tail[t].pc \in {"follow", "send", "end"},
               NEW i \in 1..Len(logs'[tail[t].fd]),
               i > tail[t].pos \/ Len(logs'[tail[t].fd]) < tail[t].pos,
               NEW v \in Sent(t)
        PROVE  v < logs'[tail[t].fd][i]
    <3>1. tail[t].fd \in Logs /\ tail[t].pos \in Nat
      BY <1>1, <2>1, <2>4, <1>2, HandlerFields DEF TailOK
    <3>2. CASE tail[t].fd # named
      BY <1>5, <2>1, <2>4, <3>1, <3>2 DEF TailOK
    <3>3. CASE tail[t].fd = named /\ i = Len(s)
      BY <1>3, <1>5, <2>3, <3>3
    <3>4. CASE tail[t].fd = named /\ i # Len(s)
      <4>1. i \in 1..Len(logs[named]) /\ logs'[named][i] = logs[named][i]
        BY <1>3, <1>5, <1>6, <2>4, <3>4
      <4>2. i > tail[t].pos \/ Len(logs[named]) < tail[t].pos
        BY <1>2, <1>3, <1>5, <2>4, <3>1, <3>4
      <4>3. QED
        BY <2>1, <2>4, <3>4, <4>1, <4>2 DEF TailOK
    <3>5. QED
      BY <3>2, <3>3, <3>4
  <2>5. QED
    BY <2>1, <2>3, <2>4 DEF TailOK
<1>9. SlotsOK'
  BY <1>1 DEF SlotsOK, Holders, Streams
<1>10. QED
  BY <1>1, <1>7, <1>8, <1>9 DEF LogInv

\* The file at the name is emptied, or becomes another that nobody reads.
LEMMA EmptyKeeps ==
    ASSUME LogInv, EmptyLog \/ ReplaceLog
    PROVE  LogInv'
<1>1. /\ LogsOK /\ SlotsOK /\ tail \in [Tails -> Handlers] /\ got \in [Tails -> Pieces]
      /\ \A t \in Tails : TailOK(t)
      /\ UNCHANGED <<pieces, active, tail, got>>
  BY DEF LogInv, EmptyLog, ReplaceLog
<1>2. PICK f \in Logs : logs' = [logs EXCEPT ![f] = <<>>] /\ named' \in Logs
  BY <1>1 DEF EmptyLog, ReplaceLog, LogsOK
<1>3. /\ logs' \in [Logs -> Pieces] /\ logs'[f] = <<>>
      /\ \A g \in Logs \ {f} : logs'[g] = logs[g]
  BY <1>1, <1>2, EmptyPieces DEF LogsOK
<1>4. pieces \in Nat
  BY <1>1, LogBounds DEF LogsOK
<1>5. LogsOK'
  <2>1. ASSUME NEW g \in Logs
        PROVE  /\ Rising(logs'[g]) /\ Len(logs'[g]) <= pieces
               /\ \A i \in 1..Len(logs'[g]) : logs'[g][i] <= pieces
    <3>1. CASE g = f
      BY <1>3, <1>4, <3>1, EmptyPieces
    <3>2. CASE g # f
      BY <1>1, <1>3, <3>2 DEF LogsOK
    <3>3. QED
      BY <3>1, <3>2
  <2>2. QED
    BY <1>1, <1>2, <1>3, <2>1 DEF LogsOK
<1>6. ASSUME NEW t \in Tails PROVE TailOK(t)'
  <2>1. Sent(t)' = Sent(t) /\ TailOK(t) /\ tail'[t] = tail[t] /\ got'[t] = got[t]
    BY <1>1 DEF Sent
  <2>2. ASSUME tail[t].pc \in {"follow", "send", "end"},
               NEW i \in 1..Len(logs'[tail[t].fd]),
               i > tail[t].pos \/ Len(logs'[tail[t].fd]) < tail[t].pos,
               NEW v \in Sent(t)
        PROVE  v < logs'[tail[t].fd][i]
    <3>1. tail[t].fd \in Logs
      BY <2>1, <2>2 DEF TailOK
    <3>2. tail[t].fd # f
      BY <1>3, <2>2, EmptyPieces
    <3>3. QED
      BY <1>3, <2>1, <2>2, <3>1, <3>2 DEF TailOK
  <2>3. QED
    BY <1>1, <2>1, <2>2 DEF TailOK
<1>7. SlotsOK'
  BY <1>1 DEF SlotsOK, Holders, Streams
<1>8. QED
  BY <1>1, <1>5, <1>6, <1>7 DEF LogInv

LEMMA OpenLogKeeps ==
    ASSUME LogInv, NEW t \in Tails, OpenLog(t)
    PROVE  LogInv'
<1> DEFINE v == [NoTail EXCEPT !.pc = "acquire", !.fd = named]
<1>1. /\ tail' = [tail EXCEPT ![t] = v] /\ got' = [got EXCEPT ![t] = <<>>]
      /\ UNCHANGED <<logs, named, pieces, active>> /\ tail[t].pc = "none"
      /\ named \in Logs /\ got \in [Tails -> Pieces]
  BY DEF OpenLog, LogInv, LogsOK
<1>2. v \in Handlers /\ v.pc = "acquire" /\ v.fd \in Logs /\ v.sending = <<>>
  BY <1>1, NoTailFacts DEF Handlers, TailStages
<1> HIDE DEF v
<1>3. /\ got' \in [Tails -> Pieces] /\ got'[t] = <<>>
      /\ \A u \in Tails \ {t} : got'[u] = got[u]
  BY <1>1, EmptyPieces
<1>4. TailOK(t)'
  BY <1>1, <1>2, <1>3, RestsOK
<1>5. SlotsOK'
  BY <1>1, <1>2, SlotsStay
<1>6. QED
  BY <1>1, <1>2, <1>3, <1>4, <1>5, TailKeeps

\* A handler that ends, and gives back the slot it has, if any.
LEMMA EndKeeps ==
    ASSUME LogInv, NEW t \in Tails, tail' = [tail EXCEPT ![t] = NoTail],
           UNCHANGED <<logs, named, pieces, got>>,
           \/ tail[t].pc = "acquire" /\ UNCHANGED active
           \/ tail[t].pc \notin {"none", "acquire"} /\ active' = active - 1
    PROVE  LogInv'
<1>1. NoTail \in Handlers /\ NoTail.pc = "none" /\ NoTail.sending = <<>>
  BY NoTailFacts
<1>2. got' \in [Tails -> Pieces] /\ got'[t] = got[t] /\ \A u \in Tails : got'[u] = got[u]
  BY DEF LogInv
<1>3. TailOK(t)'
  BY <1>1, <1>2, RestsOK
<1>4. SlotsOK'
  BY <1>1, SlotsStay, SlotGiven
<1>5. QED
  BY <1>1, <1>2, <1>3, <1>4, TailKeeps

LEMMA AcquireKeeps ==
    ASSUME LogInv, NEW t \in Tails, Acquire(t)
    PROVE  LogInv'
<1>1. /\ tail[t].pc = "acquire" /\ UNCHANGED <<logs, named, pieces, got>>
      /\ tail \in [Tails -> Handlers] /\ got \in [Tails -> Pieces] /\ TailOK(t)
  BY DEF Acquire, LogInv
<1>2. CASE active < MaxTails
  <2> DEFINE v == [tail[t] EXCEPT !.pc = "recent"]
  <2>1. tail' = [tail EXCEPT ![t] = v] /\ active' = active + 1
    BY <1>2 DEF Acquire, TailGoes
  <2>2. v \in Handlers /\ v.pc = "recent" /\ v.fd = tail[t].fd /\ v.sending = tail[t].sending
    BY <1>1 DEF Handlers, TailStages
  <2> HIDE DEF v
  <2>3. v.fd \in Logs
    BY <1>1, <2>2 DEF TailOK
  <2>4. TailOK(t)'
    BY <1>1, <2>1, <2>2, <2>3, RestsOK
  <2>5. SlotsOK'
    BY <1>1, <1>2, <2>1, <2>2, SlotTaken
  <2>6. QED
    BY <1>1, <2>1, <2>2, <2>4, <2>5, TailKeeps
<1>3. CASE ~(active < MaxTails)
  BY <1>1, <1>3, EndKeeps DEF Acquire
<1>4. QED
  BY <1>2, <1>3

\* The recent lines are a part of the log, in its order.
LEMMA RecentKeeps ==
    ASSUME LogInv, NEW t \in Tails, Recent(t)
    PROVE  LogInv'
<1>1. /\ tail[t].pc = "recent" /\ UNCHANGED <<logs, named, pieces, active, got>>
      /\ tail \in [Tails -> Handlers] /\ got \in [Tails -> Pieces] /\ TailOK(t) /\ LogsOK
  BY DEF Recent, LogInv
<1> DEFINE f == tail[t].fd
           k == Len(logs[f])
           from == IF k > Window THEN k - Window + 1 ELSE 1
           s == SubSeq(logs[f], from, k)
           v == [tail[t] EXCEPT !.pc = "first", !.sending = s]
<1>2. f \in Logs
  BY <1>1 DEF TailOK
<1>3. logs[f] \in Pieces /\ k \in Nat /\ Rising(logs[f]) /\ (\A i \in 1..k : logs[f][i] <= pieces)
      /\ Window \in Nat
  BY <1>1, <1>2, LogTailAssumption DEF LogsOK, Pieces
<1>4. tail' = [tail EXCEPT ![t] = v]
  BY DEF Recent, Size
<1> HIDE DEF f
<1>5. from \in Nat /\ from >= 1 /\ from <= k + 1
  BY <1>3
<1>6. k \in Nat /\ \A i \in 1..Len(logs[f]) : logs[f][i] \in 1..MaxPieces
  BY <1>3, PieceFacts
<1> HIDE DEF k, from
<1>7. /\ s \in Pieces /\ Len(s) = k - from + 1
      /\ \A i \in 1..Len(s) : i + from - 1 \in 1..k /\ s[i] = logs[f][i + from - 1]
  <2>1. logs[f] \in Seq(1..MaxPieces) /\ k = Len(logs[f])
    BY <1>3 DEF Pieces, k
  <2>2. s \in Seq(1..MaxPieces) /\ Len(s) = k - from + 1
    BY <1>5, <1>6, <2>1, SubSeqProperties
  <2>3. \A i \in 1..Len(s) : s[i] = logs[f][i + from - 1]
    BY <1>5, <1>6, <2>1, <2>2, SubSeqProperties
  <2>4. QED
    BY <1>5, <1>6, <2>2, <2>3 DEF Pieces
<1>8. /\ v \in Handlers /\ v.pc = "first" /\ v.fd = tail[t].fd /\ v.sending = s
  <2> HIDE DEF s
  <2>1. QED
    BY <1>1, <1>7 DEF Handlers, TailStages
<1> HIDE DEF v, s
<1>9. Rising(s) /\ \A i \in 1..Len(s) : s[i] <= pieces
  <2>1. ASSUME NEW i \in 1..Len(s), NEW j \in 1..Len(s), i < j PROVE s[i] < s[j]
    <3>1. /\ i + from - 1 \in 1..k /\ s[i] = logs[f][i + from - 1]
          /\ j + from - 1 \in 1..k /\ s[j] = logs[f][j + from - 1]
      BY <1>7
    <3>2. i + from - 1 < j + from - 1
      BY <1>5, <1>6, <1>7, <2>1
    <3>3. \A l, m \in 1..k : l < m => logs[f][l] < logs[f][m]
      BY <1>3 DEF Rising, k
    <3>4. QED
      BY <3>1, <3>2, <3>3
  <2>2. QED
    BY <1>3, <1>7, <2>1 DEF Rising, k
<1>10. TailOK(t)'
  <2>1. tail'[t] = v /\ got'[t] = got[t]
    BY <1>1, <1>4
  <2>2. \A w \in Sent(t)' : w \in Sent(t) \/ \E i \in 1..Len(s) : w = s[i]
    BY <1>8, <2>1, SentIs, SentIsNext
  <2>3. \A w \in Sent(t)' : w <= pieces
    BY <1>1, <1>9, <2>2 DEF TailOK
  <2>4. QED
    BY <1>1, <1>2, <1>8, <1>9, <2>1, <2>3 DEF TailOK, f
<1>11. SlotsOK'
  BY <1>1, <1>4, <1>8, SlotsStay
<1>12. QED
  BY <1>1, <1>4, <1>8, <1>10, <1>11, TailKeeps

\* The stream goes on at the end of the file.
LEMMA FollowKeeps ==
    ASSUME LogInv, NEW t \in Tails, Follow(t)
    PROVE  LogInv'
<1>1. /\ tail[t].pc = "first" /\ UNCHANGED <<logs, named, pieces, active>>
      /\ tail \in [Tails -> Handlers] /\ got \in [Tails -> Pieces] /\ TailOK(t) /\ LogsOK
      /\ got' = [got EXCEPT ![t] = tail[t].sending]
  BY DEF Follow, LogInv
<1> DEFINE k == Len(logs[tail[t].fd])
           v == [tail[t] EXCEPT !.pc = "follow", !.sending = <<>>, !.pos = k, !.offset = k]
<1>2. tail' = [tail EXCEPT ![t] = v]
  BY DEF Follow, Size
<1>3. tail[t].fd \in Logs /\ k \in 0..MaxPieces
  <2>1. tail[t].fd \in Logs
    BY <1>1 DEF TailOK
  <2>2. logs[tail[t].fd] \in Pieces /\ k <= pieces /\ pieces \in 0..MaxPieces
    BY <1>1, <2>1 DEF LogsOK
  <2>3. k \in Nat
    BY <2>2 DEF Pieces
  <2> HIDE DEF k
  <2>4. QED
    BY <2>1, <2>2, <2>3, LogBounds
<1>4. /\ v \in Handlers /\ v.pc = "follow" /\ v.fd = tail[t].fd /\ v.sending = <<>>
      /\ v.pos = k /\ v.offset = k
  <2> HIDE DEF k
  <2>1. QED
    BY <1>1, <1>3, EmptyPieces DEF Handlers, TailStages
<1> HIDE DEF v
<1>5. tail[t].sending \in Pieces
  BY <1>1, HandlerFields
<1>6. /\ got' \in [Tails -> Pieces] /\ got'[t] = tail[t].sending /\ tail'[t] = v
      /\ \A u \in Tails \ {t} : got'[u] = got[u]
  BY <1>1, <1>2, <1>5
<1>7. \A w \in Sent(t)' : w \in Sent(t)
  BY <1>4, <1>6, EmptyPieces, SentIs, SentIsNext
<1>8. \A i \in 1..k : ~(i > k \/ k < k)
  <2>1. k \in Nat
    BY <1>3, LogBounds
  <2> HIDE DEF k
  <2>2. QED
    BY <2>1
<1>9. TailOK(t)'
  BY <1>1, <1>3, <1>4, <1>6, <1>7, <1>8, EmptyPieces DEF TailOK
<1>10. SlotsOK'
  BY <1>1, <1>2, <1>4, SlotsStay
<1>11. QED
  BY <1>1, <1>2, <1>4, <1>6, <1>9, <1>10, TailKeeps

\* The next piece of the file comes after all that was sent of it.
LEMMA ReadPieceKeeps ==
    ASSUME LogInv, NEW t \in Tails, ReadPiece(t)
    PROVE  LogInv'
<1>1. /\ tail[t].pc = "follow" /\ UNCHANGED <<logs, named, pieces, active, got>>
      /\ tail \in [Tails -> Handlers] /\ got \in [Tails -> Pieces] /\ TailOK(t) /\ LogsOK
      /\ tail[t].fd \in Logs /\ tail[t].offset = tail[t].pos /\ tail[t].sending = <<>>
  BY DEF ReadPiece, LogInv, TailOK
<1> DEFINE f == tail[t].fd
           k == tail[t].pos
<1>2. /\ logs[f] \in Pieces /\ Rising(logs[f]) /\ Len(logs[f]) <= pieces /\ Len(logs[f]) \in Nat
      /\ \A i \in 1..Len(logs[f]) : logs[f][i] <= pieces /\ logs[f][i] \in 1..MaxPieces
      /\ pieces \in 0..MaxPieces /\ k \in 0..MaxPieces /\ MaxPieces \in Nat
  BY <1>1, PieceFacts, HandlerFields, LogBounds DEF LogsOK
<1>3. CASE /\ k < Len(logs[f])
           /\ tail' = [tail EXCEPT ![t].pc = "send", ![t].sending = <<logs[f][k + 1]>>,
                                   ![t].pos = @ + 1, ![t].offset = @ + 1]
  <2> DEFINE p == logs[f][k + 1]
             v == [tail[t] EXCEPT !.pc = "send", !.sending = <<p>>, !.pos = k + 1, !.offset = k + 1]
  <2>1. tail' = [tail EXCEPT ![t] = v]
    BY <1>1, <1>3
  <2>2. k + 1 \in 1..Len(logs[f]) /\ k + 1 \in 0..MaxPieces
    BY <1>2, <1>3
  <2>3. p \in 1..MaxPieces /\ p <= pieces /\ p \in Nat
    BY <1>2, <2>2
  <2> HIDE DEF p
  <2>4. <<p>> \in Pieces /\ Len(<<p>>) = 1 /\ <<p>>[1] = p
    BY <2>3 DEF Pieces
  <2> DEFINE one == <<p>>
  <2>5. v = [tail[t] EXCEPT !.pc = "send", !.sending = one, !.pos = k + 1, !.offset = k + 1]
    OBVIOUS
  <2>6. one \in Pieces /\ Len(one) = 1 /\ one[1] = p
    BY <2>4
  <2> HIDE DEF v, one
  <2>7. /\ v \in Handlers /\ v.pc = "send" /\ v.fd = f /\ v.sending = one
        /\ v.pos = k + 1 /\ v.offset = k + 1
    BY <1>1, <2>2, <2>5, <2>6 DEF Handlers, TailStages
  <2>8. tail'[t] = v /\ got'[t] = got[t]
    BY <1>1, <2>1
  <2>9. \A w \in Sent(t)' : w \in Sent(t) \/ w = p
    BY <2>6, <2>7, <2>8, SentIs, SentIsNext
  <2>10. \A w \in Sent(t) : w < p
    BY <1>1, <1>2, <2>2 DEF TailOK, p
  <2>11. \A i \in 1..Len(got[t]) : got[t][i] < p
    BY <2>10, SentIs
  <2>12. Rising(one)
    BY <2>6 DEF Rising
  <2>13. ASSUME NEW i \in 1..Len(logs[f]), i > k + 1 \/ Len(logs[f]) < k + 1, NEW w \in Sent(t)'
         PROVE  w < logs[f][i]
    <3>1. i > k + 1 /\ i > k
      BY <1>2, <2>2, <2>13
    <3>2. p < logs[f][i]
      BY <1>2, <2>2, <2>13, <3>1 DEF Rising, p
    <3>3. \A u \in Sent(t) : u < logs[f][i]
      BY <1>1, <2>13, <3>1 DEF TailOK
    <3>4. QED
      BY <2>9, <2>13, <3>2, <3>3
  <2>14. TailOK(t)'
    <3>1. \A w \in Sent(t)' : w <= pieces
      BY <1>1, <2>3, <2>9 DEF TailOK
    <3>2. Rising(got[t])
      BY <1>1 DEF TailOK
    <3>3. QED
      BY <1>1, <2>6, <2>7, <2>8, <2>11, <2>12, <2>13, <3>1, <3>2 DEF TailOK
  <2>15. SlotsOK'
    BY <1>1, <2>1, <2>7, SlotsStay
  <2>16. QED
    BY <1>1, <2>1, <2>7, <2>14, <2>15, TailKeeps
<1>4. ASSUME NEW pc \in {"end", "release"}, TailGoes(t, pc) PROVE LogInv'
  <2> DEFINE v == [tail[t] EXCEPT !.pc = pc]
  <2>1. tail' = [tail EXCEPT ![t] = v]
    BY <1>4 DEF TailGoes
  <2>2. /\ v \in Handlers /\ v.pc = pc /\ v.fd = f /\ v.sending = tail[t].sending
        /\ v.pos = tail[t].pos /\ v.offset = tail[t].offset
    BY <1>1 DEF Handlers, TailStages
  <2> HIDE DEF v
  <2>3. tail'[t] = v /\ got'[t] = got[t]
    BY <1>1, <2>1
  <2>4. Sent(t)' = Sent(t)
    BY <2>2, <2>3 DEF Sent
  <2>5. TailOK(t)'
    BY <1>1, <2>2, <2>3, <2>4 DEF TailOK
  <2>6. SlotsOK'
    BY <1>1, <2>1, <2>2, SlotsStay
  <2>7. QED
    BY <1>1, <2>1, <2>2, <2>5, <2>6, TailKeeps
<1>5. QED
  BY <1>3, <1>4 DEF ReadPiece, Size

LEMMA SendPieceKeeps ==
    ASSUME LogInv, NEW t \in Tails, SendPiece(t)
    PROVE  LogInv'
<1>1. /\ tail[t].pc = "send" /\ UNCHANGED <<logs, named, pieces, active>>
      /\ tail \in [Tails -> Handlers] /\ got \in [Tails -> Pieces] /\ TailOK(t) /\ LogsOK
      /\ tail[t].fd \in Logs /\ Len(tail[t].sending) = 1 /\ tail[t].sending \in Pieces
      /\ got[t] \in Pieces
  BY HandlerFields DEF SendPiece, LogInv, TailOK
<1>2. CASE /\ got' = [got EXCEPT ![t] = @ \o tail[t].sending]
           /\ tail' = [tail EXCEPT ![t].pc = "follow", ![t].sending = <<>>, ![t].idle = FALSE]
  <2> DEFINE v == [tail[t] EXCEPT !.pc = "follow", !.sending = <<>>, !.idle = FALSE]
             s == got[t] \o tail[t].sending
             k == Len(got[t])
             p == tail[t].sending[1]
  <2>1. tail' = [tail EXCEPT ![t] = v] /\ got' = [got EXCEPT ![t] = s]
    BY <1>2
  <2>2. /\ v \in Handlers /\ v.pc = "follow" /\ v.fd = tail[t].fd /\ v.sending = <<>>
        /\ v.pos = tail[t].pos /\ v.offset = tail[t].offset
    BY <1>1, EmptyPieces DEF Handlers, TailStages
  <2>3. s \in Pieces /\ Len(s) = k + 1 /\ k \in Nat
        /\ (\A i \in 1..k : s[i] = got[t][i]) /\ s[k + 1] = p
    <3>1. got[t] \in Seq(1..MaxPieces) /\ tail[t].sending \in Seq(1..MaxPieces)
      BY <1>1 DEF Pieces
    <3>2. s \in Seq(1..MaxPieces)
      BY <3>1, ConcatProperties
    <3>3. Len(s) = k + 1 /\ k \in Nat
      <4>1. Len(s) = Len(got[t]) + Len(tail[t].sending)
        BY <3>1, ConcatProperties
      <4>2. k \in Nat
        BY <1>1, PieceFacts
      <4> HIDE DEF s
      <4>3. QED
        BY <1>1, <4>1, <4>2
    <3>4. \A i \in 1..k + 1 : s[i] = IF i <= k THEN got[t][i] ELSE tail[t].sending[i - k]
      BY <1>1, <3>1, <3>3, ConcatProperties
    <3> HIDE DEF s, k
    <3>5. (\A i \in 1..k : i \in 1..k + 1 /\ i <= k) /\ k + 1 \in 1..k + 1 /\ ~(k + 1 <= k)
          /\ k + 1 - k = 1
      BY <3>3
    <3>6. QED
      BY <3>2, <3>3, <3>4, <3>5 DEF Pieces
  <2>4. Rising(got[t]) /\ \A i \in 1..k : got[t][i] < p
    BY <1>1 DEF TailOK
  <2> HIDE DEF v, s
  <2>5. Rising(s)
    <3>1. \A i, j \in 1..k : i < j => s[i] < s[j]
      BY <2>3, <2>4 DEF Rising
    <3>2. \A i \in 1..k : s[i] < s[k + 1]
      BY <2>3, <2>4
    <3> HIDE DEF k, p
    <3>3. \A i \in 1..k + 1 : i \in 1..k \/ i = k + 1
      BY <2>3
    <3>4. QED
      BY <2>3, <3>1, <3>2, <3>3 DEF Rising
  <2>6. /\ got' \in [Tails -> Pieces] /\ got'[t] = s /\ tail'[t] = v
        /\ \A u \in Tails \ {t} : got'[u] = got[u]
    BY <1>1, <2>1, <2>3
  <2>7. ASSUME NEW w \in Sent(t)' PROVE w \in Sent(t)
    <3>1. PICK i \in 1..Len(s) : w = s[i]
      BY <2>2, <2>6, <2>7, SentIsNext, EmptyPieces
    <3>2. CASE i \in 1..k
      BY <2>3, <3>1, <3>2, SentIs
    <3>3. CASE i = k + 1
      <4>1. w = tail[t].sending[1] /\ 1 \in 1..Len(tail[t].sending)
        BY <1>1, <2>3, <3>1, <3>3
      <4>2. QED
        BY <4>1, SentIs
    <3> HIDE DEF k, p
    <3>4. i \in 1..k \/ i = k + 1
      BY <2>3, <3>1
    <3>5. QED
      BY <3>2, <3>3, <3>4 DEF k
  <2>8. TailOK(t)'
    BY <1>1, <2>2, <2>5, <2>6, <2>7, EmptyPieces DEF TailOK
  <2>9. SlotsOK'
    BY <1>1, <2>1, <2>2, SlotsStay
  <2>10. QED
    BY <1>1, <2>1, <2>2, <2>6, <2>8, <2>9, TailKeeps
<1>3. CASE tail' = [tail EXCEPT ![t].pc = "release", ![t].sending = <<>>] /\ UNCHANGED got
  <2> DEFINE v == [tail[t] EXCEPT !.pc = "release", !.sending = <<>>]
  <2>1. tail' = [tail EXCEPT ![t] = v]
    BY <1>3
  <2>2. v \in Handlers /\ v.pc = "release" /\ v.fd = tail[t].fd /\ v.sending = <<>>
    BY <1>1, EmptyPieces DEF Handlers, TailStages
  <2> HIDE DEF v
  <2>3. TailOK(t)'
    BY <1>1, <1>3, <2>1, <2>2, RestsOK
  <2>4. SlotsOK'
    BY <1>1, <2>1, <2>2, SlotsStay
  <2>5. QED
    BY <1>1, <1>3, <2>1, <2>2, <2>3, <2>4, TailKeeps
<1>4. QED
  BY <1>2, <1>3 DEF SendPiece

LEMMA TimeKeeps ==
    ASSUME LogInv, NEW t \in Tails, TimePasses(t)
    PROVE  LogInv'
<1>1. /\ tail[t].pc \in {"follow", "send", "end"}
      /\ UNCHANGED <<logs, named, pieces, active, got>>
      /\ tail \in [Tails -> Handlers] /\ got \in [Tails -> Pieces] /\ TailOK(t)
  BY DEF TimePasses, LogInv
<1>2. PICK v \in {[tail[t] EXCEPT !.idle = TRUE], [tail[t] EXCEPT !.idle = TRUE, !.late = TRUE]} :
         tail' = [tail EXCEPT ![t] = v]
  BY DEF TimePasses
<1>3. /\ v \in Handlers /\ v.pc = tail[t].pc /\ v.fd = tail[t].fd /\ v.sending = tail[t].sending
      /\ v.pos = tail[t].pos /\ v.offset = tail[t].offset
  BY <1>1, <1>2 DEF Handlers
<1>4. tail'[t] = v /\ got'[t] = got[t]
  BY <1>1, <1>2
<1>5. Sent(t)' = Sent(t)
  BY <1>3, <1>4 DEF Sent
<1>6. TailOK(t)'
  BY <1>1, <1>3, <1>4, <1>5 DEF TailOK
<1>7. SlotsOK'
  BY <1>1, <1>2, <1>3, SlotsStay
<1>8. QED
  BY <1>1, <1>2, <1>3, <1>6, <1>7, TailKeeps

\* A file that has become shorter holds nothing that was sent.
LEMMA AtEndKeeps ==
    ASSUME LogInv, NEW t \in Tails, AtEnd(t)
    PROVE  LogInv'
<1>1. /\ tail[t].pc = "end" /\ UNCHANGED <<logs, named, pieces, active, got>>
      /\ tail \in [Tails -> Handlers] /\ got \in [Tails -> Pieces] /\ TailOK(t)
      /\ tail[t].fd \in Logs /\ tail[t].offset = tail[t].pos /\ tail[t].sending = <<>>
      /\ LogsOK /\ 0 \in 0..MaxPieces
  BY LogBounds DEF AtEnd, LogInv, TailOK
<1>2. PICK v \in Handlers :
         /\ tail' = [tail EXCEPT ![t] = v] /\ v.pc \in {"follow", "release"}
         /\ v.fd = tail[t].fd /\ v.sending = <<>> /\ v.offset = v.pos
         /\ v.pos = tail[t].pos \/ (v.pos = 0 /\ Len(logs[v.fd]) < tail[t].pos)
  <2>1. ASSUME NEW pc \in {"follow", "release"}, TailGoes(t, pc)
        PROVE  \E v \in Handlers :
                  /\ tail' = [tail EXCEPT ![t] = v] /\ v.pc = pc /\ v.fd = tail[t].fd
                  /\ v.sending = <<>> /\ v.offset = v.pos /\ v.pos = tail[t].pos
    <3> DEFINE v == [tail[t] EXCEPT !.pc = pc]
    <3>1. tail' = [tail EXCEPT ![t] = v]
      BY <2>1 DEF TailGoes
    <3>2. /\ v \in Handlers /\ v.pc = pc /\ v.fd = tail[t].fd /\ v.sending = <<>>
          /\ v.offset = v.pos /\ v.pos = tail[t].pos
      BY <1>1 DEF Handlers, TailStages
    <3> HIDE DEF v
    <3>3. QED
      BY <3>1, <3>2
  <2>2. ASSUME tail' = [tail EXCEPT ![t].pc = "follow", ![t].pos = 0, ![t].offset = 0],
               Size(tail[t].fd) < tail[t].offset
        PROVE  \E v \in Handlers :
                  /\ tail' = [tail EXCEPT ![t] = v] /\ v.pc = "follow" /\ v.fd = tail[t].fd
                  /\ v.sending = <<>> /\ v.offset = v.pos /\ v.pos = 0
    <3> DEFINE v == [tail[t] EXCEPT !.pc = "follow", !.pos = 0, !.offset = 0]
    <3>1. tail' = [tail EXCEPT ![t] = v]
      BY <2>2
    <3>2. /\ v \in Handlers /\ v.pc = "follow" /\ v.fd = tail[t].fd /\ v.sending = <<>>
          /\ v.offset = v.pos /\ v.pos = 0
      BY <1>1 DEF Handlers, TailStages
    <3> HIDE DEF v
    <3>3. QED
      BY <3>1, <3>2
  <2>3. QED
    BY <1>1, <2>1, <2>2 DEF AtEnd, Size
<1>3. tail'[t] = v /\ got'[t] = got[t]
  BY <1>1, <1>2
<1>4. Sent(t)' = Sent(t)
  BY <1>1, <1>2, <1>3 DEF Sent
<1>5. Len(logs[v.fd]) \in Nat
  BY <1>1, <1>2, PieceFacts DEF LogsOK
<1>6. ASSUME NEW i \in 1..Len(logs[v.fd]), i > v.pos \/ Len(logs[v.fd]) < v.pos,
             NEW w \in Sent(t)
      PROVE  w < logs[v.fd][i]
  <2>1. i > tail[t].pos \/ Len(logs[v.fd]) < tail[t].pos
    BY <1>2, <1>5, <1>6
  <2>2. QED
    BY <1>1, <1>2, <1>6, <2>1 DEF TailOK
<1>7. TailOK(t)'
  BY <1>1, <1>2, <1>3, <1>4, <1>6 DEF TailOK
<1>8. SlotsOK'
  BY <1>1, <1>2, SlotsStay
<1>9. QED
  BY <1>1, <1>2, <1>7, <1>8, TailKeeps

LEMMA LogHolds == LogSpec => []LogInv
<1>1. LogInit => LogInv
  <2> SUFFICES ASSUME LogInit PROVE LogInv
    OBVIOUS
  <2>1. LogsOK
    BY LogBounds, EmptyPieces DEF LogInit, LogsOK
  <2>2. tail \in [Tails -> Handlers] /\ \A t \in Tails : tail[t] = NoTail
    BY NoTailFacts DEF LogInit
  <2>3. got \in [Tails -> Pieces] /\ \A t \in Tails : got[t] = <<>>
    BY EmptyPieces DEF LogInit
  <2>4. \A t \in Tails : TailOK(t)
    BY <2>2, <2>3, NoTailFacts, EmptyPieces DEF TailOK, Sent
  <2>5. SlotsOK
    <3>1. Holders = {}
      BY <2>2, NoTailFacts DEF Holders, Streams
    <3>2. QED
      BY <3>1, FS_EmptySet, LogBounds DEF SlotsOK, LogInit
  <2>6. QED
    BY <2>1, <2>2, <2>3, <2>4, <2>5 DEF LogInv
<1>2. LogInv /\ [LogNext]_logVars => LogInv'
  <2> SUFFICES ASSUME LogInv, [LogNext]_logVars PROVE LogInv'
    OBVIOUS
  <2>1. CASE UNCHANGED logVars
    <3>1. UNCHANGED <<logs, named, pieces, active, tail, got>>
      BY <2>1 DEF logVars
    <3>2. \A t \in Tails : TailOK(t)'
      <4> SUFFICES ASSUME NEW t \in Tails PROVE TailOK(t)'
        OBVIOUS
      <4>1. Sent(t)' = Sent(t)
        BY <3>1 DEF Sent
      <4>2. QED
        BY <3>1, <4>1 DEF LogInv, TailOK
    <3>3. QED
      BY <3>1, <3>2 DEF LogInv, LogsOK, SlotsOK, Holders, Streams
  <2>2. ASSUME NEW t \in Tails, GiveUp(t) \/ Release(t) PROVE LogInv'
    BY <2>2, EndKeeps DEF GiveUp, Release
  <2>3. CASE LogNext
    BY <2>2, <2>3, AppendKeeps, EmptyKeeps, OpenLogKeeps, AcquireKeeps, RecentKeeps, FollowKeeps,
       ReadPieceKeeps, SendPieceKeeps, TimeKeeps, AtEndKeeps DEF LogNext, TailStep
  <2>4. QED
    BY <2>1, <2>3
<1>3. QED
  BY <1>1, <1>2, PTL DEF LogSpec

\* In every reachable state the streams are well typed, and g_active_log_tails
\* counts those that took a slot and have not given it back: a slot is neither
\* lost nor given back twice, whichever way a stream ends.
THEOREM LogTypes == LogSpec => []LogTypeOK
<1>1. LogInv => LogTypeOK
  BY DEF LogInv, LogsOK, SlotsOK, Handlers, TailStages, Pieces, Holders, LogTypeOK
<1>2. QED
  BY <1>1, LogHolds, PTL

\* Whatever is done to the log while a browser follows it, and however its
\* reads fall between: it is sent each piece once, in the order written.
THEOREM SentInOrderAlways == LogSpec => []SentInOrder
<1>1. LogInv => SentInOrder
  BY DEF LogInv, TailOK, Rising, SentInOrder
<1>2. QED
  BY <1>1, LogHolds, PTL

-----------------------------------------------------------------------------
(* The two beside the handoff *)

\* Put beside each other and beside the handoff, the tails and the rescans stay
\* well typed: neither changes what the other keeps.
THEOREM ServicesTypes == ServicesSpec => []ServicesTypeOK
<1>1. ServicesInit => LogInit /\ RescanInit
  BY DEF ServicesInit
<1>2. [ServicesNext]_serviceVars => [LogNext]_logVars
  BY DEF ServicesNext, serviceVars
<1>3. [ServicesNext]_serviceVars => [RescanNext]_rescanVars
  BY DEF ServicesNext, serviceVars
<1>4. QED
  BY <1>1, <1>2, <1>3, LogTypes, RescanTypes, PTL
  DEF ServicesSpec, LogSpec, RescanSpec, ServicesTypeOK
=============================================================================
