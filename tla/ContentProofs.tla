--------------------------- MODULE ContentProofs ----------------------------
(***************************************************************************)
(* Proofs about what the pages show of a platform beside its ROMs.         *)
(*                                                                         *)
(* The metadata editor (LibraryServer): its types, that it implements      *)
(* LibraryEdits for any number of workers, and that undo leads back over a *)
(* save that was applied as long as one worker at a time is sent undoable  *)
(* requests.                                                               *)
(*                                                                         *)
(* Platforms (Platforms), for any catalog that tells its names apart, any  *)
(* folders and workers: that a folder is browsed, and that a tag means one *)
(* platform.                                                               *)
(*                                                                         *)
(* Save states (SaveStates), for any cards, folders and files: each state  *)
(* is in one entry, and deleting an entry spares the others.               *)
(***************************************************************************)
EXTENDS MCContent, FiniteSetTheorems, SequenceTheorems, WellFoundedInduction, TLAPS

-----------------------------------------------------------------------------
(* Types *)

Pcs == {"idle", "prepare", "sync", "apply", "write", "keep", "discard",
        "restore", "putback", "clear"}
Transaction == [owner: Threads, rows: Settings, todo: Seq(Changes)]
Workers == [Threads -> ThreadState]

\* A thread in a handler has a request that was accepted, and every readable
\* snapshot is of one.
IdsAsked ==
    /\ \A t \in Threads : /\ thr[t].pc # "idle" => thr[t].id \in 1..Len(asked)
                          /\ thr[t].pc = "sync" => thr[t].inode \in Inodes
    /\ \A i \in Inodes : content[i] <= Len(asked)

LEMMA RequestType ==
    ASSUME NEW r \in Requests
    PROVE  r.undoable \in BOOLEAN /\ r.changes \in Seq(Changes)
  BY ServerAssumption

LEMMA JobType ==
    ASSUME TypeOK, NEW t \in Threads, thr[t].id \in 1..Len(asked)
    PROVE  /\ Job(t) \in Requests
           /\ Job(t).changes \in Seq(Changes) /\ Job(t).undoable \in BOOLEAN
<1>1. Job(t) \in Requests
  BY DEF Job, TypeOK
<1>2. QED
  BY <1>1, RequestType

\* What the steps of a handler do to its thread.
Stays(t) == \A u \in Threads \ {t} : thr'[u] = thr[u]

LEMMA AnswerEnds ==
    ASSUME TypeOK, NEW t \in Threads, Answer(t)
    PROVE  /\ thr' \in Workers /\ thr'[t] = Idle /\ Stays(t)
<1>1. Idle \in ThreadState
  BY ServerAssumption DEF Idle, ThreadState, Ids
<1>2. QED
  BY <1>1 DEF Answer, TypeOK, Workers, Stays

LEMMA GotoGoes ==
    ASSUME TypeOK, NEW t \in Threads, NEW pc \in Pcs, Goto(t, pc)
    PROVE  /\ thr' \in Workers /\ Stays(t)
           /\ thr'[t].pc = pc /\ thr'[t].id = thr[t].id /\ thr'[t].inode = NoInode
<1>1. thr \in Workers
  BY DEF TypeOK, Workers
<1>2. QED
  BY <1>1 DEF Goto, Workers, Stays, ThreadState, Pcs

\* A save that ends, and an apply that is over, go one of two ways.
LEMMA WaysOut ==
    ASSUME TypeOK, NEW t \in Threads, Applied(t) \/ Rejected(t)
    PROVE  /\ thr' \in Workers /\ Stays(t)
           /\ \/ thr'[t] = Idle
              \/ /\ thr'[t].pc \in {"keep", "discard"}
                 /\ thr'[t].id = thr[t].id /\ thr'[t].inode = NoInode
<1>1. "keep" \in Pcs /\ "discard" \in Pcs
  BY DEF Pcs
<1>2. CASE Answer(t)
  BY <1>2, AnswerEnds
<1>3. CASE Goto(t, "keep")
  BY <1>1, <1>3, GotoGoes
<1>4. CASE Goto(t, "discard")
  BY <1>1, <1>4, GotoGoes
<1>5. QED
  BY <1>2, <1>3, <1>4 DEF Applied, Rejected

\* A step that asks for nothing keeps who has which request.
LEMMA IdsStay ==
    ASSUME TypeOK, IdsAsked, UNCHANGED asked, NEW t \in Threads, Stays(t),
           \/ thr'[t] = Idle
           \/ /\ thr'[t].id = thr[t].id /\ thr[t].pc # "idle"
              /\ thr'[t].pc = "sync" => thr'[t].inode \in Inodes,
           \A i \in Inodes : content'[i] <= Len(asked)
    PROVE  IdsAsked'
  BY DEF IdsAsked, Stays, Idle

LEMMA RowsType ==
    ASSUME NEW rows \in Settings, NEW c \in Changes, NEW f
    PROVE  Written(f, rows, c) \in Settings /\ PutBack(f, rows, c) \in Settings
  BY DEF Written, PutBack, Settings, Changes

LEMMA TxType ==
    ASSUME tx \in Transaction, tx.todo # <<>>
    PROVE  /\ Head(tx.todo) \in Changes /\ Tail(tx.todo) \in Seq(Changes)
           /\ \A rows \in Settings :
                 [tx EXCEPT !.rows = rows, !.todo = Tail(tx.todo)] \in Transaction
<1>1. tx.todo \in Seq(Changes) /\ tx.todo # <<>>
  BY DEF Transaction
<1>2. Head(tx.todo) \in Changes /\ Tail(tx.todo) \in Seq(Changes)
  BY <1>1
<1>3. QED
  BY <1>2 DEF Transaction

\* Who owns the transaction is a thread, and has rows to write.
LEMMA OwnedTx ==
    ASSUME TypeOK, NEW t \in Threads, tx.owner = t
    PROVE  tx \in Transaction
<1>1. tx # NoTx
  BY ServerAssumption DEF NoTx
<1>2. QED
  BY <1>1 DEF TypeOK, Transaction

LEMMA NextType ==
    ASSUME TypeOK, IdsAsked, [Next]_vars
    PROVE  TypeOK' /\ IdsAsked'
<1> USE DEF library, files, history
<1> DEFINE Step(t) == thr'[t] = Idle
                   \/ /\ thr'[t].id = thr[t].id /\ thr[t].pc # "idle"
                      /\ thr'[t].pc = "sync" => thr'[t].inode \in Inodes
           TxOK == tx = NoTx \/ tx \in Transaction
<1>0. /\ thr \in Workers /\ TxOK
      /\ (/\ found' \in Found
          /\ settings' \in Settings /\ scanning' \in BOOLEAN /\ TxOK'
          /\ thr' \in Workers
          /\ undo' \in Inodes \cup {NoInode} /\ prepared' \in Inodes \cup {NoInode}
          /\ content' \in [Inodes -> Ids] /\ asked' \in Seq(Requests)
          /\ Len(asked') <= MaxAsked /\ applied' \subseteq Ids)
            => TypeOK'
  BY DEF TypeOK, Workers, Transaction
<1>p. \A pc \in {"idle", "prepare", "sync", "apply", "write", "keep", "discard",
                 "restore", "putback", "clear"} : pc \in Pcs
  BY DEF Pcs
<1>q. \A i \in Inodes : content[i] \in Ids
  BY DEF TypeOK
<1>i. \A t \in Threads : thr[t].pc # "idle" => thr[t].id \in 1..Len(asked) /\ thr[t].id \in Ids
  BY <1>0 DEF IdsAsked, Workers, ThreadState
<1>1. ASSUME NEW t \in Threads, Save(t) PROVE TypeOK' /\ IdsAsked'
  <2>1. PICK r \in Requests :
           /\ asked' = Append(asked, r)
           /\ thr' = [thr EXCEPT ![t] = [pc |-> IF r.undoable THEN "prepare" ELSE "apply",
                                         id |-> Len(asked) + 1, inode |-> NoInode]]
    BY <1>1 DEF Save
  <2>2. asked \in Seq(Requests) /\ Len(asked) < MaxAsked /\ MaxAsked \in Nat /\ Len(asked) \in Nat
    BY <1>1, ServerAssumption DEF Save, TypeOK
  <2>3. asked' \in Seq(Requests) /\ Len(asked') = Len(asked) + 1 /\ Len(asked') <= MaxAsked
    BY <2>1, <2>2
  <2>4. Len(asked) + 1 \in Ids
    BY <2>2 DEF Ids
  <2>5. [pc |-> IF r.undoable THEN "prepare" ELSE "apply",
         id |-> Len(asked) + 1, inode |-> NoInode] \in ThreadState
    BY <2>4 DEF ThreadState
  <2>6. /\ thr' \in Workers
        /\ thr'[t] = [pc |-> IF r.undoable THEN "prepare" ELSE "apply",
                      id |-> Len(asked) + 1, inode |-> NoInode]
        /\ Stays(t)
    BY <1>0, <2>1, <2>5 DEF Workers, Stays
  <2>7. TypeOK'
    BY <1>0, <1>1, <2>3, <2>6 DEF Save, TypeOK, Transaction
  <2>8. IdsAsked'
    <3>1. \A u \in Threads \ {t} : thr'[u] = thr[u]
      BY <2>6 DEF Stays
    <3>2. thr'[t].pc # "sync" /\ thr'[t].id = Len(asked) + 1
      BY <2>6
    <3>3. UNCHANGED content
      BY <1>1 DEF Save
    <3>4. QED
      BY <1>q, <2>2, <2>3, <3>1, <3>2, <3>3 DEF IdsAsked, Ids
  <2>9. QED
    BY <2>7, <2>8
<1>2. ASSUME NEW t \in Threads, Undo(t) PROVE TypeOK' /\ IdsAsked'
  <2>1. undo \in Inodes /\ content[undo] \in Ids /\ content[undo] # 0
    BY <1>2, <1>q DEF Undo, Readable, TypeOK
  <2>2. content[undo] \in 1..Len(asked)
    BY <2>1 DEF IdsAsked, Ids, TypeOK
  <2>3. [pc |-> "restore", id |-> content[undo], inode |-> NoInode] \in ThreadState
    BY <2>1 DEF ThreadState
  <2>4. /\ thr' \in Workers /\ Stays(t)
        /\ thr'[t] = [pc |-> "restore", id |-> content[undo], inode |-> NoInode]
    BY <1>0, <1>2, <2>3 DEF Undo, Workers, Stays
  <2>5. TypeOK'
    BY <1>0, <1>2, <2>4 DEF Undo, TypeOK, Transaction
  <2>6. IdsAsked'
    BY <1>2, <2>2, <2>4 DEF Undo, IdsAsked, Stays
  <2>7. QED
    BY <2>5, <2>6
<1>3. ASSUME NEW t \in Threads, OpenPrepared(t) PROVE TypeOK' /\ IdsAsked'
  <2>1. /\ thr' \in Workers /\ Stays(t) /\ Step(t)
        /\ prepared' \in Inodes \cup {NoInode} /\ content' \in [Inodes -> Ids]
        /\ \A i \in Inodes : content'[i] \in {content[i], 0}
    <3>1. CASE Answer(t) /\ UNCHANGED <<prepared, content>>
      BY <3>1, AnswerEnds DEF TypeOK
    <3>2. CASE \E i \in Inodes :
                  /\ prepared' = i
                  /\ content' = [content EXCEPT ![i] = 0]
                  /\ thr' = [thr EXCEPT ![t].pc = "sync", ![t].inode = i]
      <4>0. PICK i \in Inodes : /\ prepared' = i
                                /\ content' = [content EXCEPT ![i] = 0]
                                /\ thr' = [thr EXCEPT ![t].pc = "sync", ![t].inode = i]
        BY <3>2
      <4>1. content \in [Inodes -> Ids] /\ 0 \in Ids
        BY ServerAssumption DEF TypeOK, Ids
      <4>2. content' \in [Inodes -> Ids] /\ \A j \in Inodes : content'[j] \in {content[j], 0}
        BY <4>0, <4>1
      <4>3. /\ thr' \in Workers /\ Stays(t)
            /\ thr'[t].id = thr[t].id /\ thr'[t].inode = i
        BY <1>0, <4>0 DEF Workers, ThreadState, Stays
      <4>4. QED
        BY <1>3, <4>0, <4>2, <4>3 DEF OpenPrepared, PcIs
    <3>3. QED
      BY <1>3, <3>1, <3>2 DEF OpenPrepared
  <2>2. \A i \in Inodes : content'[i] <= Len(asked)
    BY <2>1 DEF IdsAsked, TypeOK
  <2>3. TypeOK'
    BY <1>0, <1>3, <2>1 DEF OpenPrepared, TypeOK, Transaction
  <2>4. QED
    BY <1>3, <2>1, <2>2, <2>3, IdsStay DEF OpenPrepared
<1>4. ASSUME NEW t \in Threads, SyncPrepared(t) PROVE TypeOK' /\ IdsAsked'
  <2>1. PICK c \in {thr[t].id, 0} : content' = [content EXCEPT ![thr[t].inode] = c]
    BY <1>4 DEF SyncPrepared
  <2>2. PcIs(t, "sync")
    BY <1>4 DEF SyncPrepared
  <2>3. c \in Ids /\ c <= Len(asked) /\ content \in [Inodes -> Ids]
    BY <1>i, <2>1, <2>2, ServerAssumption DEF PcIs, Ids, TypeOK
  <2>4. content' \in [Inodes -> Ids] /\ \A i \in Inodes : content'[i] \in {content[i], c}
    BY <2>1, <2>3
  <2>5. \A i \in Inodes : content'[i] <= Len(asked)
    BY <2>3, <2>4 DEF IdsAsked
  <2>6. /\ thr' \in Workers /\ Stays(t) /\ Step(t)
        /\ prepared' \in Inodes \cup {NoInode}
    <3>1. CASE Answer(t) /\ prepared' = NoInode
      BY <3>1, AnswerEnds
    <3>2. CASE Goto(t, "apply") /\ UNCHANGED prepared
      BY <1>p, <2>2, <3>2, GotoGoes DEF PcIs, TypeOK
    <3>3. QED
      BY <1>4, <3>1, <3>2 DEF SyncPrepared
  <2>7. TypeOK'
    BY <1>0, <1>4, <2>4, <2>6 DEF SyncPrepared, TypeOK, Transaction
  <2>8. QED
    BY <1>4, <2>5, <2>6, <2>7, IdsStay DEF SyncPrepared
<1>5. ASSUME NEW t \in Threads, Keep(t) \/ Discard(t) \/ Clear(t) PROVE TypeOK' /\ IdsAsked'
  <2>1. Answer(t) /\ UNCHANGED <<library, scanning, tx, content, asked, applied>>
    BY <1>5 DEF Keep, Discard, Clear
  <2>2. undo' \in Inodes \cup {NoInode} /\ prepared' \in Inodes \cup {NoInode}
    BY <1>5 DEF Keep, Discard, Clear, TypeOK
  <2>3. thr' \in Workers /\ Stays(t) /\ Step(t)
    BY <2>1, AnswerEnds
  <2>4. TypeOK'
    BY <1>0, <2>1, <2>2, <2>3 DEF TypeOK, Transaction
  <2>5. \A i \in Inodes : content'[i] <= Len(asked)
    BY <2>1 DEF IdsAsked
  <2>6. QED
    BY <2>1, <2>3, <2>4, <2>5, IdsStay
<1>6. ASSUME NEW t \in Threads, BeginApply(t) \/ BeginRestore(t) PROVE TypeOK' /\ IdsAsked'
  <2>0. thr[t].pc # "idle" /\ Job(t).changes \in Seq(Changes)
    BY <1>6, <1>i, JobType DEF BeginApply, BeginRestore, PcIs
  <2>1. thr' \in Workers /\ Stays(t) /\ Step(t)
    <3>1. CASE Answer(t)
      BY <3>1, AnswerEnds
    <3>2. CASE Rejected(t)
      BY <2>0, <3>2, WaysOut
    <3>3. CASE Goto(t, "write") \/ Goto(t, "putback")
      BY <1>p, <2>0, <3>3, GotoGoes
    <3>4. QED
      BY <1>6, <3>1, <3>2, <3>3 DEF BeginApply, BeginRestore
  <2>2. TxOK'
    <3>1. tx' = tx \/ tx' = [owner |-> t, rows |-> settings, todo |-> Job(t).changes]
      BY <1>6 DEF BeginApply, BeginRestore
    <3>2. QED
      BY <1>0, <2>0, <3>1 DEF TypeOK, Transaction
  <2>3. UNCHANGED <<library, scanning, files, history>>
    BY <1>6 DEF BeginApply, BeginRestore
  <2>4. TypeOK'
    BY <1>0, <2>1, <2>2, <2>3 DEF TypeOK
  <2>5. \A i \in Inodes : content'[i] <= Len(asked)
    BY <2>3 DEF IdsAsked
  <2>6. QED
    BY <2>1, <2>3, <2>4, <2>5, IdsStay
<1>7. ASSUME NEW t \in Threads, WriteRow(t) \/ PutBackRow(t) PROVE TypeOK' /\ IdsAsked'
  <2>0. thr[t].pc # "idle" /\ tx \in Transaction /\ tx.todo # <<>>
    BY <1>7, OwnedTx DEF WriteRow, PutBackRow, PcIs
  <2>1. UNCHANGED <<library, scanning, files, history>>
    BY <1>7 DEF WriteRow, PutBackRow
  <2>2. (thr' \in Workers /\ Stays(t) /\ Step(t)) \/ UNCHANGED thr
    <3>1. CASE Answer(t)
      BY <3>1, AnswerEnds
    <3>2. CASE Rejected(t)
      BY <2>0, <3>2, WaysOut
    <3>3. QED
      BY <1>7, <3>1, <3>2 DEF WriteRow, PutBackRow
  <2>3. TxOK'
    <3>1. /\ Written(found, tx.rows, Head(tx.todo)) \in Settings
          /\ PutBack(found, tx.rows, Head(tx.todo)) \in Settings
      BY <2>0, TxType, RowsType DEF Transaction
    <3>2. CASE Rollback
      BY <3>2 DEF Rollback
    <3>3. CASE tx' = [tx EXCEPT !.rows = Written(found, tx.rows, Head(tx.todo)),
                                !.todo = Tail(tx.todo)]
      BY <2>0, <3>1, <3>3, TxType
    <3>4. CASE tx' = [tx EXCEPT !.rows = PutBack(found, tx.rows, Head(tx.todo)),
                                !.todo = Tail(tx.todo)]
      BY <2>0, <3>1, <3>4, TxType
    <3>5. QED
      BY <1>7, <3>2, <3>3, <3>4 DEF WriteRow, PutBackRow
  <2>4. TypeOK'
    BY <1>0, <2>1, <2>2, <2>3 DEF TypeOK
  <2>5. \A i \in Inodes : content'[i] <= Len(asked)
    BY <2>1 DEF IdsAsked
  <2>6. CASE UNCHANGED thr
    BY <2>1, <2>4, <2>6 DEF IdsAsked
  <2>7. QED
    BY <2>1, <2>2, <2>4, <2>5, <2>6, IdsStay
<1>8. ASSUME NEW t \in Threads, CommitApply(t) \/ CommitRestore(t) PROVE TypeOK' /\ IdsAsked'
  <2>0. thr[t].pc # "idle" /\ tx \in Transaction
    BY <1>8, OwnedTx DEF CommitApply, CommitRestore, PcIs
  <2>1. UNCHANGED <<found, scanning, files, asked>> /\ tx' = NoTx
    BY <1>8 DEF CommitApply, CommitRestore, Rollback
  <2>2. settings' \in Settings /\ applied' \subseteq Ids
    BY <1>8, <1>i, <2>0 DEF CommitApply, CommitRestore, TypeOK, Transaction
  <2>3. thr' \in Workers /\ Stays(t) /\ Step(t)
    <3>1. CASE Answer(t)
      BY <3>1, AnswerEnds
    <3>2. CASE Applied(t) \/ Rejected(t)
      BY <2>0, <3>2, WaysOut
    <3>3. CASE Goto(t, "clear")
      BY <1>p, <2>0, <3>3, GotoGoes
    <3>4. QED
      BY <1>8, <3>1, <3>2, <3>3 DEF CommitApply, CommitRestore
  <2>4. TypeOK'
    BY <1>0, <2>1, <2>2, <2>3 DEF TypeOK
  <2>5. \A i \in Inodes : content'[i] <= Len(asked)
    BY <2>1 DEF IdsAsked
  <2>6. QED
    BY <2>1, <2>3, <2>4, <2>5, IdsStay
<1>9. ASSUME Scan \/ Reconcile PROVE TypeOK' /\ IdsAsked'
  <2>1. UNCHANGED <<settings, tx, thr, files, history>>
    BY <1>9 DEF Scan, Reconcile
  <2>2. found' \in Found /\ scanning' \in BOOLEAN
    BY <1>9, LibraryAssumption DEF Scan, Reconcile, TypeOK
  <2>3. QED
    BY <1>0, <2>1, <2>2 DEF TypeOK, IdsAsked
<1>10. ASSUME Die PROVE TypeOK' /\ IdsAsked'
  <2>1. Idle \in ThreadState
    BY ServerAssumption DEF Idle, ThreadState, Ids
  <2>2. thr' \in Workers /\ \A t \in Threads : thr'[t] = Idle
    BY <1>10, <2>1 DEF Die, Workers
  <2>3. UNCHANGED <<library, scanning, files, history>> /\ tx' = NoTx
    BY <1>10 DEF Die
  <2>4. TypeOK'
    BY <1>0, <2>2, <2>3 DEF TypeOK
  <2>5. QED
    BY <2>2, <2>3, <2>4 DEF IdsAsked, Idle
<1>11. ASSUME UNCHANGED vars PROVE TypeOK' /\ IdsAsked'
  BY <1>11 DEF vars, TypeOK, IdsAsked
<1>12. QED
  BY <1>1, <1>2, <1>3, <1>4, <1>5, <1>6, <1>7, <1>8, <1>9, <1>10, <1>11 DEF Next, Handle

LEMMA TypeHolds == Spec => [](TypeOK /\ IdsAsked)
<1>1. Init => TypeOK /\ IdsAsked
  <2> SUFFICES ASSUME Init PROVE TypeOK /\ IdsAsked
    OBVIOUS
  <2>1. Idle \in ThreadState /\ 0 \in Ids
    BY ServerAssumption DEF Idle, ThreadState, Ids
  <2>2. found \in Found /\ settings \in Settings
    BY LibraryAssumption, StoredAssumption DEF Init
  <2>3. thr \in [Threads -> ThreadState] /\ \A t \in Threads : thr[t].pc = "idle"
    BY <2>1 DEF Init, Idle
  <2>4. content \in [Inodes -> Ids] /\ \A i \in Inodes : content[i] = 0
    BY <2>1 DEF Init
  <2>5. asked \in Seq(Requests) /\ Len(asked) = 0 /\ 0 <= MaxAsked /\ applied \subseteq Ids
    BY ServerAssumption DEF Init
  <2>6. TypeOK
    BY <2>2, <2>3, <2>4, <2>5 DEF Init, TypeOK
  <2>7. QED
    BY <2>3, <2>4, <2>5, <2>6 DEF IdsAsked
<1>2. TypeOK /\ IdsAsked /\ [Next]_vars => TypeOK' /\ IdsAsked'
  BY NextType
<1>3. QED
  BY <1>1, <1>2, PTL DEF Spec

\* The types hold in every reachable state, for any number of workers, slots,
\* cards and snapshots.
THEOREM TypeCorrect == Spec => []TypeOK
  BY TypeHolds, PTL

-----------------------------------------------------------------------------
(* The way back, when undoable saves do not overlap *)

\* A save that writes its way back, or has written it.
Keeps(t) ==
    \/ thr[t].pc \in {"prepare", "sync", "keep", "discard"}
    \/ thr[t].pc \in {"apply", "write"} /\ Job(t).undoable

\* Undoable saves come one at a time. Nothing in the server sees to it: with
\* two at once the way back of one is lost in that of the other.
OneAtATime == \A t, u \in Threads : Keeps(t) /\ Keeps(u) => t = u

KeepsItsWay(t) ==
    /\ Keeps(t) => t \in BulkThreads
    /\ thr[t].pc # "sync" => thr[t].inode = NoInode
    /\ thr[t].pc = "sync" =>
          prepared # NoInode /\ thr[t].inode = prepared /\ content[prepared] = 0
    /\ thr[t].pc = "keep" => thr[t].id \in applied /\ Job(t).undoable
    /\ thr[t].pc \in {"apply", "write", "keep"} /\ Job(t).undoable =>
          prepared # NoInode /\ content[prepared] = thr[t].id

\* What undo reads is no file a save is still writing.
UndoIsApart == undo = prepared => undo = NoInode

BulkInv ==
    /\ \A t \in Threads : KeepsItsWay(t)
    /\ UndoIsApart
    /\ UndoIsApplied

\* A step of one worker leaves the way back of the others alone: either it is
\* itself the worker with the undoable save, or it has nothing to do with it.
LEMMA OthersKeepTheirWay ==
    ASSUME TypeOK, IdsAsked, BulkInv, OneAtATime, NEW t \in Threads, Stays(t),
           UNCHANGED asked \/ \E r \in Requests : asked' = Append(asked, r),
           applied \subseteq applied',
           Keeps(t) \/ UNCHANGED <<prepared, content>>
    PROVE  \A u \in Threads \ {t} : KeepsItsWay(u)'
<1> SUFFICES ASSUME NEW u \in Threads \ {t} PROVE KeepsItsWay(u)'
  OBVIOUS
<1>1. thr'[u] = thr[u]
  BY DEF Stays
<1>2. thr[u].pc # "idle" => Job(u)' = Job(u)
  <2>1. thr[u].pc # "idle" => thr[u].id \in 1..Len(asked)
    BY DEF IdsAsked
  <2>2. asked \in Seq(Requests)
    BY DEF TypeOK
  <2>3. QED
    BY <1>1, <2>1, <2>2 DEF Job
<1>3. KeepsItsWay(u)
  BY DEF BulkInv
<1>4. Keeps(u)' <=> Keeps(u)
  BY <1>1, <1>2 DEF Keeps
<1>5. CASE UNCHANGED <<prepared, content>>
  BY <1>1, <1>2, <1>3, <1>4, <1>5 DEF KeepsItsWay
<1>6. CASE Keeps(t)
  <2>1. KeepsItsWay(t)
    BY DEF BulkInv
  <2>2. ~Keeps(u)
    BY <1>3, <1>6, <2>1 DEF OneAtATime
  <2>3. QED
    BY <1>1, <1>2, <1>3, <1>4, <2>2 DEF KeepsItsWay, Keeps
<1>7. QED
  BY <1>5, <1>6

\* The same of a step that leaves the files alone and goes no new way.
LEMMA QuietKeepsTheWay ==
    ASSUME TypeOK, IdsAsked, BulkInv, OneAtATime, NEW t \in Threads, Stays(t),
           UNCHANGED <<asked, prepared, content>>,
           undo' = undo \/ undo' = NoInode,
           applied \subseteq applied',
           \/ thr'[t] = Idle
           \/ /\ thr'[t].id = thr[t].id /\ thr'[t].inode = NoInode
              /\ \/ thr'[t].pc \in {"restore", "putback", "clear"}
                 \/ thr'[t].pc = "write" /\ thr[t].pc = "apply"
                 \/ thr'[t].pc = "discard" /\ thr[t].pc \in {"apply", "write"} /\ Job(t).undoable
                 \/ /\ thr'[t].pc = "keep" /\ thr[t].pc = "write" /\ Job(t).undoable
                    /\ thr[t].id \in applied'
    PROVE  BulkInv'
<1>1. \A u \in Threads \ {t} : KeepsItsWay(u)'
  BY OthersKeepTheirWay
<1>2. KeepsItsWay(t)
  BY DEF BulkInv
<1>3. KeepsItsWay(t)'
  <2>1. CASE thr'[t] = Idle
    BY <2>1 DEF KeepsItsWay, Keeps, Idle
  <2>2. CASE thr'[t].id = thr[t].id /\ thr'[t].inode = NoInode
    <3>1. Job(t)' = Job(t)
      BY <2>2 DEF Job
    <3>2. CASE thr'[t].pc \in {"restore", "putback", "clear"}
      BY <2>2, <3>2 DEF KeepsItsWay, Keeps
    <3>3. CASE thr'[t].pc = "write" /\ thr[t].pc = "apply"
      BY <1>2, <2>2, <3>1, <3>3 DEF KeepsItsWay, Keeps
    <3>4. CASE thr'[t].pc = "discard" /\ thr[t].pc \in {"apply", "write"} /\ Job(t).undoable
      BY <1>2, <2>2, <3>1, <3>4 DEF KeepsItsWay, Keeps
    <3>5. CASE /\ thr'[t].pc = "keep" /\ thr[t].pc = "write" /\ Job(t).undoable
               /\ thr[t].id \in applied'
      BY <1>2, <2>2, <3>1, <3>5 DEF KeepsItsWay, Keeps
    <3>6. QED
      BY <2>1, <3>2, <3>3, <3>4, <3>5
  <2>3. QED
    BY <2>1, <2>2
<1>4. UndoIsApart'
  BY DEF BulkInv, UndoIsApart
<1>5. UndoIsApplied'
  BY DEF BulkInv, UndoIsApplied, Readable
<1>6. QED
  BY <1>1, <1>3, <1>4, <1>5 DEF BulkInv

LEMMA SaveKeepsTheWay ==
    ASSUME TypeOK, IdsAsked, BulkInv, OneAtATime, NEW t \in Threads, Save(t)
    PROVE  BulkInv'
<1> USE DEF library, files
<1>1. PICK r \in Requests :
         /\ r.undoable => t \in BulkThreads
         /\ asked' = Append(asked, r)
         /\ thr' = [thr EXCEPT ![t] = [pc |-> IF r.undoable THEN "prepare" ELSE "apply",
                                       id |-> Len(asked) + 1, inode |-> NoInode]]
  BY DEF Save
<1>2. UNCHANGED <<undo, prepared, content, applied>>
  BY DEF Save
<1>3. /\ thr'[t] = [pc |-> IF r.undoable THEN "prepare" ELSE "apply",
                    id |-> Len(asked) + 1, inode |-> NoInode]
      /\ Stays(t)
  BY <1>1 DEF TypeOK, Stays
<1>4. \A u \in Threads \ {t} : KeepsItsWay(u)'
  BY <1>1, <1>2, <1>3, OthersKeepTheirWay
<1>5. Job(t)' = r
  <2>1. asked \in Seq(Requests)
    BY DEF TypeOK
  <2>2. QED
    BY <1>1, <1>3, <2>1 DEF Job
<1>6. KeepsItsWay(t)'
  BY <1>1, <1>3, <1>5, RequestType DEF KeepsItsWay, Keeps
<1>7. UndoIsApart' /\ UndoIsApplied'
  BY <1>2 DEF BulkInv, UndoIsApart, UndoIsApplied, Readable
<1>8. QED
  BY <1>4, <1>6, <1>7 DEF BulkInv

LEMMA OpenKeepsTheWay ==
    ASSUME TypeOK, IdsAsked, BulkInv, OneAtATime, NEW t \in Threads, OpenPrepared(t)
    PROVE  BulkInv'
<1> USE DEF library, files, history
<1>1. Keeps(t) /\ UNCHANGED <<undo, asked, applied>> /\ KeepsItsWay(t)
  BY DEF OpenPrepared, PcIs, Keeps, BulkInv
<1>2. CASE Answer(t) /\ UNCHANGED <<prepared, content>>
  BY <1>1, <1>2, AnswerEnds, QuietKeepsTheWay
<1>3. CASE \E i \in Inodes :
              /\ IF prepared = NoInode THEN Unused(i) ELSE i = prepared
              /\ prepared' = i
              /\ content' = [content EXCEPT ![i] = 0]
              /\ thr' = [thr EXCEPT ![t].pc = "sync", ![t].inode = i]
  <2>1. PICK i \in Inodes :
              /\ IF prepared = NoInode THEN Unused(i) ELSE i = prepared
              /\ prepared' = i
              /\ content' = [content EXCEPT ![i] = 0]
              /\ thr' = [thr EXCEPT ![t].pc = "sync", ![t].inode = i]
    BY <1>3
  <2>2. i # NoInode /\ i # undo
    BY <2>1, ServerAssumption DEF Unused, BulkInv, UndoIsApart
  <2>3. /\ content'[i] = 0 /\ \A j \in Inodes \ {i} : content'[j] = content[j]
        /\ thr'[t].pc = "sync" /\ thr'[t].inode = i /\ Stays(t)
    <3>1. content \in [Inodes -> Ids] /\ thr \in Workers
      BY DEF TypeOK, Workers
    <3>2. QED
      BY <2>1, <3>1 DEF Workers, ThreadState, Stays
  <2>4. KeepsItsWay(t)'
    BY <1>1, <2>1, <2>2, <2>3 DEF KeepsItsWay, Keeps
  <2>5. \A u \in Threads \ {t} : KeepsItsWay(u)'
    BY <1>1, <2>3, OthersKeepTheirWay
  <2>6. UndoIsApart'
    BY <1>1, <2>1, <2>2 DEF UndoIsApart
  <2>7. UndoIsApplied'
    BY <1>1, <2>2, <2>3 DEF UndoIsApplied, Readable, BulkInv, TypeOK
  <2>8. QED
    BY <2>4, <2>5, <2>6, <2>7 DEF BulkInv
<1>4. QED
  BY <1>2, <1>3 DEF OpenPrepared

LEMMA SyncKeepsTheWay ==
    ASSUME TypeOK, IdsAsked, BulkInv, OneAtATime, NEW t \in Threads, SyncPrepared(t)
    PROVE  BulkInv'
<1> USE DEF library, files, history
<1>1. /\ Keeps(t) /\ UNCHANGED <<undo, asked, applied>> /\ KeepsItsWay(t)
      /\ thr[t].pc = "sync"
  BY DEF SyncPrepared, PcIs, Keeps, BulkInv
<1>2. /\ prepared \in Inodes /\ thr[t].inode = prepared /\ content[prepared] = 0
      /\ prepared # undo /\ t \in BulkThreads
  BY <1>1 DEF KeepsItsWay, BulkInv, UndoIsApart, TypeOK
<1>3. \A u \in Threads \ {t} : thr[u].inode # prepared
  <2> SUFFICES ASSUME NEW u \in Threads \ {t} PROVE thr[u].inode # prepared
    OBVIOUS
  <2>1. KeepsItsWay(u)
    BY DEF BulkInv
  <2>2. thr[u].pc # "sync"
    BY <1>1 DEF Keeps, OneAtATime
  <2>3. QED
    BY <1>2, <2>1, <2>2, ServerAssumption DEF KeepsItsWay
<1>4. content' = [content EXCEPT ![prepared] = thr[t].id]
  BY <1>2, <1>3 DEF SyncPrepared
<1>5. /\ content'[prepared] = thr[t].id
      /\ \A j \in Inodes \ {prepared} : content'[j] = content[j]
  <2>1. content \in [Inodes -> Ids]
    BY DEF TypeOK
  <2>2. QED
    BY <1>2, <1>4, <2>1
<1>6. UndoIsApplied'
  BY <1>1, <1>2, <1>5 DEF UndoIsApplied, Readable, BulkInv, TypeOK
<1>7. CASE Answer(t) /\ prepared' = NoInode
  <2>1. thr'[t] = Idle /\ Stays(t)
    BY <1>7, AnswerEnds
  <2>2. KeepsItsWay(t)'
    BY <2>1 DEF KeepsItsWay, Keeps, Idle
  <2>3. \A u \in Threads \ {t} : KeepsItsWay(u)'
    BY <1>1, <2>1, OthersKeepTheirWay
  <2>4. QED
    BY <1>1, <1>6, <1>7, <2>2, <2>3 DEF BulkInv, UndoIsApart
<1>8. CASE Goto(t, "apply") /\ UNCHANGED prepared
  <2>1. /\ Stays(t) /\ thr'[t].pc = "apply" /\ thr'[t].id = thr[t].id
        /\ thr'[t].inode = NoInode
    BY <1>8, GotoGoes DEF Pcs
  <2>2. KeepsItsWay(t)'
    BY <1>2, <1>5, <1>8, <2>1, ServerAssumption DEF KeepsItsWay, Keeps
  <2>3. \A u \in Threads \ {t} : KeepsItsWay(u)'
    BY <1>1, <2>1, OthersKeepTheirWay
  <2>4. QED
    BY <1>1, <1>2, <1>6, <1>8, <2>2, <2>3 DEF BulkInv, UndoIsApart
<1>9. QED
  BY <1>7, <1>8 DEF SyncPrepared

LEMMA KeepKeepsTheWay ==
    ASSUME TypeOK, IdsAsked, BulkInv, OneAtATime, NEW t \in Threads,
           Keep(t) \/ Discard(t)
    PROVE  BulkInv'
<1> USE DEF library, files, history
<1>1. /\ Keeps(t) /\ UNCHANGED <<content, asked, applied>> /\ KeepsItsWay(t) /\ Answer(t)
  BY DEF Keep, Discard, PcIs, Keeps, BulkInv
<1>2. thr'[t] = Idle /\ Stays(t)
  BY <1>1, AnswerEnds
<1>3. KeepsItsWay(t)'
  BY <1>2 DEF KeepsItsWay, Keeps, Idle
<1>4. \A u \in Threads \ {t} : KeepsItsWay(u)'
  BY <1>1, <1>2, OthersKeepTheirWay
<1>5. \/ UNCHANGED <<undo, prepared>>
      \/ prepared' = NoInode /\ undo' = undo
      \/ /\ prepared' = NoInode /\ undo' = prepared /\ prepared # NoInode
         /\ thr[t].pc = "keep"
  BY DEF Keep, Discard, PcIs
<1>6. UndoIsApart'
  BY <1>5 DEF BulkInv, UndoIsApart
<1>7. UndoIsApplied'
  <2>1. thr[t].pc = "keep" => content[prepared] \in applied
    BY <1>1 DEF KeepsItsWay
  <2>2. QED
    BY <1>1, <1>5, <2>1 DEF BulkInv, UndoIsApplied, Readable
<1>8. QED
  BY <1>3, <1>4, <1>6, <1>7 DEF BulkInv

LEMMA StepKeepsTheWay ==
    ASSUME TypeOK, IdsAsked, BulkInv, OneAtATime, [Next]_vars
    PROVE  BulkInv'
<1> USE DEF library, files, history
<1>p. \A pc \in {"idle", "prepare", "sync", "apply", "write", "keep", "discard",
                 "restore", "putback", "clear"} : pc \in Pcs
  BY DEF Pcs
<1>1. ASSUME NEW t \in Threads, Save(t) PROVE BulkInv'
  BY <1>1, SaveKeepsTheWay
<1>2. ASSUME NEW t \in Threads, Undo(t) PROVE BulkInv'
  <2>1. /\ thr' = [thr EXCEPT ![t] = [pc |-> "restore", id |-> content[undo], inode |-> NoInode]]
        /\ UNCHANGED <<undo, prepared, content, asked, applied>>
    BY <1>2 DEF Undo
  <2>2. /\ thr'[t].pc = "restore" /\ thr'[t].inode = NoInode /\ Stays(t)
    BY <2>1 DEF TypeOK, Stays
  <2>3. \A u \in Threads \ {t} : KeepsItsWay(u)'
    BY <2>1, <2>2, OthersKeepTheirWay
  <2>4. KeepsItsWay(t)'
    BY <2>2 DEF KeepsItsWay, Keeps
  <2>5. QED
    BY <2>1, <2>3, <2>4 DEF BulkInv, UndoIsApart, UndoIsApplied, Readable
<1>3. ASSUME NEW t \in Threads, OpenPrepared(t) PROVE BulkInv'
  BY <1>3, OpenKeepsTheWay
<1>4. ASSUME NEW t \in Threads, SyncPrepared(t) PROVE BulkInv'
  BY <1>4, SyncKeepsTheWay
<1>5. ASSUME NEW t \in Threads, Keep(t) \/ Discard(t) PROVE BulkInv'
  BY <1>5, KeepKeepsTheWay
<1>6. ASSUME NEW t \in Threads, BeginApply(t) PROVE BulkInv'
  <2>1. UNCHANGED <<undo, prepared, content, asked, applied>> /\ thr[t].pc = "apply"
    BY <1>6 DEF BeginApply, PcIs
  <2>2. CASE Goto(t, "write")
    BY <1>p, <2>1, <2>2, GotoGoes, QuietKeepsTheWay
  <2>3. CASE Rejected(t)
    <3>1. CASE Job(t).undoable /\ Goto(t, "discard")
      BY <1>p, <2>1, <3>1, GotoGoes, QuietKeepsTheWay
    <3>2. CASE Answer(t)
      BY <2>1, <3>2, AnswerEnds, QuietKeepsTheWay
    <3>3. QED
      BY <2>3, <3>1, <3>2 DEF Rejected
  <2>4. QED
    BY <1>6, <2>2, <2>3 DEF BeginApply
<1>7. ASSUME NEW t \in Threads, WriteRow(t) PROVE BulkInv'
  <2>1. UNCHANGED <<undo, prepared, content, asked, applied>> /\ thr[t].pc = "write"
    BY <1>7 DEF WriteRow, PcIs
  <2>2. CASE UNCHANGED thr
    BY <2>1, <2>2 DEF BulkInv, KeepsItsWay, Keeps, Job, UndoIsApart, UndoIsApplied, Readable
  <2>3. CASE Rejected(t)
    <3>1. CASE Job(t).undoable /\ Goto(t, "discard")
      BY <1>p, <2>1, <3>1, GotoGoes, QuietKeepsTheWay
    <3>2. CASE Answer(t)
      BY <2>1, <3>2, AnswerEnds, QuietKeepsTheWay
    <3>3. QED
      BY <2>3, <3>1, <3>2 DEF Rejected
  <2>4. QED
    BY <1>7, <2>2, <2>3 DEF WriteRow
<1>8. ASSUME NEW t \in Threads, CommitApply(t) PROVE BulkInv'
  <2>1. UNCHANGED <<undo, prepared, content, asked>> /\ thr[t].pc = "write"
    BY <1>8 DEF CommitApply, PcIs
  <2>2. CASE applied' = applied \cup {thr[t].id} /\ Applied(t)
    <3>1. CASE Job(t).undoable /\ Goto(t, "keep")
      BY <1>p, <2>1, <2>2, <3>1, GotoGoes, QuietKeepsTheWay
    <3>2. CASE Answer(t)
      BY <2>1, <2>2, <3>2, AnswerEnds, QuietKeepsTheWay
    <3>3. QED
      BY <2>2, <3>1, <3>2 DEF Applied
  <2>3. CASE UNCHANGED applied /\ Rejected(t)
    <3>1. CASE Job(t).undoable /\ Goto(t, "discard")
      BY <1>p, <2>1, <2>3, <3>1, GotoGoes, QuietKeepsTheWay
    <3>2. CASE Answer(t)
      BY <2>1, <2>3, <3>2, AnswerEnds, QuietKeepsTheWay
    <3>3. QED
      BY <2>3, <3>1, <3>2 DEF Rejected
  <2>4. QED
    BY <1>8, <2>2, <2>3 DEF CommitApply
<1>9. ASSUME NEW t \in Threads, BeginRestore(t) \/ CommitRestore(t) \/ Clear(t) PROVE BulkInv'
  <2>1. /\ UNCHANGED <<prepared, content, asked, applied>>
        /\ undo' = undo \/ undo' = NoInode
        /\ Answer(t) \/ Goto(t, "putback") \/ Goto(t, "clear")
    BY <1>9 DEF BeginRestore, CommitRestore, Clear
  <2>2. CASE Answer(t)
    BY <2>1, <2>2, AnswerEnds, QuietKeepsTheWay
  <2>3. CASE Goto(t, "putback")
    BY <1>p, <2>1, <2>3, GotoGoes, QuietKeepsTheWay
  <2>4. CASE Goto(t, "clear")
    BY <1>p, <2>1, <2>4, GotoGoes, QuietKeepsTheWay
  <2>5. QED
    BY <2>1, <2>2, <2>3, <2>4
<1>10. ASSUME NEW t \in Threads, PutBackRow(t) PROVE BulkInv'
  <2>1. UNCHANGED <<undo, prepared, content, asked, applied>>
    BY <1>10 DEF PutBackRow
  <2>2. CASE UNCHANGED thr
    BY <2>1, <2>2 DEF BulkInv, KeepsItsWay, Keeps, Job, UndoIsApart, UndoIsApplied, Readable
  <2>3. CASE Answer(t)
    BY <2>1, <2>3, AnswerEnds, QuietKeepsTheWay
  <2>4. QED
    BY <1>10, <2>2, <2>3 DEF PutBackRow
<1>11. ASSUME Scan \/ Reconcile \/ UNCHANGED vars PROVE BulkInv'
  <2>1. UNCHANGED <<thr, undo, prepared, content, asked, applied>>
    BY <1>11 DEF Scan, Reconcile, vars
  <2>2. QED
    BY <2>1 DEF BulkInv, KeepsItsWay, Keeps, Job, UndoIsApart, UndoIsApplied, Readable
<1>12. ASSUME Die PROVE BulkInv'
  <2>1. UNCHANGED <<undo, prepared, content, asked, applied>>
    BY <1>12 DEF Die
  <2>2. \A t \in Threads : thr'[t] = Idle
    BY <1>12 DEF Die
  <2>3. \A t \in Threads : KeepsItsWay(t)'
    BY <2>2 DEF KeepsItsWay, Keeps, Idle
  <2>4. QED
    BY <2>1, <2>3 DEF BulkInv, UndoIsApart, UndoIsApplied, Readable
<1>13. QED
  BY <1>1, <1>2, <1>3, <1>4, <1>5, <1>6, <1>7, <1>8, <1>9, <1>10, <1>11, <1>12
  DEF Next, Handle

LEMMA BulkStarts == Init => BulkInv
  BY DEF Init, BulkInv, KeepsItsWay, Keeps, Idle, UndoIsApart, UndoIsApplied, Readable

LEMMA BulkHolds == Spec /\ []OneAtATime => [](UndoIsApplied /\ WayBackWaits)
<1>1. TypeOK /\ IdsAsked /\ OneAtATime /\ BulkInv /\ [Next]_vars => BulkInv'
  BY StepKeepsTheWay
<1>2. BulkInv => UndoIsApplied /\ WayBackWaits
  BY ServerAssumption DEF BulkInv, WayBackWaits, KeepsItsWay
<1>3. QED
  BY <1>1, <1>2, BulkStarts, TypeHolds, PTL DEF Spec

\* However many workers there are, while undoable saves come one at a time the
\* snapshot that undo reads is of a save that was applied, whatever fails or
\* dies in between (cs_metadata_undo_prepare, _commit, _discard).
THEOREM UndoIsAppliedAlways == Spec /\ []OneAtATime => []UndoIsApplied
  BY BulkHolds, PTL

\* Under the same condition an undoable save that is being applied has its way
\* back whole under ".new", so a commit has something to keep.
THEOREM WayBackWaitsAlways == Spec /\ []OneAtATime => []WayBackWaits
  BY BulkHolds, PTL

\* One worker that takes the undoable requests is enough for them to come one
\* at a time: only their saves touch the prepared snapshot.
THEOREM OneWorkerIsEnough ==
    ASSUME \A t, u \in BulkThreads : t = u
    PROVE  Spec => []OneAtATime
<1>1. BulkInv => OneAtATime
  BY DEF BulkInv, KeepsItsWay, OneAtATime
<1>2. TypeOK /\ IdsAsked /\ BulkInv /\ [Next]_vars => BulkInv'
  BY <1>1, StepKeepsTheWay
<1>3. QED
  BY <1>1, <1>2, BulkStarts, TypeHolds, PTL DEF Spec

-----------------------------------------------------------------------------
(* The editor implements LibraryEdits *)

\* The row a change means.
RowOf(c) == Meant(found, c)

\* What the open transaction has still to do is the end of the request.
Remaining(changes, todo, n) ==
    /\ n \in 0..Len(changes)
    /\ Len(todo) = Len(changes) - n
    /\ \A k \in 1..Len(todo) : todo[k] = changes[n + k]

\* old with the first n changes made.
Replaced(old, rows, changes, n) ==
    /\ \A a \in Addresses : (\A i \in 1..n : RowOf(changes[i]) # a) => rows[a] = old[a]
    /\ \A i \in 1..n :
          (\A j \in 1..n : j > i => RowOf(changes[j]) # RowOf(changes[i]))
             => rows[RowOf(changes[i])] = changes[i].value

\* old with the first n changes taken back, where they still stood.
Returned(old, rows, changes, n) ==
    /\ \A a \in Addresses : rows[a] # old[a] =>
          /\ \E i \in 1..n : RowOf(changes[i]) = a /\ Stands(found, old, changes[i])
          /\ \E i \in 1..n : RowOf(changes[i]) = a /\ rows[a] = changes[i].expected
    /\ \A i \in 1..n :
          /\ Stands(found, old, changes[i])
          /\ \A j \in DOMAIN changes \ {i} : RowOf(changes[j]) # RowOf(changes[i])
          => rows[RowOf(changes[i])] = changes[i].expected

\* The thread that owns the transaction is in the middle of a save over values
\* that are still there, or in the middle of an undo.
HalfWay(t, n) ==
    /\ Remaining(Job(t).changes, tx.todo, n)
    /\ \/ /\ thr[t].pc = "write"
          /\ ~Conflicts(found, settings, Job(t).changes)
          /\ Replaced(settings, tx.rows, Job(t).changes, n)
       \/ /\ thr[t].pc = "putback"
          /\ Returned(settings, tx.rows, Job(t).changes, n)

EditInv == \A t \in Threads : tx.owner = t => \E n \in Nat : HalfWay(t, n)

\* A change that is not refused means a row there is: of a listed game, or of the
\* system that the library has.
LEMMA RowIsThere ==
    ASSUME TypeOK, NEW c \in Changes, ~Refused(found, c)
    PROVE  /\ At(found, c.slot) = RowOf(c) /\ RowOf(c) \in Addresses
           /\ ~Homeless(found, c) => Edits!Reached(c)
<1>1. /\ found.live \in Cards \cup {NoCard} /\ found.system \in GameSystems \cup {NoSystem}
      /\ c.slot \in Slots /\ c.card \in Cards \cup {NoCard}
  BY DEF TypeOK, Found, Changes
<1>2. CASE c.slot \in FolderSlots
  <2>1. c.slot \notin CardSlots
    BY <1>2, LibraryAssumption
  <2>2. At(found, c.slot) = <<found.system, c.slot>> /\ RowOf(c) = <<found.system, c.slot>>
    BY <1>2, <2>1 DEF At, RowOf, Meant, RowOn
  <2>3. QED
    BY <1>1, <1>2, <2>2 DEF Addresses, Homeless, Edits!Reached
<1>3. CASE c.slot \notin FolderSlots
  <2>1. /\ c.slot \in found.listed
        /\ c.slot \in CardSlots => found.live \in Cards /\ c.card = found.live
    BY <1>1, <1>3 DEF Refused
  <2>2. Edits!Reached(c)
    BY <1>3, <2>1 DEF Edits!Reached
  <2>3. CASE c.slot \in CardSlots
    BY <1>1, <1>3, <2>1, <2>2, <2>3 DEF At, RowOf, Meant, RowOn, Addresses
  <2>4. CASE c.slot \notin CardSlots
    BY <1>1, <1>3, <2>1, <2>2, <2>4 DEF At, RowOf, Meant, RowOn, Addresses
  <2>5. QED
    BY <2>3, <2>4
<1>4. QED
  BY <1>2, <1>3

\* One more change made.
LEMMA ReplacedOneMore ==
    ASSUME TypeOK, NEW old \in Settings, NEW rows \in Settings,
           NEW changes \in Seq(Changes), NEW n \in Nat, n + 1 <= Len(changes),
           Replaced(old, rows, changes, n), ~Refused(found, changes[n + 1])
    PROVE  Replaced(old, Written(found, rows, changes[n + 1]), changes, n + 1)
<1> DEFINE c == changes[n + 1]
           new == Written(found, rows, c)
<1>1. c \in Changes /\ \A i \in 1..(n + 1) : changes[i] \in Changes
  OBVIOUS
<1>2. At(found, c.slot) = RowOf(c) /\ RowOf(c) \in Addresses
  BY <1>1, RowIsThere
<1>3. /\ new[RowOf(c)] = c.value
      /\ \A a : a \in Addresses /\ a # RowOf(c) => new[a] = rows[a]
  BY <1>2 DEF Written, Settings
<1>4. \A i \in 1..n : i \in 1..(n + 1)
  OBVIOUS
<1>5. ASSUME NEW a \in Addresses, \A i \in 1..(n + 1) : RowOf(changes[i]) # a
      PROVE  new[a] = old[a]
  BY <1>3, <1>4, <1>5 DEF Replaced
<1>6. ASSUME NEW i \in 1..(n + 1),
             \A j \in 1..(n + 1) : j > i => RowOf(changes[j]) # RowOf(changes[i])
      PROVE  new[RowOf(changes[i])] = changes[i].value
  <2>1. CASE i = n + 1
    BY <1>3, <2>1
  <2>2. CASE i \in 1..n
    <3>1. RowOf(changes[i]) # RowOf(c)
      BY <1>6, <2>2
    <3>2. rows[RowOf(changes[i])] = changes[i].value
      BY <1>4, <1>6, <2>2 DEF Replaced
    <3>3. new[RowOf(changes[i])] = rows[RowOf(changes[i])]
      BY <1>2, <3>1 DEF Written, Settings
    <3>4. QED
      BY <3>2, <3>3
  <2>3. QED
    BY <2>1, <2>2
<1> HIDE DEF new
<1>7. QED
  BY <1>5, <1>6 DEF Replaced, new

\* One more change taken back, or left alone.
LEMMA ReturnedOneMore ==
    ASSUME TypeOK, NEW old \in Settings, NEW rows \in Settings,
           NEW changes \in Seq(Changes), NEW n \in Nat, n + 1 <= Len(changes),
           Returned(old, rows, changes, n)
    PROVE  Returned(old, PutBack(found, rows, changes[n + 1]), changes, n + 1)
<1> DEFINE c == changes[n + 1]
           new == PutBack(found, rows, c)
<1>1. c \in Changes /\ DOMAIN changes = 1..Len(changes)
  OBVIOUS
<1>2. \A i \in 1..n : i \in 1..(n + 1)
  OBVIOUS
<1>3. CASE ~Stands(found, rows, c)
  <2>1. new = rows
    BY <1>3 DEF PutBack
  <2>2. \A a \in Addresses : rows[a] # old[a] =>
          /\ \E i \in 1..(n + 1) : RowOf(changes[i]) = a /\ Stands(found, old, changes[i])
          /\ \E i \in 1..(n + 1) : RowOf(changes[i]) = a /\ rows[a] = changes[i].expected
    BY <1>2 DEF Returned
  <2>3. ASSUME NEW i \in 1..(n + 1), Stands(found, old, changes[i]),
               \A j \in DOMAIN changes \ {i} : RowOf(changes[j]) # RowOf(changes[i])
        PROVE  rows[RowOf(changes[i])] = changes[i].expected
    <3>1. CASE i \in 1..n
      BY <2>3, <3>1 DEF Returned
    <3>2. CASE i = n + 1
      <4>1. At(found, c.slot) = RowOf(c) /\ RowOf(c) \in Addresses
        BY <1>1, <2>3, <3>2, RowIsThere DEF Stands
      <4>2. \A j \in 1..n : RowOf(changes[j]) # RowOf(c)
        BY <1>1, <2>3, <3>2
      <4>3. rows[RowOf(c)] = old[RowOf(c)]
        BY <4>1, <4>2 DEF Returned
      <4>4. Stands(found, rows, c)
        BY <2>3, <3>2, <4>1, <4>3 DEF Stands
      <4>5. QED
        BY <1>3, <4>4
    <3>3. QED
      BY <3>1, <3>2
  <2> HIDE DEF new
  <2>4. QED
    BY <2>1, <2>2, <2>3 DEF Returned, new
<1>4. CASE Stands(found, rows, c)
  <2>1. At(found, c.slot) = RowOf(c) /\ RowOf(c) \in Addresses
    BY <1>1, <1>4, RowIsThere DEF Stands
  <2>2. /\ new[RowOf(c)] = c.expected
        /\ \A a \in Addresses : a # RowOf(c) => new[a] = rows[a]
    BY <1>4, <2>1 DEF PutBack, Settings
  <2>3. ASSUME NEW a \in Addresses, new[a] # old[a]
        PROVE  /\ \E i \in 1..(n + 1) :
                     RowOf(changes[i]) = a /\ Stands(found, old, changes[i])
               /\ \E i \in 1..(n + 1) : RowOf(changes[i]) = a /\ new[a] = changes[i].expected
    <3>1. CASE a # RowOf(c)
      BY <1>2, <2>2, <2>3, <3>1 DEF Returned
    <3>2. CASE a = RowOf(c)
      <4>1. \E i \in 1..(n + 1) : RowOf(changes[i]) = a /\ new[a] = changes[i].expected
        BY <2>2, <3>2
      <4>2. CASE rows[a] = old[a]
        <5>1. Stands(found, old, c)
          BY <1>4, <2>1, <3>2, <4>2 DEF Stands
        <5>2. QED
          BY <3>2, <4>1, <5>1
      <4>3. CASE rows[a] # old[a]
        BY <1>2, <4>1, <4>3 DEF Returned
      <4>4. QED
        BY <4>2, <4>3
    <3>3. QED
      BY <3>1, <3>2
  <2>4. ASSUME NEW i \in 1..(n + 1), Stands(found, old, changes[i]),
               \A j \in DOMAIN changes \ {i} : RowOf(changes[j]) # RowOf(changes[i])
        PROVE  new[RowOf(changes[i])] = changes[i].expected
    <3>1. CASE i \in 1..n
      <4>1. changes[i] \in Changes /\ RowOf(c) # RowOf(changes[i])
        BY <1>1, <2>4, <3>1
      <4>2. RowOf(changes[i]) \in Addresses
        BY <2>4, <4>1, RowIsThere DEF Stands
      <4>3. rows[RowOf(changes[i])] = changes[i].expected
        BY <2>4, <3>1 DEF Returned
      <4>4. QED
        BY <2>2, <4>1, <4>2, <4>3
    <3>2. CASE i = n + 1
      BY <2>2, <3>2
    <3>3. QED
      BY <3>1, <3>2
  <2> HIDE DEF new
  <2>5. QED
    BY <2>3, <2>4 DEF Returned, new
<1>5. QED
  BY <1>3, <1>4

\* The head of what remains is the next change of the request.
LEMMA RemainingOneLess ==
    ASSUME NEW changes \in Seq(Changes), NEW todo \in Seq(Changes), NEW n \in Nat,
           Remaining(changes, todo, n), todo # <<>>
    PROVE  /\ n + 1 <= Len(changes) /\ Head(todo) = changes[n + 1]
           /\ Remaining(changes, Tail(todo), n + 1)
<1>1. Len(todo) \in Nat /\ Len(todo) > 0 /\ Len(changes) \in Nat
  BY EmptySeq
<1>2. /\ Head(todo) = todo[1] /\ Len(Tail(todo)) = Len(todo) - 1
      /\ \A k \in 1..Len(Tail(todo)) : Tail(todo)[k] = todo[k + 1]
  BY <1>1, HeadTailProperties
<1>3. n + 1 <= Len(changes) /\ Head(todo) = changes[n + 1]
  BY <1>1, <1>2 DEF Remaining
<1>4. \A k \in 1..Len(Tail(todo)) : Tail(todo)[k] = changes[n + 1 + k]
  BY <1>1, <1>2 DEF Remaining
<1>5. QED
  BY <1>1, <1>2, <1>3, <1>4 DEF Remaining

\* A step that leaves the library and the transaction alone, and is not of the
\* transaction's owner.
LEMMA OwnerGoesOn ==
    ASSUME TypeOK, IdsAsked, EditInv, UNCHANGED <<found, settings, tx>>,
           UNCHANGED asked \/ \E r \in Requests : asked' = Append(asked, r),
           \A u \in Threads : tx.owner = u => thr'[u] = thr[u]
    PROVE  EditInv'
<1> SUFFICES ASSUME NEW u \in Threads, tx.owner = u PROVE \E n \in Nat : HalfWay(u, n)'
  BY DEF EditInv
<1>1. PICK n \in Nat : HalfWay(u, n)
  BY DEF EditInv
<1>2. thr'[u] = thr[u] /\ thr[u].id \in 1..Len(asked) /\ asked \in Seq(Requests)
  BY <1>1 DEF HalfWay, IdsAsked, TypeOK
<1>3. Job(u)' = Job(u)
  BY <1>2 DEF Job
<1>4. HalfWay(u, n)'
  <2>1. Returned(settings, tx.rows, Job(u).changes, n) =>
           Returned(settings, tx.rows, Job(u).changes, n)'
    BY <1>3 DEF Returned, RowOf
  <2>2. Replaced(settings, tx.rows, Job(u).changes, n) =>
           Replaced(settings, tx.rows, Job(u).changes, n)'
    BY <1>3 DEF Replaced, RowOf
  <2>3. QED
    BY <1>1, <1>2, <1>3, <2>1, <2>2 DEF HalfWay
<1>5. QED
  BY <1>4

\* A transaction begins with nothing done.
LEMMA BeginsHalfWay ==
    ASSUME TypeOK, IdsAsked, NEW t \in Threads, thr[t].pc # "idle",
           UNCHANGED <<found, settings, asked>>,
           tx' = [owner |-> t, rows |-> settings, todo |-> Job(t).changes],
           \/ Goto(t, "write") /\ ~Conflicts(found, settings, Job(t).changes)
           \/ Goto(t, "putback")
    PROVE  EditInv'
<1>1. thr[t].id \in 1..Len(asked) /\ Job(t).changes \in Seq(Changes)
  BY JobType DEF IdsAsked
<1>2. /\ thr'[t].id = thr[t].id
      /\ \/ thr'[t].pc = "write" /\ ~Conflicts(found, settings, Job(t).changes)
         \/ thr'[t].pc = "putback"
  BY GotoGoes DEF Pcs
<1>3. Job(t)' = Job(t)
  BY <1>2 DEF Job
<1>4. tx'.owner = t /\ tx'.rows = settings /\ tx'.todo = Job(t).changes
  OBVIOUS
<1>5. Remaining(Job(t).changes, Job(t).changes, 0)
  BY <1>1 DEF Remaining
<1>6. /\ Replaced(settings, settings, Job(t).changes, 0)
      /\ Returned(settings, settings, Job(t).changes, 0)
  BY DEF Replaced, Returned
<1>7. HalfWay(t, 0)'
  <2>1. Remaining(Job(t)'.changes, tx'.todo, 0)
    BY <1>3, <1>4, <1>5
  <2>2. thr'[t].pc = "write" =>
           ~Conflicts(found', settings', Job(t)'.changes)
    BY <1>2, <1>3
  <2>3. /\ Replaced(settings, tx.rows, Job(t).changes, 0)'
        /\ Returned(settings, tx.rows, Job(t).changes, 0)'
    BY <1>3, <1>4, <1>6 DEF Replaced, Returned, RowOf
  <2>4. QED
    BY <1>2, <1>3, <1>4, <2>1, <2>2, <2>3 DEF HalfWay
<1>8. QED
  BY <1>4, <1>7 DEF EditInv

\* One more row of the transaction.
LEMMA GoesOneRow ==
    ASSUME TypeOK, IdsAsked, EditInv, NEW t \in Threads, tx.owner = t, tx.todo # <<>>,
           UNCHANGED <<found, settings, asked, thr>>,
           \/ /\ thr[t].pc = "write"
              /\ tx' = [tx EXCEPT !.rows = Written(found, tx.rows, Head(tx.todo)),
                                  !.todo = Tail(tx.todo)]
           \/ /\ thr[t].pc = "putback"
              /\ tx' = [tx EXCEPT !.rows = PutBack(found, tx.rows, Head(tx.todo)),
                                  !.todo = Tail(tx.todo)]
    PROVE  EditInv'
<1> DEFINE ch == Job(t).changes
<1>1. PICK n \in Nat : HalfWay(t, n)
  BY DEF EditInv
<1>2. tx \in Transaction /\ tx.rows \in Settings /\ tx.todo \in Seq(Changes)
  BY OwnedTx DEF Transaction
<1>3. /\ settings \in Settings /\ Job(t)' = Job(t) /\ ch \in Seq(Changes)
  BY <1>1, JobType DEF TypeOK, Job, HalfWay, IdsAsked
<1>4. Remaining(ch, tx.todo, n)
  BY <1>1 DEF HalfWay
<1> HIDE DEF ch
<1>5. /\ n + 1 <= Len(ch) /\ Head(tx.todo) = ch[n + 1]
      /\ Remaining(ch, Tail(tx.todo), n + 1)
  BY <1>2, <1>3, <1>4, RemainingOneLess
<1>6. /\ tx'.owner = t /\ tx'.todo = Tail(tx.todo)
      /\ \/ thr[t].pc = "write" /\ tx'.rows = Written(found, tx.rows, ch[n + 1])
         \/ thr[t].pc = "putback" /\ tx'.rows = PutBack(found, tx.rows, ch[n + 1])
  BY <1>2, <1>5 DEF Transaction
<1>7. CASE thr[t].pc = "write" /\ tx'.rows = Written(found, tx.rows, ch[n + 1])
  <2>1. ~Conflicts(found, settings, ch) /\ Replaced(settings, tx.rows, ch, n)
    BY <1>1, <1>7 DEF HalfWay, ch
  <2>2. ~Refused(found, ch[n + 1])
    <3>1. ch[n + 1] \in ToSet(ch)
      BY <1>3, <1>5 DEF ToSet
    <3>2. QED
      BY <2>1, <3>1 DEF Conflicts
  <2>3. Replaced(settings, tx'.rows, ch, n + 1)
    BY <1>2, <1>3, <1>5, <1>7, <2>1, <2>2, ReplacedOneMore
  <2>4. Replaced(settings, tx.rows, ch, n + 1)'
    BY <1>3, <2>3 DEF Replaced, RowOf, ch
  <2>5. HalfWay(t, n + 1)'
    BY <1>3, <1>5, <1>6, <1>7, <2>1, <2>4 DEF HalfWay, ch
  <2>6. QED
    BY <1>6, <2>5 DEF EditInv
<1>8. CASE thr[t].pc = "putback" /\ tx'.rows = PutBack(found, tx.rows, ch[n + 1])
  <2>1. Returned(settings, tx.rows, ch, n)
    BY <1>1, <1>8 DEF HalfWay, ch
  <2>2. Returned(settings, tx'.rows, ch, n + 1)
    BY <1>2, <1>3, <1>5, <1>8, <2>1, ReturnedOneMore
  <2>3. Returned(settings, tx.rows, ch, n + 1)'
    BY <1>3, <2>2 DEF Returned, RowOf, ch
  <2>4. HalfWay(t, n + 1)'
    BY <1>3, <1>5, <1>6, <1>8, <2>3 DEF HalfWay, ch
  <2>5. QED
    BY <1>6, <2>4 DEF EditInv
<1>9. QED
  BY <1>6, <1>7, <1>8

LEMMA EditKeeps ==
    ASSUME TypeOK, IdsAsked, EditInv, [Next]_vars
    PROVE  EditInv'
<1> USE DEF library, files, history
<1>o. \A t \in Threads : tx.owner = t => thr[t].pc \in {"write", "putback"}
  BY DEF EditInv, HalfWay
<1>e. tx' = NoTx => EditInv'
  BY ServerAssumption DEF EditInv, NoTx
<1>q. ASSUME NEW t \in Threads, thr[t].pc \notin {"write", "putback"}, Stays(t),
             UNCHANGED <<found, settings, tx>>,
             UNCHANGED asked \/ \E r \in Requests : asked' = Append(asked, r)
      PROVE  EditInv'
  BY <1>o, <1>q, OwnerGoesOn DEF Stays
<1>1. ASSUME NEW t \in Threads, Save(t) \/ Undo(t) PROVE EditInv'
  BY <1>1, <1>q DEF Save, Undo, PcIs, TypeOK, Stays
<1>2. ASSUME NEW t \in Threads, OpenPrepared(t) PROVE EditInv'
  BY <1>2, <1>q, AnswerEnds DEF OpenPrepared, PcIs, TypeOK, Stays
<1>3. ASSUME NEW t \in Threads, SyncPrepared(t) PROVE EditInv'
  BY <1>3, <1>q, AnswerEnds, GotoGoes DEF SyncPrepared, PcIs, Pcs
<1>4. ASSUME NEW t \in Threads, Keep(t) \/ Discard(t) \/ Clear(t) PROVE EditInv'
  BY <1>4, <1>q, AnswerEnds DEF Keep, Discard, Clear, PcIs
<1>5. ASSUME NEW t \in Threads, BeginApply(t) PROVE EditInv'
  <2>1. thr[t].pc = "apply" /\ UNCHANGED <<library, scanning, files, history>>
    BY <1>5 DEF BeginApply, PcIs
  <2>2. CASE Rejected(t) /\ UNCHANGED tx
    BY <1>q, <2>1, <2>2, WaysOut
  <2>3. CASE /\ ~Conflicts(found, settings, Job(t).changes)
             /\ tx' = [owner |-> t, rows |-> settings, todo |-> Job(t).changes]
             /\ Goto(t, "write")
    BY <2>1, <2>3, BeginsHalfWay
  <2>4. QED
    BY <1>5, <2>2, <2>3 DEF BeginApply
<1>6. ASSUME NEW t \in Threads, BeginRestore(t) PROVE EditInv'
  <2>1. thr[t].pc = "restore" /\ UNCHANGED <<library, scanning, files, history>>
    BY <1>6 DEF BeginRestore, PcIs
  <2>2. CASE Answer(t) /\ UNCHANGED tx
    BY <1>q, <2>1, <2>2, AnswerEnds
  <2>3. CASE /\ tx' = [owner |-> t, rows |-> settings, todo |-> Job(t).changes]
             /\ Goto(t, "putback")
    BY <2>1, <2>3, BeginsHalfWay
  <2>4. QED
    BY <1>6, <2>2, <2>3 DEF BeginRestore
<1>7. ASSUME NEW t \in Threads, WriteRow(t) \/ PutBackRow(t) PROVE EditInv'
  <2>1. tx.owner = t /\ tx.todo # <<>> /\ UNCHANGED <<library, scanning, files, history>>
    BY <1>7 DEF WriteRow, PutBackRow
  <2>2. CASE Rollback
    BY <1>e, <2>2 DEF Rollback
  <2>3. CASE ~Rollback
    BY <1>7, <2>1, <2>3, GoesOneRow DEF WriteRow, PutBackRow, PcIs
  <2>4. QED
    BY <2>2, <2>3
<1>8. ASSUME NEW t \in Threads, CommitApply(t) \/ CommitRestore(t) PROVE EditInv'
  BY <1>8, <1>e DEF CommitApply, CommitRestore, Rollback
<1>9. CASE Reconcile
  BY <1>9, <1>e DEF Reconcile
<1>10. CASE Die
  BY <1>10, <1>e DEF Die
<1>11. CASE Scan \/ UNCHANGED vars
  BY <1>11, OwnerGoesOn DEF Scan, vars
<1>12. QED
  BY <1>1, <1>2, <1>3, <1>4, <1>5, <1>6, <1>7, <1>8, <1>9, <1>10, <1>11 DEF Next, Handle

\* The commit of a save is a Replace, that of an undo a Restore.
LEMMA CommitIsEdit ==
    ASSUME TypeOK, IdsAsked, EditInv, NEW t \in Threads, tx.owner = t, tx.todo = <<>>,
           settings' = tx.rows, UNCHANGED found
    PROVE  \/ Edits!Replace(Job(t).changes)
           \/ thr[t].pc = "putback" /\ Edits!Restore(Job(t).changes)
<1> DEFINE ch == Job(t).changes
<1>1. PICK n \in Nat : HalfWay(t, n)
  BY DEF EditInv
<1>2. ch \in Seq(Changes)
  BY <1>1, JobType DEF HalfWay, IdsAsked
<1>3. n = Len(ch) /\ DOMAIN ch = 1..n /\ ToSet(ch) = {ch[i] : i \in 1..n}
      /\ \A i \in 1..n : ch[i] \in Changes
  BY <1>1, <1>2 DEF HalfWay, Remaining, ToSet
<1>4. settings' \in Edits!Settings
  BY OwnedTx DEF Transaction, Settings, Addresses, Edits!Settings, Edits!Addresses
<1>5. Edits!Addresses = Addresses /\ \A c : Edits!Row(c) = RowOf(c)
  BY DEF Edits!Addresses, Addresses, Edits!Row, Edits!Meant, Edits!RowOn, RowOf, Meant, RowOn
<1>6. Edits!ToSet(ch) = ToSet(ch)
  BY DEF Edits!ToSet, ToSet
<1>7. \A s, e, v : Edits!Matches(s, e, v) = Matches(s, e, v)
  BY DEF Edits!Matches, Matches, Edits!Rank, Rank
<1>8. \A c : Edits!Stands(found, settings, c) <=> Stands(found, settings, c)
  BY <1>7 DEF Edits!Stands, Stands, Edits!Refused, Refused, Edits!At, At, Edits!RowOn, RowOn
<1> HIDE DEF ch
<1>9. CASE thr[t].pc = "write"
  <2>1. ~Conflicts(found, settings, ch) /\ Replaced(settings, settings', ch, n)
    BY <1>1, <1>9 DEF HalfWay, ch
  <2>2. \A c \in ToSet(ch) :
           ~Refused(found, c) /\ ~Homeless(found, c) /\ ~Stale(found, settings, c)
    BY <2>1 DEF Conflicts
  <2>3. \A c \in ToSet(ch) :
           Edits!Reached(c) /\ Matches(c.slot, c.expected, settings[RowOf(c)])
    BY <1>3, <2>2, RowIsThere DEF Stale
  <2>4. /\ \A a \in Addresses :
              (\A c \in ToSet(ch) : RowOf(c) # a) => settings'[a] = settings[a]
        /\ \A i \in DOMAIN ch :
              (\A j \in DOMAIN ch : j > i => RowOf(ch[j]) # RowOf(ch[i]))
                 => settings'[RowOf(ch[i])] = ch[i].value
    BY <1>3, <2>1 DEF Replaced
  <2>5. Edits!Replace(ch)
    BY <1>4, <1>5, <1>6, <1>7, <2>3, <2>4 DEF Edits!Replace
  <2>6. QED
    BY <2>5 DEF ch
<1>10. CASE thr[t].pc = "putback"
  <2>1. Returned(settings, settings', ch, n)
    BY <1>1, <1>10 DEF HalfWay, ch
  <2>2. /\ \A a \in Addresses : settings'[a] # settings[a] =>
              /\ \E c \in ToSet(ch) : RowOf(c) = a /\ Stands(found, settings, c)
              /\ \E c \in ToSet(ch) : RowOf(c) = a /\ settings'[a] = c.expected
        /\ \A i \in DOMAIN ch :
              /\ Stands(found, settings, ch[i])
              /\ \A j \in DOMAIN ch \ {i} : RowOf(ch[j]) # RowOf(ch[i])
              => settings'[RowOf(ch[i])] = ch[i].expected
    BY <1>3, <2>1 DEF Returned
  <2>3. Edits!Restore(ch)
    BY <1>4, <1>5, <1>6, <1>8, <2>2 DEF Edits!Restore
  <2>4. QED
    BY <1>10, <2>3 DEF ch
<1>11. QED
  BY <1>1, <1>9, <1>10 DEF HalfWay

\* Every step of the server is an edit, a rescan, or one that the library's
\* readers do not see.
LEMMA StepIsEdit ==
    ASSUME TypeOK, IdsAsked, EditInv, [Next]_vars
    PROVE  [Edits!Next]_(Edits!library)
<1> USE DEF library, Edits!library
<1>1. ASSUME UNCHANGED library PROVE [Edits!Next]_(Edits!library)
  BY <1>1
<1>2. ASSUME NEW t \in Threads, CommitApply(t) \/ CommitRestore(t)
      PROVE  [Edits!Next]_(Edits!library)
  <2>1. tx.owner = t /\ tx.todo = <<>> /\ UNCHANGED found /\ thr[t].pc # "idle"
    BY <1>2 DEF CommitApply, CommitRestore, PcIs
  <2>2. settings' = settings \/ settings' = tx.rows
    BY <1>2 DEF CommitApply, CommitRestore
  <2>3. CASE settings' = tx.rows
    <3>1. Job(t) \in Requests
      BY <2>1, JobType DEF IdsAsked
    <3>2. \E changes \in {r.changes : r \in Requests} :
             Edits!Replace(changes) \/ Edits!Restore(changes)
      BY <2>1, <2>3, <3>1, CommitIsEdit
    <3>3. QED
      BY <3>2 DEF Edits!Next
  <2>4. QED
    BY <1>1, <2>1, <2>2, <2>3
<1>3. CASE Reconcile
  BY <1>3 DEF Reconcile, Edits!Next, Edits!Reconcile
<1>4. QED
  BY <1>1, <1>2, <1>3
  DEF Next, Handle, vars, Save, Undo, OpenPrepared, SyncPrepared, Keep, Discard, BeginApply,
      WriteRow, BeginRestore, PutBackRow, Clear, Scan, Die

\* The server implements LibraryEdits: whatever the workers interleave, fail at
\* or die in, and whatever Leaf rescans, the library changes only by a whole
\* request over the values its sender was shown, or by an undo of what still
\* stands (cs_metadata_apply, cs_metadata_undo_apply).
THEOREM LibraryIsEditedAlways == Spec => LibraryIsEdited
<1>1. Init => EditInv /\ Edits!Init
  BY ServerAssumption DEF Init, EditInv, NoTx, Edits!Init
<1>2. TypeOK /\ IdsAsked /\ EditInv /\ [Next]_vars => EditInv'
  BY EditKeeps
<1>3. TypeOK /\ IdsAsked /\ EditInv /\ [Next]_vars => [Edits!Next]_(Edits!library)
  BY StepIsEdit
<1>4. QED
  BY <1>1, <1>2, <1>3, TypeHolds, PTL DEF Spec, LibraryIsEdited, Edits!Spec

-----------------------------------------------------------------------------
(* That the library's lock is let go of is left to TLC (LockIsReleased).  It   *)
(* follows from two facts: the lock is held by the request that is among its   *)
(* rows and by no other, and each of its steps there leaves it fewer rows.     *)

Locking == {"write", "putback"}

\* A request is among its rows just while the transaction is its own.
LockIsHeld == \A t \in Threads : thr[t].pc \in Locking <=> tx.owner = t

LEMMA NoTxOwner == \A t \in Threads : NoTx.owner # t
BY ServerAssumption DEF NoTx

\* A step of t that does not touch the transaction, which is not t's.
LEMMA OutsideLock ==
    ASSUME LockIsHeld, NEW t \in Threads, Stays(t), tx' = tx,
           thr[t].pc \notin Locking, thr'[t].pc \notin Locking
    PROVE  LockIsHeld'
BY DEF LockIsHeld, Stays

LEMMA LockTaken ==
    ASSUME LockIsHeld, NEW t \in Threads, Stays(t), tx = NoTx,
           tx'.owner = t, thr'[t].pc \in Locking
    PROVE  LockIsHeld'
BY NoTxOwner DEF LockIsHeld, Stays

LEMMA LockLetGo ==
    ASSUME LockIsHeld, NEW t \in Threads, Stays(t), tx.owner = t,
           tx' = NoTx, thr'[t].pc \notin Locking
    PROVE  LockIsHeld'
BY NoTxOwner DEF LockIsHeld, Stays

LEMMA LockSteps ==
    ASSUME TypeOK, IdsAsked, LockIsHeld, NEW t \in Threads, Save(t) \/ Undo(t) \/ Handle(t)
    PROVE  LockIsHeld'
<1>0. thr \in Workers /\ Idle.pc \notin Locking
  BY DEF TypeOK, Workers, Idle, Locking
<1>1. CASE Save(t) \/ Undo(t)
  BY <1>0, <1>1, OutsideLock DEF Save, Undo, PcIs, Workers, Stays, Locking
<1>2. CASE OpenPrepared(t)
  <2>1. thr[t].pc = "prepare" /\ tx' = tx
    BY <1>2 DEF OpenPrepared, PcIs
  <2>2. CASE Answer(t)
    BY <1>0, <2>1, <2>2, OutsideLock, AnswerEnds DEF Locking
  <2>3. CASE ~Answer(t)
    <3>1. PICK i \in Inodes : thr' = [thr EXCEPT ![t].pc = "sync", ![t].inode = i]
      BY <1>2, <2>3 DEF OpenPrepared
    <3>2. thr'[t].pc = "sync" /\ Stays(t)
      BY <1>0, <3>1 DEF Workers, ThreadState, Stays
    <3>3. QED
      BY <2>1, <3>2, OutsideLock DEF Locking
  <2>4. QED
    BY <2>2, <2>3
<1>3. CASE SyncPrepared(t)
  BY <1>0, <1>3, OutsideLock, AnswerEnds, GotoGoes DEF SyncPrepared, PcIs, Pcs, Locking
<1>4. CASE Keep(t) \/ Discard(t) \/ Clear(t)
  BY <1>0, <1>4, OutsideLock, AnswerEnds DEF Keep, Discard, Clear, PcIs, Locking
<1>5. CASE BeginApply(t)
  <2>1. thr[t].pc = "apply"
    BY <1>5 DEF BeginApply, PcIs
  <2>2. CASE Rejected(t) /\ UNCHANGED tx
    BY <1>0, <2>1, <2>2, OutsideLock, WaysOut DEF Locking
  <2>3. CASE /\ tx = NoTx
             /\ tx' = [owner |-> t, rows |-> settings, todo |-> Job(t).changes]
             /\ Goto(t, "write")
    BY <2>1, <2>3, LockTaken, GotoGoes DEF Pcs, Locking
  <2>4. QED
    BY <1>5, <2>2, <2>3 DEF BeginApply
<1>6. CASE BeginRestore(t)
  <2>1. thr[t].pc = "restore"
    BY <1>6 DEF BeginRestore, PcIs
  <2>2. CASE Answer(t) /\ UNCHANGED tx
    BY <1>0, <2>1, <2>2, OutsideLock, AnswerEnds DEF Locking
  <2>3. CASE /\ tx = NoTx
             /\ tx' = [owner |-> t, rows |-> settings, todo |-> Job(t).changes]
             /\ Goto(t, "putback")
    BY <2>1, <2>3, LockTaken, GotoGoes DEF Pcs, Locking
  <2>4. QED
    BY <1>6, <2>2, <2>3 DEF BeginRestore
<1>7. CASE WriteRow(t) \/ PutBackRow(t)
  <2>1. tx.owner = t /\ thr[t].pc \in Locking
    BY <1>7 DEF WriteRow, PutBackRow, PcIs, Locking
  <2>2. CASE tx'.owner = tx.owner /\ UNCHANGED thr
    BY <2>2 DEF LockIsHeld
  <2>3. CASE Rollback /\ (Rejected(t) \/ Answer(t))
    BY <1>0, <2>1, <2>3, LockLetGo, WaysOut, AnswerEnds DEF Rollback, Locking
  <2>4. (tx'.owner = tx.owner /\ UNCHANGED thr) \/ (Rollback /\ (Rejected(t) \/ Answer(t)))
    <3>1. tx \in Transaction
      BY <2>1, OwnedTx
    <3>2. QED
      BY <1>7, <3>1 DEF WriteRow, PutBackRow, Transaction
  <2>5. QED
    BY <2>2, <2>3, <2>4
<1>8. CASE CommitApply(t)
  <2>1. tx.owner = t /\ tx' = NoTx /\ (Applied(t) \/ Rejected(t))
    BY <1>8 DEF CommitApply, Rollback
  <2>2. QED
    BY <1>0, <2>1, LockLetGo, WaysOut DEF Locking
<1>9. CASE CommitRestore(t)
  <2>1. tx.owner = t /\ tx' = NoTx /\ (Goto(t, "clear") \/ Answer(t))
    BY <1>9 DEF CommitRestore, Rollback
  <2>2. QED
    BY <1>0, <2>1, LockLetGo, AnswerEnds, GotoGoes DEF Pcs, Locking
<1>10. QED
  BY <1>1, <1>2, <1>3, <1>4, <1>5, <1>6, <1>7, <1>8, <1>9 DEF Handle

\* The library is never left locked by a handler that has gone on or failed, nor
\* does one write rows without the lock: a row of another's save would go with
\* them (cs_metadata_apply, cs_metadata_undo_apply).
THEOREM LockIsHeldAlways == Spec => []LockIsHeld
<1>1. Init => LockIsHeld
  BY NoTxOwner DEF Init, Idle, LockIsHeld, Locking
<1>2. TypeOK /\ IdsAsked /\ LockIsHeld /\ [Next]_vars => LockIsHeld'
  <2> SUFFICES ASSUME TypeOK, IdsAsked, LockIsHeld, [Next]_vars PROVE LockIsHeld'
    OBVIOUS
  <2>1. CASE Scan \/ Reconcile \/ UNCHANGED vars
    BY <2>1 DEF Scan, Reconcile, vars, LockIsHeld
  <2>2. CASE Die
    BY <2>2, NoTxOwner DEF Die, Idle, LockIsHeld, Locking
  <2>3. QED
    BY <2>1, <2>2, LockSteps DEF Next
<1>3. QED
  BY <1>1, <1>2, TypeHolds, PTL DEF Spec

\* While t has the lock, its steps end the transaction or do one row of it, and
\* nobody else's change it, but for the process dying.
RowsRunOut ==
    [][\A t \in Threads : tx.owner = t =>
          \/ tx' = NoTx
          \/ Handle(t) /\ tx'.owner = t /\ Len(tx'.todo) = Len(tx.todo) - 1
          \/ ~Handle(t) /\ tx' = tx /\ thr'[t] = thr[t]]_vars

LEMMA RowIsDone ==
    ASSUME TypeOK, IdsAsked, LockIsHeld, NEW t \in Threads, tx.owner = t, Handle(t)
    PROVE  tx' = NoTx \/ (tx'.owner = t /\ Len(tx'.todo) = Len(tx.todo) - 1)
<1>1. thr[t].pc \in Locking /\ tx \in Transaction
  BY OwnedTx DEF LockIsHeld
<1>2. WriteRow(t) \/ CommitApply(t) \/ PutBackRow(t) \/ CommitRestore(t)
  BY <1>1 DEF Handle, OpenPrepared, SyncPrepared, Keep, Discard, BeginApply, BeginRestore, Clear,
      PcIs, Locking
<1>3. CASE CommitApply(t) \/ CommitRestore(t)
  BY <1>3 DEF CommitApply, CommitRestore, Rollback
<1>4. CASE WriteRow(t) \/ PutBackRow(t)
  <2>1. tx.todo \in Seq(Changes) /\ tx.todo # <<>>
    BY <1>1, <1>4 DEF Transaction, WriteRow, PutBackRow
  <2>2. tx' = NoTx \/ (tx'.owner = t /\ tx'.todo = Tail(tx.todo))
    BY <1>1, <1>4 DEF WriteRow, PutBackRow, Rollback, Transaction
  <2>3. Len(Tail(tx.todo)) = Len(tx.todo) - 1
    BY <2>1, HeadTailProperties
  <2>4. QED
    BY <2>2, <2>3
<1>5. QED
  BY <1>2, <1>3, <1>4

LEMMA OthersKeepOff ==
    ASSUME TypeOK, IdsAsked, LockIsHeld, NEW t \in Threads, tx.owner = t,
           NEW u \in Threads, u # t, Save(u) \/ Undo(u) \/ Handle(u)
    PROVE  tx' = tx /\ thr'[t] = thr[t]
<1>1. thr[u].pc \notin Locking /\ tx # NoTx /\ thr \in Workers
  BY NoTxOwner DEF LockIsHeld, TypeOK, Workers
<1>2. CASE Save(u) \/ Undo(u)
  BY <1>1, <1>2 DEF Save, Undo, Workers
<1>3. CASE OpenPrepared(u)
  BY <1>1, <1>3, AnswerEnds DEF OpenPrepared, Workers, Stays
<1>4. CASE SyncPrepared(u) \/ Keep(u) \/ Discard(u) \/ Clear(u)
  BY <1>1, <1>4, AnswerEnds, GotoGoes DEF SyncPrepared, Keep, Discard, Clear, Pcs, Stays
<1>5. CASE BeginApply(u) \/ BeginRestore(u)
  <2>1. tx' = tx /\ (Rejected(u) \/ Answer(u)) /\ thr[u].pc \in {"apply", "restore"}
    BY <1>1, <1>5 DEF BeginApply, BeginRestore, PcIs
  <2>2. QED
    BY <2>1, WaysOut, AnswerEnds DEF Stays
<1>6. QED
  BY <1>1, <1>2, <1>3, <1>4, <1>5
  DEF Handle, WriteRow, PutBackRow, CommitApply, CommitRestore, PcIs, Locking

\* A transaction ends after as many steps of its handler as its request has
\* changes and one more, at most, and what other requests and Leaf do meanwhile
\* neither ends nor delays it.
THEOREM RowsRunOutAlways == Spec => RowsRunOut
<1> DEFINE Row(t) == tx.owner = t =>
       \/ tx' = NoTx
       \/ Handle(t) /\ tx'.owner = t /\ Len(tx'.todo) = Len(tx.todo) - 1
       \/ ~Handle(t) /\ tx' = tx /\ thr'[t] = thr[t]
<1>1. ASSUME TypeOK, IdsAsked, LockIsHeld, Next, NEW t \in Threads PROVE Row(t)
  <2> SUFFICES ASSUME tx.owner = t, tx' # NoTx, ~Handle(t) PROVE tx' = tx /\ thr'[t] = thr[t]
    BY <1>1, RowIsDone
  <2>1. CASE Scan \/ Reconcile
    BY <1>1, <2>1 DEF Scan, Reconcile
  <2>2. CASE Die
    BY <2>2 DEF Die
  <2>3. ~Save(t) /\ ~Undo(t)
    BY <1>1 DEF LockIsHeld, Save, Undo, PcIs, Locking
  <2>4. ASSUME NEW u \in Threads, u # t, Save(u) \/ Undo(u) \/ Handle(u)
        PROVE  tx' = tx /\ thr'[t] = thr[t]
    BY <1>1, <2>4, OthersKeepOff
  <2>5. QED
    BY <1>1, <2>1, <2>2, <2>3, <2>4 DEF Next
<1>2. TypeOK /\ IdsAsked /\ LockIsHeld /\ [Next]_vars => [\A t \in Threads : Row(t)]_vars
  BY <1>1
<1>3. Spec => [][\A t \in Threads : Row(t)]_vars
  <2> HIDE DEF Row
  <2> QED BY <1>2, TypeHolds, LockIsHeldAlways, PTL DEF Spec
<1>4. QED
  BY <1>3 DEF RowsRunOut

-----------------------------------------------------------------------------
(* The least of some numbers *)

LEMMA LeastOf ==
    ASSUME NEW S, S \subseteq Nat, \E i : i \in S
    PROVE  \E i \in S : \A j \in S : i <= j
<1> DEFINE less == {ss \in Nat \X Nat : ss[1] < ss[2]}
<1>1. IsWellFoundedOn(less, Nat)
  BY NatLessThanWellFounded DEF OpToRel
<1> HIDE DEF less
<1>2. PICK i \in S : \A j \in S : ~(<<j, i>> \in less)
  BY <1>1, WFMin
<1>3. ASSUME NEW j \in S PROVE i <= j
  <2>1. i \in Nat /\ j \in Nat
    BY <1>2
  <2>2. <<j, i>> \notin less
    BY <1>2
  <2>3. ~(j < i)
    BY <2>1, <2>2 DEF less
  <2> QED BY <2>1, <2>3
<1> QED BY <1>3

-----------------------------------------------------------------------------
(* Folds: what a walk along a sequence comes to *)

\* What holds of 0, and after each number of the next, holds up to n.
LEMMA Climb ==
    ASSUME NEW n \in Nat, NEW G,
           0 \in G, \A k \in 1 .. n : k - 1 \in G => k \in G
    PROVE  \A k \in 0 .. n : k \in G
<1> DEFINE bad == {k \in 0 .. n : k \notin G}
<1>1. SUFFICES ASSUME \E k : k \in bad PROVE FALSE
  OBVIOUS
<1> HIDE DEF bad
<1>2. bad \subseteq Nat
  BY DEF bad
<1>3. PICK k \in bad : \A j \in bad : k <= j
  BY <1>1, <1>2, LeastOf
<1>4. k \in 0 .. n /\ k \notin G /\ k # 0
  BY <1>3 DEF bad
<1>5. k \in 1 .. n /\ k - 1 \in 0 .. n /\ ~(k <= k - 1)
  BY <1>4
<1>6. k - 1 \notin bad
  BY <1>3, <1>5
<1>7. k - 1 \in G
  BY <1>5, <1>6 DEF bad
<1> QED BY <1>4, <1>5, <1>7

LEMMA UpTo ==
    ASSUME NEW k \in Nat \ {0}
    PROVE  /\ 1 .. k # {} /\ Max(1 .. k) = k /\ (1 .. k) \ {k} = 1 .. (k - 1)
<1>1. \A x \in 1 .. k : x <= k
  OBVIOUS
<1>2. k \in 1 .. k
  OBVIOUS
<1>3. Max(1 .. k) \in 1 .. k /\ \A x \in 1 .. k : Max(1 .. k) >= x
  BY <1>1, <1>2 DEF Max
<1>4. Max(1 .. k) = k
  BY <1>1, <1>2, <1>3
<1> QED BY <1>2, <1>4

LEMMA LargestOf ==
    ASSUME NEW n \in Nat, NEW S \in SUBSET (1 .. n), S # {}
    PROVE  Max(S) \in S /\ \A j \in S : Max(S) >= j
<1> DEFINE down == {n - i : i \in S}
<1>1. down \subseteq Nat /\ \E i : i \in down
  <2>1. \A i \in S : n - i \in Nat /\ n - i \in down
    OBVIOUS
  <2>2. down \subseteq Nat
    BY <2>1
  <2>3. PICK i : i \in S
    OBVIOUS
  <2> QED BY <2>1, <2>2, <2>3
<1> HIDE DEF down
<1>2. PICK i \in down : \A j \in down : i <= j
  BY <1>1, LeastOf
<1>3. PICK m \in S : i = n - m
  BY <1>2 DEF down
<1>4. ASSUME NEW j \in S PROVE m >= j
  <2>1. n - j \in down
    BY DEF down
  <2>2. n - m <= n - j /\ m \in Nat /\ j \in Nat
    BY <1>2, <1>3, <2>1
  <2> QED BY <2>2
<1> QED BY <1>4 DEF Max

\* The values of a fold that takes the largest element first.
Ways(f, n, V, b, g) ==
    /\ f \in [SUBSET (1 .. n) -> V]
    /\ \A s \in SUBSET (1 .. n) : f[s] = IF s = {} THEN b ELSE g[<<f[s \ {Max(s)}], Max(s)>>]

LEMMA FoldStarts ==
    ASSUME NEW V, NEW b \in V, NEW g
    PROVE  \E f : Ways(f, 0, V, b, g)
<1> DEFINE f == [s \in SUBSET (1 .. 0) |-> b]
<1>1. 1 .. 0 = {}
  OBVIOUS
<1>2. Ways(f, 0, V, b, g)
  BY <1>1 DEF Ways
<1> QED BY <1>2

LEMMA FoldGoesOn ==
    ASSUME NEW n \in Nat, NEW k \in 1 .. n, NEW V, NEW b \in V, NEW g \in [V \X (1 .. n) -> V],
           \E f : Ways(f, k - 1, V, b, g)
    PROVE  \E f : Ways(f, k, V, b, g)
<1>1. PICK e : Ways(e, k - 1, V, b, g)
  OBVIOUS
<1> DEFINE f == [s \in SUBSET (1 .. k) |-> IF k \in s THEN g[<<e[s \ {k}], k>>] ELSE e[s]]
<1>2. \A s \in SUBSET (1 .. k) : s \ {k} \in SUBSET (1 .. (k - 1))
  OBVIOUS
<1>3. \A s \in SUBSET (1 .. k) : k \notin s => s \in SUBSET (1 .. (k - 1))
  OBVIOUS
<1>4. e \in [SUBSET (1 .. (k - 1)) -> V]
  BY <1>1 DEF Ways
<1>5. ASSUME NEW s \in SUBSET (1 .. k) PROVE f[s] \in V
  <2>1. CASE k \in s
    <3>1. e[s \ {k}] \in V
      BY <1>2, <1>4
    <3>2. <<e[s \ {k}], k>> \in V \X (1 .. n)
      BY <3>1
    <3> QED BY <2>1, <3>2
  <2>2. CASE k \notin s
    BY <1>3, <1>4, <2>2
  <2> QED BY <2>1, <2>2
<1>6. f \in [SUBSET (1 .. k) -> V]
  BY <1>5
<1>7. ASSUME NEW s \in SUBSET (1 .. k)
      PROVE  f[s] = IF s = {} THEN b ELSE g[<<f[s \ {Max(s)}], Max(s)>>]
  <2>1. CASE k \in s
    <3>1. k \in Nat /\ s # {}
      BY <2>1
    <3>2. PICK m \in s : m = Max(s) /\ m >= k
      BY <2>1, <3>1, LargestOf
    <3>3. Max(s) = k
      BY <3>2
    <3>4. s \ {k} \in SUBSET (1 .. k) /\ k \notin s \ {k}
      OBVIOUS
    <3>5. f[s \ {k}] = e[s \ {k}]
      BY <3>4
    <3>6. f[s] = g[<<e[s \ {k}], k>>] /\ s # {}
      BY <2>1
    <3> QED BY <3>3, <3>5, <3>6
  <2>2. CASE k \notin s
    <3>1. s \in SUBSET (1 .. (k - 1))
      BY <1>3, <2>2
    <3>2. f[s] = e[s] /\ s \ {Max(s)} \in SUBSET (1 .. k) /\ k \notin s \ {Max(s)}
      BY <2>2
    <3>3. f[s \ {Max(s)}] = e[s \ {Max(s)}]
      BY <3>2
    <3> QED BY <1>1, <3>1, <3>2, <3>3 DEF Ways
  <2> QED BY <2>1, <2>2
<1>8. Ways(f, k, V, b, g)
  BY <1>6, <1>7 DEF Ways
<1> QED BY <1>8

LEMMA FoldWays ==
    ASSUME NEW n \in Nat, NEW V, NEW b \in V, NEW g \in [V \X (1 .. n) -> V]
    PROVE  \E f : Ways(f, n, V, b, g)
<1> DEFINE G == {k \in 0 .. n : \E f : Ways(f, k, V, b, g)}
<1>1. 0 \in G
  BY FoldStarts
<1>2. ASSUME NEW k \in 1 .. n, k - 1 \in G PROVE k \in G
  <2>1. \E f : Ways(f, k - 1, V, b, g)
    BY <1>2
  <2>2. \E f : Ways(f, k, V, b, g)
    BY <2>1, FoldGoesOn
  <2>3. k \in 0 .. n
    OBVIOUS
  <2> QED BY <2>2, <2>3
<1> HIDE DEF G
<1>3. \A k \in 0 .. n : k \in G
  BY <1>1, <1>2, Climb
<1>4. n \in G
  BY <1>3
<1> QED BY <1>4 DEF G

\* The folds of the model, and their walks: the value after each element.
Noting(b, s) == FoldLeft(NoteDir, b, s)

LEMMA NoteDirWalk ==
    ASSUME NEW V, NEW E, NEW b \in V, NEW s \in Seq(E),
           \A x \in V, e \in E : NoteDir(x, e) \in V
    PROVE  \E a : /\ a[0] = b /\ a[Len(s)] = Noting(b, s)
                  /\ \A k \in 1 .. Len(s) : a[k] = NoteDir(a[k - 1], s[k])
<1>1. PICK n \in Nat : n = Len(s) /\ DOMAIN s = 1 .. n
  BY LenProperties
<1> DEFINE Folds(iter) ==
        iter = [ss \in SUBSET (1 .. n) |->
                   IF ss = {} THEN b ELSE NoteDir(iter[ss \ {Max(ss)}], s[Max(ss)])]
<1> DEFINE g == [x \in V \X (1 .. n) |-> NoteDir(x[1], s[x[2]])]
<1>2. \A k \in 1 .. n : s[k] \in E
  BY <1>1, ElementOfSeq
<1>3. g \in [V \X (1 .. n) -> V]
  BY <1>2
<1>4. PICK f : Ways(f, n, V, b, g)
  BY <1>3, FoldWays
<1>5. ASSUME NEW ss \in SUBSET (1 .. n)
      PROVE  f[ss] = IF ss = {} THEN b ELSE NoteDir(f[ss \ {Max(ss)}], s[Max(ss)])
  <2>1. CASE ss = {}
    BY <1>4, <2>1 DEF Ways
  <2>2. CASE ss # {}
    <3>1. f[ss \ {Max(ss)}] \in V
      BY <1>4 DEF Ways
    <3>3. Max(ss) \in 1 .. n
      BY <2>2, LargestOf
    <3>4. g[<<f[ss \ {Max(ss)}], Max(ss)>>] = NoteDir(f[ss \ {Max(ss)}], s[Max(ss)])
      BY <3>1, <3>3
    <3> QED BY <1>4, <2>2, <3>4 DEF Ways
  <2> QED BY <2>1, <2>2
<1>6. Folds(f)
  BY <1>4, <1>5 DEF Ways
<1> DEFINE iter == CHOOSE x : Folds(x)
<1>7. Folds(iter)
  BY <1>6
<1>8. Noting(b, s) = iter[1 .. n]
  BY <1>1 DEF Noting, FoldLeft, MapThenFoldSet
<1> HIDE DEF iter
<1> DEFINE a == [k \in 0 .. n |-> iter[1 .. k]]
<1>9. a[0] = b
  <2>1. 1 .. 0 = {} /\ {} \in SUBSET (1 .. n) /\ 0 \in 0 .. n
    OBVIOUS
  <2> QED BY <1>7, <2>1
<1>10. ASSUME NEW k \in 1 .. n PROVE a[k] = NoteDir(a[k - 1], s[k])
  <2>1. 1 .. k \in SUBSET (1 .. n) /\ k \in 0 .. n /\ k - 1 \in 0 .. n
    OBVIOUS
  <2>2. iter[1 .. k] = NoteDir(iter[1 .. (k - 1)], s[k])
    <3>1. k \in Nat \ {0}
      OBVIOUS
    <3>2. 1 .. k # {} /\ Max(1 .. k) = k /\ (1 .. k) \ {k} = 1 .. (k - 1)
      BY <3>1, UpTo
    <3> QED BY <1>7, <2>1, <3>2
  <2> QED BY <2>1, <2>2
<1>11. a[n] = iter[1 .. n]
  OBVIOUS
<1> QED BY <1>1, <1>8, <1>9, <1>10, <1>11

AddingOwn(b, s) == FoldLeft(AddOwnView, b, s)

LEMMA AddOwnViewWalk ==
    ASSUME NEW V, NEW E, NEW b \in V, NEW s \in Seq(E),
           \A x \in V, e \in E : AddOwnView(x, e) \in V
    PROVE  \E a : /\ a[0] = b /\ a[Len(s)] = AddingOwn(b, s)
                  /\ \A k \in 1 .. Len(s) : a[k] = AddOwnView(a[k - 1], s[k])
<1>1. PICK n \in Nat : n = Len(s) /\ DOMAIN s = 1 .. n
  BY LenProperties
<1> DEFINE Folds(iter) ==
        iter = [ss \in SUBSET (1 .. n) |->
                   IF ss = {} THEN b ELSE AddOwnView(iter[ss \ {Max(ss)}], s[Max(ss)])]
<1> DEFINE g == [x \in V \X (1 .. n) |-> AddOwnView(x[1], s[x[2]])]
<1>2. \A k \in 1 .. n : s[k] \in E
  BY <1>1, ElementOfSeq
<1>3. g \in [V \X (1 .. n) -> V]
  BY <1>2
<1>4. PICK f : Ways(f, n, V, b, g)
  BY <1>3, FoldWays
<1>5. ASSUME NEW ss \in SUBSET (1 .. n)
      PROVE  f[ss] = IF ss = {} THEN b ELSE AddOwnView(f[ss \ {Max(ss)}], s[Max(ss)])
  <2>1. CASE ss = {}
    BY <1>4, <2>1 DEF Ways
  <2>2. CASE ss # {}
    <3>1. f[ss \ {Max(ss)}] \in V
      BY <1>4 DEF Ways
    <3>3. Max(ss) \in 1 .. n
      BY <2>2, LargestOf
    <3>4. g[<<f[ss \ {Max(ss)}], Max(ss)>>] = AddOwnView(f[ss \ {Max(ss)}], s[Max(ss)])
      BY <3>1, <3>3
    <3> QED BY <1>4, <2>2, <3>4 DEF Ways
  <2> QED BY <2>1, <2>2
<1>6. Folds(f)
  BY <1>4, <1>5 DEF Ways
<1> DEFINE iter == CHOOSE x : Folds(x)
<1>7. Folds(iter)
  BY <1>6
<1>8. AddingOwn(b, s) = iter[1 .. n]
  BY <1>1 DEF AddingOwn, FoldLeft, MapThenFoldSet
<1> HIDE DEF iter
<1> DEFINE a == [k \in 0 .. n |-> iter[1 .. k]]
<1>9. a[0] = b
  <2>1. 1 .. 0 = {} /\ {} \in SUBSET (1 .. n) /\ 0 \in 0 .. n
    OBVIOUS
  <2> QED BY <1>7, <2>1
<1>10. ASSUME NEW k \in 1 .. n PROVE a[k] = AddOwnView(a[k - 1], s[k])
  <2>1. 1 .. k \in SUBSET (1 .. n) /\ k \in 0 .. n /\ k - 1 \in 0 .. n
    OBVIOUS
  <2>2. iter[1 .. k] = AddOwnView(iter[1 .. (k - 1)], s[k])
    <3>1. k \in Nat \ {0}
      OBVIOUS
    <3>2. 1 .. k # {} /\ Max(1 .. k) = k /\ (1 .. k) \ {k} = 1 .. (k - 1)
      BY <3>1, UpTo
    <3> QED BY <1>7, <2>1, <3>2
  <2> QED BY <2>1, <2>2
<1>11. a[n] = iter[1 .. n]
  OBVIOUS
<1> QED BY <1>1, <1>8, <1>9, <1>10, <1>11

Adding(b, s) == FoldLeft(AddView, b, s)

LEMMA AddViewWalk ==
    ASSUME NEW V, NEW E, NEW b \in V, NEW s \in Seq(E),
           \A x \in V, e \in E : AddView(x, e) \in V
    PROVE  \E a : /\ a[0] = b /\ a[Len(s)] = Adding(b, s)
                  /\ \A k \in 1 .. Len(s) : a[k] = AddView(a[k - 1], s[k])
<1>1. PICK n \in Nat : n = Len(s) /\ DOMAIN s = 1 .. n
  BY LenProperties
<1> DEFINE Folds(iter) ==
        iter = [ss \in SUBSET (1 .. n) |->
                   IF ss = {} THEN b ELSE AddView(iter[ss \ {Max(ss)}], s[Max(ss)])]
<1> DEFINE g == [x \in V \X (1 .. n) |-> AddView(x[1], s[x[2]])]
<1>2. \A k \in 1 .. n : s[k] \in E
  BY <1>1, ElementOfSeq
<1>3. g \in [V \X (1 .. n) -> V]
  BY <1>2
<1>4. PICK f : Ways(f, n, V, b, g)
  BY <1>3, FoldWays
<1>5. ASSUME NEW ss \in SUBSET (1 .. n)
      PROVE  f[ss] = IF ss = {} THEN b ELSE AddView(f[ss \ {Max(ss)}], s[Max(ss)])
  <2>1. CASE ss = {}
    BY <1>4, <2>1 DEF Ways
  <2>2. CASE ss # {}
    <3>1. f[ss \ {Max(ss)}] \in V
      BY <1>4 DEF Ways
    <3>3. Max(ss) \in 1 .. n
      BY <2>2, LargestOf
    <3>4. g[<<f[ss \ {Max(ss)}], Max(ss)>>] = AddView(f[ss \ {Max(ss)}], s[Max(ss)])
      BY <3>1, <3>3
    <3> QED BY <1>4, <2>2, <3>4 DEF Ways
  <2> QED BY <2>1, <2>2
<1>6. Folds(f)
  BY <1>4, <1>5 DEF Ways
<1> DEFINE iter == CHOOSE x : Folds(x)
<1>7. Folds(iter)
  BY <1>6
<1>8. Adding(b, s) = iter[1 .. n]
  BY <1>1 DEF Adding, FoldLeft, MapThenFoldSet
<1> HIDE DEF iter
<1> DEFINE a == [k \in 0 .. n |-> iter[1 .. k]]
<1>9. a[0] = b
  <2>1. 1 .. 0 = {} /\ {} \in SUBSET (1 .. n) /\ 0 \in 0 .. n
    OBVIOUS
  <2> QED BY <1>7, <2>1
<1>10. ASSUME NEW k \in 1 .. n PROVE a[k] = AddView(a[k - 1], s[k])
  <2>1. 1 .. k \in SUBSET (1 .. n) /\ k \in 0 .. n /\ k - 1 \in 0 .. n
    OBVIOUS
  <2>2. iter[1 .. k] = AddView(iter[1 .. (k - 1)], s[k])
    <3>1. k \in Nat \ {0}
      OBVIOUS
    <3>2. 1 .. k # {} /\ Max(1 .. k) = k /\ (1 .. k) \ {k} = 1 .. (k - 1)
      BY <3>1, UpTo
    <3> QED BY <1>7, <2>1, <3>2
  <2> QED BY <2>1, <2>2
<1>11. a[n] = iter[1 .. n]
  OBVIOUS
<1> QED BY <1>1, <1>8, <1>9, <1>10, <1>11

Showing(b, s) == FoldLeft(ShowView, b, s)

LEMMA ShowViewWalk ==
    ASSUME NEW V, NEW E, NEW b \in V, NEW s \in Seq(E),
           \A x \in V, e \in E : ShowView(x, e) \in V
    PROVE  \E a : /\ a[0] = b /\ a[Len(s)] = Showing(b, s)
                  /\ \A k \in 1 .. Len(s) : a[k] = ShowView(a[k - 1], s[k])
<1>1. PICK n \in Nat : n = Len(s) /\ DOMAIN s = 1 .. n
  BY LenProperties
<1> DEFINE Folds(iter) ==
        iter = [ss \in SUBSET (1 .. n) |->
                   IF ss = {} THEN b ELSE ShowView(iter[ss \ {Max(ss)}], s[Max(ss)])]
<1> DEFINE g == [x \in V \X (1 .. n) |-> ShowView(x[1], s[x[2]])]
<1>2. \A k \in 1 .. n : s[k] \in E
  BY <1>1, ElementOfSeq
<1>3. g \in [V \X (1 .. n) -> V]
  BY <1>2
<1>4. PICK f : Ways(f, n, V, b, g)
  BY <1>3, FoldWays
<1>5. ASSUME NEW ss \in SUBSET (1 .. n)
      PROVE  f[ss] = IF ss = {} THEN b ELSE ShowView(f[ss \ {Max(ss)}], s[Max(ss)])
  <2>1. CASE ss = {}
    BY <1>4, <2>1 DEF Ways
  <2>2. CASE ss # {}
    <3>1. f[ss \ {Max(ss)}] \in V
      BY <1>4 DEF Ways
    <3>3. Max(ss) \in 1 .. n
      BY <2>2, LargestOf
    <3>4. g[<<f[ss \ {Max(ss)}], Max(ss)>>] = ShowView(f[ss \ {Max(ss)}], s[Max(ss)])
      BY <3>1, <3>3
    <3> QED BY <1>4, <2>2, <3>4 DEF Ways
  <2> QED BY <2>1, <2>2
<1>6. Folds(f)
  BY <1>4, <1>5 DEF Ways
<1> DEFINE iter == CHOOSE x : Folds(x)
<1>7. Folds(iter)
  BY <1>6
<1>8. Showing(b, s) = iter[1 .. n]
  BY <1>1 DEF Showing, FoldLeft, MapThenFoldSet
<1> HIDE DEF iter
<1> DEFINE a == [k \in 0 .. n |-> iter[1 .. k]]
<1>9. a[0] = b
  <2>1. 1 .. 0 = {} /\ {} \in SUBSET (1 .. n) /\ 0 \in 0 .. n
    OBVIOUS
  <2> QED BY <1>7, <2>1
<1>10. ASSUME NEW k \in 1 .. n PROVE a[k] = ShowView(a[k - 1], s[k])
  <2>1. 1 .. k \in SUBSET (1 .. n) /\ k \in 0 .. n /\ k - 1 \in 0 .. n
    OBVIOUS
  <2>2. iter[1 .. k] = ShowView(iter[1 .. (k - 1)], s[k])
    <3>1. k \in Nat \ {0}
      OBVIOUS
    <3>2. 1 .. k # {} /\ Max(1 .. k) = k /\ (1 .. k) \ {k} = 1 .. (k - 1)
      BY <3>1, UpTo
    <3> QED BY <1>7, <2>1, <3>2
  <2> QED BY <2>1, <2>2
<1>11. a[n] = iter[1 .. n]
  OBVIOUS
<1> QED BY <1>1, <1>8, <1>9, <1>10, <1>11

-----------------------------------------------------------------------------
(* The folders of a scan *)

\* The folders of a scan: with each code one, and as many as there is room for.
Dirs == {dirs \in Seq(RomFolders) :
            /\ Len(dirs) <= MaxDirs
            /\ \A i, j \in 1 .. Len(dirs) : dirs[i].code = dirs[j].code => i = j}

\* A folder was seen: one with its code is there, or there was no room.
Noted(dirs, f) == Len(dirs) = MaxDirs \/ \E i \in 1 .. Len(dirs) : dirs[i].code = f.code

LEMMA NoDirs == <<>> \in Dirs
<1>1. <<>> \in Seq(RomFolders) /\ Len(<<>>) = 0
  BY EmptySeq
<1>2. MaxDirs \in Nat
  BY CatalogAssumption
<1> QED BY <1>1, <1>2 DEF Dirs

LEMMA NoteDirNotes ==
    ASSUME NEW dirs \in Dirs, NEW f \in RomFolders
    PROVE  /\ NoteDir(dirs, f) \in Dirs
           /\ Noted(NoteDir(dirs, f), f)
           /\ \A h : Noted(dirs, h) => Noted(NoteDir(dirs, f), h)
<1>1. dirs \in Seq(RomFolders) /\ MaxDirs \in Nat
  BY CatalogAssumption DEF Dirs
<1>2. CASE Len(dirs) = MaxDirs \/ \E i \in 1 .. Len(dirs) : dirs[i].code = f.code
  BY <1>2 DEF NoteDir, Noted
<1>3. CASE ~(Len(dirs) = MaxDirs \/ \E i \in 1 .. Len(dirs) : dirs[i].code = f.code)
  <2>1. PICK n \in Nat : n = Len(dirs)
    BY <1>1, LenProperties
  <2>2. PICK new : new = Append(dirs, f)
    OBVIOUS
  <2>3. /\ new \in Seq(RomFolders) /\ Len(new) = n + 1 /\ new[n + 1] = f
        /\ \A i \in 1 .. n : new[i] = dirs[i]
    BY <1>1, <2>1, <2>2, AppendProperties
  <2>4. NoteDir(dirs, f) = new
    BY <1>3, <2>2 DEF NoteDir
  <2>5. n + 1 <= MaxDirs
    BY <1>1, <1>3, <2>1 DEF Dirs
  <2>6. ASSUME NEW i \in 1 .. (n + 1), NEW j \in 1 .. (n + 1), new[i].code = new[j].code
        PROVE  i = j
    <3>1. CASE i \in 1 .. n /\ j \in 1 .. n
      BY <2>1, <2>3, <2>6, <3>1 DEF Dirs
    <3>2. CASE i = n + 1 /\ j \in 1 .. n
      BY <1>3, <2>1, <2>3, <2>6, <3>2
    <3>3. CASE i \in 1 .. n /\ j = n + 1
      BY <1>3, <2>1, <2>3, <2>6, <3>3
    <3> QED BY <3>1, <3>2, <3>3
  <2>7. new \in Dirs
    BY <2>3, <2>5, <2>6 DEF Dirs
  <2>8. Noted(new, f)
    <3>1. n + 1 \in 1 .. Len(new)
      BY <2>3
    <3> QED BY <2>3, <3>1 DEF Noted
  <2>9. ASSUME NEW h, Noted(dirs, h) PROVE Noted(new, h)
    <3>1. PICK i \in 1 .. n : dirs[i].code = h.code
      BY <1>3, <2>1, <2>9 DEF Noted
    <3>2. i \in 1 .. Len(new)
      BY <2>3
    <3> QED BY <2>3, <3>1, <3>2 DEF Noted
  <2> QED BY <2>4, <2>7, <2>8, <2>9
<1> QED BY <1>2, <1>3

\* An order of a finite set has each of its elements.
LEMMA OrderHasAll ==
    ASSUME NEW S, IsFiniteSet(S), NEW order \in SetToSeqs(S)
    PROVE  /\ order \in Seq(S) /\ Len(order) = Cardinality(S)
           /\ \A x \in S : \E i \in 1 .. Len(order) : order[i] = x
           /\ \A i, j \in 1 .. Len(order) : order[i] = order[j] => i = j
<1>1. PICK n \in Nat : n = Cardinality(S)
  BY FS_CardinalityType
<1>2. order \in [1 .. n -> S] /\ \A i, j \in 1 .. n : i # j => order[i] # order[j]
  BY <1>1 DEF SetToSeqs
<1>3. order \in Seq(S) /\ Len(order) = n
  BY <1>2
<1>4. order \in Injection(1 .. n, S)
  BY <1>2 DEF Injection, IsInjective
<1>5. Cardinality(1 .. n) = n
  BY FS_Interval
<1>6. order \in Surjection(1 .. n, S)
  BY <1>1, <1>4, <1>5, FS_Injection
<1>7. \A x \in S : \E i \in 1 .. n : order[i] = x
  BY <1>6 DEF Surjection
<1> QED BY <1>1, <1>2, <1>3, <1>7

\* A scan of a card notes each of its folders, and forgets none.
LEMMA CardIsNoted ==
    ASSUME NEW dirs \in Dirs, NEW S \in SUBSET RomFolders, NEW order \in SetToSeqs(S)
    PROVE  /\ Noting(dirs, order) \in Dirs
           /\ \A f \in S : Noted(Noting(dirs, order), f)
           /\ \A h : Noted(dirs, h) => Noted(Noting(dirs, order), h)
<1>1. IsFiniteSet(S)
  BY CatalogAssumption, FS_Subset
<1>2. /\ order \in Seq(S) /\ \A x \in S : \E i \in 1 .. Len(order) : order[i] = x
  BY <1>1, OrderHasAll
<1>3. order \in Seq(RomFolders)
  BY <1>2, SeqMonotonic
<1>4. PICK n \in Nat : n = Len(order)
  BY <1>2, LenProperties
<1>5. \A x \in Dirs, e \in RomFolders : NoteDir(x, e) \in Dirs
  BY NoteDirNotes
<1>6a. PICK a : /\ a[0] = dirs /\ a[Len(order)] = Noting(dirs, order)
                /\ \A k \in 1 .. Len(order) : a[k] = NoteDir(a[k - 1], order[k])
  BY <1>3, <1>5, NoteDirWalk
<1>6. /\ a[0] = dirs /\ a[n] = Noting(dirs, order)
      /\ \A k \in 1 .. n : a[k] = NoteDir(a[k - 1], order[k])
  BY <1>4, <1>6a
<1> DEFINE Good(k) == /\ a[k] \in Dirs
                      /\ \A i \in 1 .. k : Noted(a[k], order[i])
                      /\ \A h : Noted(dirs, h) => Noted(a[k], h)
<1> DEFINE G == {k \in 0 .. n : Good(k)}
<1>7. 0 \in G
  BY <1>6
<1>8. ASSUME NEW k \in 1 .. n, k - 1 \in G PROVE k \in G
  <2>1. Good(k - 1)
    BY <1>8
  <2>2. order[k] \in RomFolders
    BY <1>3, <1>4, ElementOfSeq
  <2>3. a[k] = NoteDir(a[k - 1], order[k]) /\ a[k - 1] \in Dirs
    BY <1>6, <2>1
  <2>4. PICK old \in Dirs : old = a[k - 1]
    BY <2>3
  <2>5. /\ a[k] \in Dirs /\ Noted(a[k], order[k])
        /\ \A h : Noted(old, h) => Noted(a[k], h)
    BY <2>2, <2>3, <2>4, NoteDirNotes
  <2>6. ASSUME NEW i \in 1 .. k PROVE Noted(a[k], order[i])
    <3>1. CASE i = k
      BY <2>5, <3>1
    <3>2. CASE i \in 1 .. (k - 1)
      BY <2>1, <2>4, <2>5, <3>2
    <3> QED BY <3>1, <3>2
  <2>7. \A h : Noted(dirs, h) => Noted(a[k], h)
    BY <2>1, <2>4, <2>5
  <2>8. Good(k) /\ k \in 0 .. n
    BY <2>5, <2>6, <2>7
  <2> QED BY <2>8
<1> HIDE DEF G
<1>9. \A k \in 0 .. n : k \in G
  BY <1>7, <1>8, Climb
<1>10. Good(n)
  BY <1>9 DEF G
<1> QED BY <1>2, <1>4, <1>6, <1>10

-----------------------------------------------------------------------------
(* The views *)

\* Each id once, as in the folds of the catalog.
Once(ids) == \A i, j \in 1 .. Len(ids) : ids[i] = ids[j] => i = j

CatalogIds == {Canonical(s.id) : s \in ToSet(Catalog)}

IdLists == {ids \in Seq(CatalogIds) : Once(ids)}

LEMMA AddViewAdds ==
    ASSUME NEW ids \in IdLists, NEW s \in ToSet(Catalog)
    PROVE  AddView(ids, s) \in IdLists /\ AddOwnView(ids, s) \in IdLists
<1> DEFINE id == Canonical(s.id)
<1>1. id \in CatalogIds /\ ids \in Seq(CatalogIds)
  BY DEF CatalogIds, IdLists
<1>2. AddView(ids, s) \in IdLists
  <2>1. CASE Contains(ids, id)
    BY <2>1 DEF AddView
  <2>2. CASE ~Contains(ids, id)
    <3>1. PICK n \in Nat : n = Len(ids)
      BY <1>1, LenProperties
    <3>2. PICK new : new = Append(ids, id)
      OBVIOUS
    <3>3. /\ new \in Seq(CatalogIds) /\ Len(new) = n + 1 /\ new[n + 1] = id
          /\ \A i \in 1 .. n : new[i] = ids[i]
      BY <1>1, <3>1, <3>2, AppendProperties
    <3>4. \A i \in 1 .. n : new[i] # id
      BY <2>2, <3>1, <3>3 DEF Contains
    <3>5. ASSUME NEW i \in 1 .. (n + 1), NEW j \in 1 .. (n + 1), new[i] = new[j] PROVE i = j
      <4>1. CASE i \in 1 .. n /\ j \in 1 .. n
        BY <3>1, <3>3, <3>5, <4>1 DEF IdLists, Once
      <4>2. CASE i = n + 1 \/ j = n + 1
        BY <3>3, <3>4, <3>5, <4>2
      <4> QED BY <4>1, <4>2
    <3>6. new \in IdLists
      BY <3>3, <3>5 DEF IdLists, Once
    <3> QED BY <2>2, <3>2, <3>6 DEF AddView
  <2> QED BY <2>1, <2>2
<1> QED BY <1>2 DEF AddOwnView

LEMMA ViewIdsOnce == ViewIds \in IdLists
<1>1. Catalog \in Seq(ToSet(Catalog))
  BY CatalogAssumption
<1>2. <<>> \in IdLists
  BY EmptySeq DEF IdLists, Once
<1>3. /\ \A x \in IdLists, e \in ToSet(Catalog) : AddOwnView(x, e) \in IdLists
      /\ \A x \in IdLists, e \in ToSet(Catalog) : AddView(x, e) \in IdLists
  BY AddViewAdds
<1>4. PICK n \in Nat : n = Len(Catalog)
  BY <1>1, LenProperties
<1>5. \A k \in 1 .. n : Catalog[k] \in ToSet(Catalog)
  BY <1>1, <1>4, ElementOfSeq
<1>6. AddingOwn(<<>>, Catalog) \in IdLists
  <2>1. PICK a : /\ a[0] = <<>> /\ a[Len(Catalog)] = AddingOwn(<<>>, Catalog)
                 /\ \A k \in 1 .. Len(Catalog) : a[k] = AddOwnView(a[k - 1], Catalog[k])
    BY <1>1, <1>2, <1>3, AddOwnViewWalk
  <2> DEFINE G == {k \in 0 .. n : a[k] \in IdLists}
  <2>2. 0 \in G
    BY <1>2, <2>1
  <2>3. ASSUME NEW k \in 1 .. n, k - 1 \in G PROVE k \in G
    <3>1. a[k - 1] \in IdLists
      BY <2>3
    <3>2. a[k] = AddOwnView(a[k - 1], Catalog[k]) /\ k \in 0 .. n
      BY <1>4, <2>1
    <3> QED BY <1>3, <1>5, <3>1, <3>2
  <2> HIDE DEF G
  <2>4. n \in G
    BY <2>2, <2>3, Climb
  <2> QED BY <1>4, <2>1, <2>4 DEF G
<1>7. PICK own \in IdLists : own = AddingOwn(<<>>, Catalog)
  BY <1>6
<1>8. Adding(own, Catalog) \in IdLists
  <2>1. PICK a : /\ a[0] = own /\ a[Len(Catalog)] = Adding(own, Catalog)
                 /\ \A k \in 1 .. Len(Catalog) : a[k] = AddView(a[k - 1], Catalog[k])
    BY <1>1, <1>3, AddViewWalk
  <2> DEFINE G == {k \in 0 .. n : a[k] \in IdLists}
  <2>2. 0 \in G
    BY <2>1
  <2>3. ASSUME NEW k \in 1 .. n, k - 1 \in G PROVE k \in G
    <3>1. a[k - 1] \in IdLists
      BY <2>3
    <3>2. a[k] = AddView(a[k - 1], Catalog[k]) /\ k \in 0 .. n
      BY <1>4, <2>1
    <3> QED BY <1>3, <1>5, <3>1, <3>2
  <2> HIDE DEF G
  <2>4. n \in G
    BY <2>2, <2>3, Climb
  <2> QED BY <1>4, <2>1, <2>4 DEF G
<1> QED BY <1>7, <1>8 DEF ViewIds, Adding, AddingOwn

\* A view's tag, its code and its folder for new ROMs are among its names.
LEMMA ViewNames ==
    ASSUME NEW id \in DOMAIN Views
    PROVE  {Views[id].tag, Views[id].code, Views[id].root} \subseteq Views[id].values
<1>1. PICK ids \in Seq(CatalogIds) : ids = ViewIds
  BY ViewIdsOnce DEF IdLists
<1>2. id \in CatalogIds
  BY <1>1, ElementOfSeq, LenProperties DEF Views, ToSet
<1>3. PICK k \in DOMAIN Catalog : Canonical(Catalog[k].id) = id
  BY <1>2 DEF CatalogIds, ToSet
<1>4. k \in Members(id)
  <2>1. DOMAIN Catalog = 1 .. Len(Catalog)
    BY CatalogAssumption, LenProperties
  <2> QED BY <1>3, <2>1 DEF Members, Systems
<1> DEFINE own == {s \in Members(id) : Catalog[s].id = id}
<1> DEFINE those == IF own # {} THEN own ELSE Members(id)
<1> DEFINE least == CHOOSE s \in those : \A r \in those : s <= r
<1>5. those \subseteq Members(id) /\ \E s : s \in those
  BY <1>4
<1>6. Members(id) \subseteq Nat
  BY CatalogAssumption, LenProperties DEF Members, Systems
<1> HIDE DEF own, those
<1>7. \E s \in those : \A r \in those : s <= r
  BY <1>5, <1>6, LeastOf
<1>8. least \in Members(id)
  BY <1>5, <1>7
<1> HIDE DEF least
<1>9. Views[id] = View(id)
  BY DEF Views
<1>10. Views[id].root = Catalog[least].root
  BY <1>9 DEF View, least, those, own
<1>11. /\ {Views[id].tag, Views[id].code} \subseteq Views[id].values
       /\ {Catalog[s].root : s \in Members(id)} \subseteq Views[id].values
  BY <1>9 DEF View
<1> QED BY <1>8, <1>10, <1>11

\* The views that are shown: each once.
ViewLists == {views \in Seq(DOMAIN Views) : Once(views)}

LEMMA ShownOnce == FoldLeft(ShowView, <<>>, ViewIds) \in ViewLists
<1>1. ViewIds \in Seq(DOMAIN Views) /\ Once(ViewIds)
  <2>1. ViewIds \in Seq(CatalogIds) /\ Once(ViewIds)
    BY ViewIdsOnce DEF IdLists
  <2>2. DOMAIN Views = ToSet(ViewIds)
    BY DEF Views
  <2>3. PICK ids \in Seq(CatalogIds) : ids = ViewIds
    BY <2>1
  <2>4. PICK n \in Nat : n = Len(ids) /\ ids \in [1 .. n -> CatalogIds]
    BY LenProperties
  <2>5. ids \in [1 .. n -> ToSet(ids)]
    BY <2>4 DEF ToSet
  <2>6. ids \in Seq(ToSet(ids))
    BY <2>5
  <2> QED BY <2>1, <2>2, <2>3, <2>6
<1> DEFINE Shown == DOMAIN Views
<1> DEFINE order == ViewIds
<1>2. order \in Seq(Shown) /\ \A i, j \in 1 .. Len(order) : order[i] = order[j] => i = j
  BY <1>1 DEF Once
<1> HIDE DEF Shown, order
<1>3. <<>> \in Seq(Shown) /\ Len(<<>>) = 0
  BY EmptySeq
<1>4. \A x \in Seq(Shown), e \in Shown : ShowView(x, e) \in Seq(Shown)
  BY AppendProperties DEF ShowView
<1>5. PICK n \in Nat : n = Len(order)
  BY <1>2, LenProperties
<1>6. \A k \in 1 .. n : order[k] \in Shown
  BY <1>2, <1>5, ElementOfSeq
<1>7. PICK a : /\ a[0] = <<>> /\ a[Len(order)] = Showing(<<>>, order)
               /\ \A k \in 1 .. Len(order) : a[k] = ShowView(a[k - 1], order[k])
  <2>1. PICK V : V = Seq(Shown)
    OBVIOUS
  <2>2. <<>> \in V /\ \A x \in V, e \in Shown : ShowView(x, e) \in V
    BY <1>3, <1>4, <2>1
  <2> QED BY <1>2, <2>2, ShowViewWalk
<1> DEFINE Good(k) == /\ a[k] \in Seq(Shown) /\ Once(a[k])
                      /\ \A i \in 1 .. Len(a[k]) : \E j \in 1 .. k : a[k][i] = order[j]
<1> DEFINE G == {k \in 0 .. n : Good(k)}
<1>8. 0 \in G
  <2>1. a[0] \in Seq(Shown) /\ Len(a[0]) = 0
    BY <1>3, <1>7
  <2>2. Once(a[0])
    BY <2>1 DEF Once
  <2> QED BY <2>1, <2>2
<1>9. ASSUME NEW k \in 1 .. n, k - 1 \in G PROVE k \in G
  <2>1. PICK old \in Seq(Shown) : old = a[k - 1]
    BY <1>9
  <2>2. Once(old) /\ \A i \in 1 .. Len(old) : \E j \in 1 .. (k - 1) : old[i] = order[j]
    BY <1>9, <2>1
  <2>3. PICK m \in Nat : m = Len(old)
    BY LenProperties
  <2>4. a[k] = ShowView(old, order[k])
    BY <1>5, <1>7, <2>1
  <2>5. CASE ~Visible(order[k])
    <3>1. a[k] = old
      BY <2>4, <2>5 DEF ShowView
    <3>2. Good(k)
      BY <2>2, <3>1
    <3> QED BY <3>2
  <2>6. CASE Visible(order[k])
    <3>1. PICK new : new = Append(old, order[k])
      OBVIOUS
    <3>2. /\ new \in Seq(Shown) /\ Len(new) = m + 1 /\ new[m + 1] = order[k]
          /\ \A i \in 1 .. m : new[i] = old[i]
      BY <1>6, <2>3, <3>1, AppendProperties
    <3>3. \A i \in 1 .. m : new[i] # order[k]
      <4>1. TAKE i \in 1 .. m
      <4>2. PICK j \in 1 .. (k - 1) : new[i] = order[j]
        BY <2>2, <2>3, <3>2
      <4>3. j \in 1 .. n /\ j # k
        OBVIOUS
      <4> QED BY <1>2, <1>5, <4>2, <4>3
    <3>4. ASSUME NEW i \in 1 .. (m + 1), NEW j \in 1 .. (m + 1), new[i] = new[j] PROVE i = j
      <4>1. CASE i \in 1 .. m /\ j \in 1 .. m
        BY <2>2, <2>3, <3>2, <3>4, <4>1 DEF Once
      <4>2. CASE i = m + 1 \/ j = m + 1
        BY <3>2, <3>3, <3>4, <4>2
      <4> QED BY <4>1, <4>2
    <3>5. Once(new)
      BY <3>2, <3>4 DEF Once
    <3>6. ASSUME NEW i \in 1 .. (m + 1) PROVE \E j \in 1 .. k : new[i] = order[j]
      <4>1. CASE i \in 1 .. m
        BY <2>2, <2>3, <3>2, <4>1
      <4>2. CASE i = m + 1
        BY <3>2, <4>2
      <4> QED BY <4>1, <4>2
    <3>7. a[k] = new
      BY <2>4, <2>6, <3>1 DEF ShowView
    <3>8. Good(k)
      BY <3>2, <3>5, <3>6, <3>7
    <3> QED BY <3>8
  <2> QED BY <2>5, <2>6
<1> HIDE DEF G
<1>10. n \in G
  BY <1>8, <1>9, Climb
<1>11. Good(n)
  BY <1>10 DEF G
<1> QED BY <1>5, <1>7, <1>11 DEF ViewLists, Showing, Shown, order

-----------------------------------------------------------------------------
(* The rows *)

Emulators == {CoreFiles[c] : c \in DOMAIN CoreFiles}

\* The folders that may have a row of their own.
Customs(views, dirs) ==
    {f \in ToSet(dirs) : f.code \in Emulators /\ ~\E id \in ToSet(views) : OfView(id, f)}

\* Where a row of a discovery is from.
RowFrom(views, dirs, r) ==
    \/ \E id \in ToSet(views) : r = ViewRow(id, dirs)
    \/ \E f \in Customs(views, dirs) : r = CustomRow(f)

NamesOf(r) == {r.tag, r.code, r.folder}

\* A name that a view has, or a folder of it.
Claims(id, x) == x \in Views[id].values \/ \E f \in RomFolders : OfView(id, f) /\ f.name = x

\* A folder with the name of another's code, or of an alias, has it for its code.
LEMMA NameIsCode ==
    ASSUME NEW f \in RomFolders,
           (\E g \in RomFolders : f.name = g.code) \/ f.name \in DOMAIN StaticAliases
    PROVE  f.code = f.name
<1>1. f.name \in {g.code : g \in RomFolders} \cup DOMAIN StaticAliases
  OBVIOUS
<1>2. \A h \in RomFolders :
         h.name \in {g.code : g \in RomFolders} \cup DOMAIN StaticAliases => h.code = h.name
  BY CatalogAssumption, Zenon
<1> QED BY <1>1, <1>2

LEMMA OneClaims ==
    ASSUME NEW id \in DOMAIN Views, NEW jd \in DOMAIN Views, NEW x, Claims(id, x), Claims(jd, x)
    PROVE  id = jd
<1>1. /\ \A kd, ld \in DOMAIN Views : kd # ld => Views[kd].values \cap Views[ld].values = {}
      /\ \A f, g \in RomFolders : f.name = g.name => f = g
      /\ \A f \in RomFolders, kd, ld \in DOMAIN Views : OfView(kd, f) /\ OfView(ld, f) => kd = ld
  BY CatalogAssumption, Zenon
<1>2. CASE x \in Views[id].values /\ x \in Views[jd].values
  BY <1>1, <1>2
<1>3. CASE x \in Views[id].values /\ \E f \in RomFolders : OfView(jd, f) /\ f.name = x
  <2>1. PICK f \in RomFolders : OfView(jd, f) /\ f.name = x
    BY <1>3
  <2>2. OfView(id, f)
    BY <1>3, <2>1 DEF OfView
  <2> QED BY <1>1, <2>1, <2>2
<1>4. CASE x \in Views[jd].values /\ \E f \in RomFolders : OfView(id, f) /\ f.name = x
  <2>1. PICK f \in RomFolders : OfView(id, f) /\ f.name = x
    BY <1>4
  <2>2. OfView(jd, f)
    BY <1>4, <2>1 DEF OfView
  <2> QED BY <1>1, <2>1, <2>2
<1>5. CASE /\ \E f \in RomFolders : OfView(id, f) /\ f.name = x
           /\ \E f \in RomFolders : OfView(jd, f) /\ f.name = x
  BY <1>1, <1>5
<1> QED BY <1>2, <1>3, <1>4, <1>5 DEF Claims

\* A row of a view browses the first of its folders.
LEMMA ViewRowIs ==
    ASSUME NEW id \in DOMAIN Views, NEW dirs \in Dirs
    PROVE  /\ ViewRow(id, dirs).tag = Views[id].tag
           /\ ViewRow(id, dirs).code = Views[id].code
           /\ ~ViewRow(id, dirs).custom
           /\ \/ /\ ViewRow(id, dirs).folder = Views[id].root
                 /\ ~\E f \in ToSet(dirs) : OfView(id, f)
              \/ \E f \in ToSet(dirs) : OfView(id, f) /\ ViewRow(id, dirs).folder = f.name
<1>1. dirs \in Seq(RomFolders)
  BY DEF Dirs
<1>2. PICK n \in Nat : n = Len(dirs) /\ DOMAIN dirs = 1 .. n
  BY <1>1, LenProperties
<1> DEFINE its == {i \in 1 .. n : OfView(id, dirs[i])}
<1> DEFINE least == CHOOSE i \in its : \A j \in its : i <= j
<1>3. CASE its = {}
  <2>1. ~\E f \in ToSet(dirs) : OfView(id, f)
    BY <1>2, <1>3 DEF ToSet
  <2>2. ViewRow(id, dirs).folder = Views[id].root
    BY <1>2, <1>3 DEF ViewRow
  <2> QED BY <2>1, <2>2 DEF ViewRow
<1>4. CASE its # {}
  <2>1. its \subseteq Nat /\ \E i : i \in its
    BY <1>4
  <2>2. ViewRow(id, dirs).folder = dirs[least].name
    BY <1>2, <1>4 DEF ViewRow
  <2> HIDE DEF its
  <2>3. \E i \in its : \A j \in its : i <= j
    BY <2>1, LeastOf
  <2>4. least \in its
    BY <2>3
  <2> HIDE DEF least
  <2>5. OfView(id, dirs[least]) /\ dirs[least] \in ToSet(dirs)
    BY <1>2, <2>4 DEF its, ToSet
  <2> QED BY <2>2, <2>5 DEF ViewRow
<1> QED BY <1>3, <1>4

LEMMA ViewRowClaims ==
    ASSUME NEW id \in DOMAIN Views, NEW dirs \in Dirs, NEW x \in NamesOf(ViewRow(id, dirs))
    PROVE  Claims(id, x)
<1>1. {Views[id].tag, Views[id].code, Views[id].root} \subseteq Views[id].values
  BY ViewNames
<1>2. ToSet(dirs) \subseteq RomFolders
  BY LenProperties, ElementOfSeq DEF Dirs, ToSet
<1>3. CASE x \in {Views[id].tag, Views[id].code, Views[id].root}
  BY <1>1, <1>3 DEF Claims
<1>4. CASE \E f \in ToSet(dirs) : OfView(id, f) /\ x = f.name
  BY <1>2, <1>4 DEF Claims
<1> QED BY <1>3, <1>4, ViewRowIs DEF NamesOf

\* What a folder of its own is named is no name of a view that is shown.
LEMMA CustomIsUnclaimed ==
    ASSUME NEW id \in DOMAIN Views, NEW f \in RomFolders, ~OfView(id, f),
           NEW x \in NamesOf(CustomRow(f))
    PROVE  ~Claims(id, x)
<1>1. x = f.code \/ x = f.name
  BY DEF NamesOf, CustomRow
<1>2. x \notin Views[id].values
  BY <1>1 DEF OfView
<1>3. ASSUME NEW g \in RomFolders, OfView(id, g), g.name = x PROVE FALSE
  <2>1. CASE x = f.name
    <3>1. \A h, k \in RomFolders : h.name = k.name => h = k
      BY CatalogAssumption, Zenon
    <3>2. g = f
      BY <1>3, <2>1, <3>1
    <3> QED BY <1>3, <3>2
  <2>2. CASE x = f.code
    <3>1. g.code = g.name
      BY <1>3, <2>2, NameIsCode
    <3> QED BY <1>2, <1>3, <3>1 DEF OfView
  <2> QED BY <1>1, <2>1, <2>2
<1> QED BY <1>2, <1>3 DEF Claims

\* No two rows share a name: a tag, a code or a folder.
LEMMA NoNameShared ==
    ASSUME NEW views \in ViewLists, NEW dirs \in Dirs, NEW q, NEW r,
           RowFrom(views, dirs, q), RowFrom(views, dirs, r),
           NEW x \in NamesOf(q), x \in NamesOf(r)
    PROVE  q = r
<1>1. ToSet(views) \subseteq DOMAIN Views
  BY LenProperties, ElementOfSeq DEF ViewLists, ToSet
<1>2. ToSet(dirs) \subseteq RomFolders
  BY LenProperties, ElementOfSeq DEF Dirs, ToSet
<1>3. ASSUME NEW id \in ToSet(views), NEW f \in Customs(views, dirs),
             x \in NamesOf(ViewRow(id, dirs)), x \in NamesOf(CustomRow(f))
      PROVE  FALSE
  <2>1. f \in RomFolders /\ ~OfView(id, f) /\ id \in DOMAIN Views
    BY <1>1, <1>2 DEF Customs
  <2>2. Claims(id, x)
    BY <1>3, <2>1, ViewRowClaims
  <2> QED BY <1>3, <2>1, <2>2, CustomIsUnclaimed
<1>4. ASSUME NEW id \in ToSet(views), NEW jd \in ToSet(views),
             x \in NamesOf(ViewRow(id, dirs)), x \in NamesOf(ViewRow(jd, dirs))
      PROVE  id = jd
  <2>1. id \in DOMAIN Views /\ jd \in DOMAIN Views
    BY <1>1
  <2>2. Claims(id, x) /\ Claims(jd, x)
    BY <1>4, <2>1, ViewRowClaims
  <2> QED BY <2>1, <2>2, OneClaims
<1>5. ASSUME NEW f \in Customs(views, dirs), NEW g \in Customs(views, dirs),
             x \in NamesOf(CustomRow(f)), x \in NamesOf(CustomRow(g))
      PROVE  f = g
  <2>1. f \in RomFolders /\ g \in RomFolders /\ f \in ToSet(dirs) /\ g \in ToSet(dirs)
    BY <1>2 DEF Customs
  <2>2. x \in {f.code, f.name} /\ x \in {g.code, g.name}
    BY <1>5 DEF NamesOf, CustomRow
  <2>3. CASE f.code = g.code
    BY <2>1, <2>3, LenProperties DEF Dirs, ToSet
  <2>4. CASE f.name = g.name
    BY <2>1, <2>4, CatalogAssumption
  <2>5. CASE f.name = g.code
    <3>1. f.code = f.name
      BY <2>1, <2>5, NameIsCode
    <3> QED BY <2>3, <2>5, <3>1
  <2>6. CASE g.name = f.code
    <3>1. g.code = g.name
      BY <2>1, <2>6, NameIsCode
    <3> QED BY <2>3, <2>6, <3>1
  <2> QED BY <2>2, <2>3, <2>4, <2>5, <2>6
<1>6. CASE /\ \E id \in ToSet(views) : q = ViewRow(id, dirs)
           /\ \E id \in ToSet(views) : r = ViewRow(id, dirs)
  BY <1>4, <1>6
<1>7. CASE /\ \E f \in Customs(views, dirs) : q = CustomRow(f)
           /\ \E f \in Customs(views, dirs) : r = CustomRow(f)
  BY <1>5, <1>7
<1> QED BY <1>3, <1>6, <1>7 DEF RowFrom

\* Its tag, its code, or an alias that it has among its names.
CalledBy(r, x) == x \in {r.tag, r.code} \/ (x \in NamesOf(r) /\ x \in DOMAIN StaticAliases)

\* Two names of a known platform call one row at most.
LEMMA OneForWords ==
    ASSUME NEW views \in ViewLists, NEW dirs \in Dirs, NEW q, NEW r,
           RowFrom(views, dirs, q), RowFrom(views, dirs, r),
           NEW i \in IdentityRows, NEW x \in Words(i), NEW y \in Words(i),
           CalledBy(q, x), CalledBy(r, y)
    PROVE  q = r
<1>1. ToSet(views) \subseteq DOMAIN Views
  BY LenProperties, ElementOfSeq DEF ViewLists, ToSet
<1>2. ToSet(dirs) \subseteq RomFolders
  BY LenProperties, ElementOfSeq DEF Dirs, ToSet
<1>3. CASE x = y
  BY <1>3, NoNameShared DEF CalledBy, NamesOf
<1>4. CASE x # y
  <2>1. ASSUME NEW s, NEW z \in Words(i), CalledBy(s, z),
               NEW id \in ToSet(views), s = ViewRow(id, dirs)
        PROVE  Identities[i].id = id /\ Words(i) \subseteq Views[id].values
    <3>1. id \in DOMAIN Views
      BY <1>1, <2>1
    <3>2. z \in Views[id].values
      <4>1. CASE z \in {s.tag, s.code}
        BY <2>1, <3>1, <4>1, ViewRowIs, ViewNames
      <4>2. CASE z \in NamesOf(s) /\ z \in DOMAIN StaticAliases
        <5>1. Claims(id, z)
          BY <2>1, <3>1, <4>2, ViewRowClaims
        <5>2. ASSUME NEW f \in RomFolders, OfView(id, f), f.name = z PROVE f.code = f.name
          BY <4>2, <5>2, NameIsCode
        <5> QED BY <5>1, <5>2 DEF Claims, OfView
      <4> QED BY <2>1, <4>1, <4>2 DEF CalledBy
    <3>3. Words(i) # {Identities[i].id} /\ Words(i) \cap Views[id].values # {}
      BY <1>4, <2>1, <3>2
    <3>4. \A j \in IdentityRows, jd \in DOMAIN Views :
             IF Identities[j].id = jd THEN Words(j) \subseteq Views[jd].values
             ELSE Words(j) = {Identities[j].id} \/ Words(j) \cap Views[jd].values = {}
      BY CatalogAssumption, Zenon
    <3> QED BY <3>1, <3>3, <3>4
  <2>2. ASSUME NEW s, NEW z \in Words(i), CalledBy(s, z),
               NEW f \in Customs(views, dirs), s = CustomRow(f)
        PROVE  f.code \in Words(i) /\ f.code \in Emulators
    <3>1. f \in RomFolders /\ f.code \in Emulators
      BY <1>2 DEF Customs
    <3>2. s.tag = f.code /\ s.code = f.code /\ s.folder = f.name
      BY <2>2 DEF CustomRow
    <3>3. CASE z \in {s.tag, s.code}
      BY <3>1, <3>2, <3>3
    <3>4. CASE z = f.name /\ z \in DOMAIN StaticAliases
      BY <3>1, <3>4, NameIsCode
    <3> QED BY <2>2, <3>2, <3>3, <3>4 DEF CalledBy, NamesOf
  <2>3. CASE /\ \E id \in ToSet(views) : q = ViewRow(id, dirs)
             /\ \E id \in ToSet(views) : r = ViewRow(id, dirs)
    BY <2>1, <2>3
  <2>4. ASSUME NEW id \in ToSet(views), NEW f \in Customs(views, dirs),
               Words(i) \subseteq Views[id].values, f.code \in Words(i)
        PROVE  FALSE
    BY <2>4 DEF Customs, OfView
  <2>5. CASE /\ \E f \in Customs(views, dirs) : q = CustomRow(f)
             /\ \E f \in Customs(views, dirs) : r = CustomRow(f)
    <3>1. PICK f \in Customs(views, dirs) : q = CustomRow(f)
      BY <2>5
    <3>2. PICK g \in Customs(views, dirs) : r = CustomRow(g)
      BY <2>5
    <3>3. {f.code, g.code} \subseteq Words(i) /\ {f.code, g.code} \subseteq Emulators
      BY <2>2, <3>1, <3>2
    <3>4. \A j \in IdentityRows, c, d \in DOMAIN CoreFiles :
             {CoreFiles[c], CoreFiles[d]} \subseteq Words(j) => CoreFiles[c] = CoreFiles[d]
      BY CatalogAssumption, Zenon
    <3>5. f.code = g.code
      BY <3>3, <3>4 DEF Emulators
    <3>6. f.code \in NamesOf(q) /\ f.code \in NamesOf(r)
      BY <3>1, <3>2, <3>5 DEF NamesOf, CustomRow
    <3> QED BY <3>6, NoNameShared
  <2> QED BY <2>1, <2>2, <2>3, <2>4, <2>5 DEF RowFrom
<1> QED BY <1>3, <1>4

\* The rows that may be there, beside the folders of a scan.
RowsWith(dirs) == {ViewRow(id, dirs) : id \in DOMAIN Views} \cup {CustomRow(f) : f \in RomFolders}

\* The rows of a discovery: one for each view, and for folders of their own.
RowSeqs(views, dirs) ==
    {rows \in Seq(RowsWith(dirs)) :
        /\ \A i \in 1 .. Len(rows) : RowFrom(views, dirs, rows[i])
        /\ \A id \in ToSet(views) : \E i \in 1 .. Len(rows) : rows[i] = ViewRow(id, dirs)
        /\ \A i, j \in 1 .. Len(rows) : rows[i] = rows[j] => i = j}

LEMMA BuiltRows ==
    ASSUME NEW views \in ViewLists, NEW dirs \in Dirs, NEW C \in SUBSET DOMAIN CoreFiles,
           NEW own, own = {f \in ToSet(dirs) : /\ f.code \in {CoreFiles[c] : c \in C}
                                               /\ ~\E i \in 1 .. Len(views) : OfView(views[i], f)},
           NEW custom \in SetToSeqs({CustomRow(f) : f \in own})
    PROVE  LET rows == [i \in 1 .. Len(views) |-> ViewRow(views[i], dirs)] \o custom IN
           rows \in RowSeqs(views, dirs) /\ \A f \in own : CustomRow(f) \in ToSet(rows)
<1> DEFINE its == {CustomRow(f) : f \in own}
<1> DEFINE Rows == RowsWith(dirs)
<1>1. ToSet(dirs) \subseteq RomFolders
  BY LenProperties, ElementOfSeq DEF Dirs, ToSet
<1>2. PICK n \in Nat : n = Len(views) /\ DOMAIN views = 1 .. n
  BY LenProperties DEF ViewLists
<1>3. \A i \in 1 .. n : views[i] \in DOMAIN Views /\ views[i] \in ToSet(views)
  BY <1>2, ElementOfSeq DEF ViewLists, ToSet
<1>4. own \subseteq Customs(views, dirs)
  BY <1>2 DEF Customs, Emulators, ToSet
<1>5. own \subseteq RomFolders /\ IsFiniteSet(own)
  BY <1>1, FS_Subset, CatalogAssumption
<1>6. IsFiniteSet(its)
  <2> DEFINE h == [f \in own |-> CustomRow(f)]
  <2>1. h \in Surjection(own, its)
    BY DEF Surjection
  <2> QED BY <1>5, <2>1, FS_Surjection
<1>custom. custom \in SetToSeqs(its)
  OBVIOUS
<1> HIDE DEF its
<1>7. /\ custom \in Seq(its) /\ \A x \in its : \E i \in 1 .. Len(custom) : custom[i] = x
      /\ \A i, j \in 1 .. Len(custom) : custom[i] = custom[j] => i = j
  <2>1. \A S : IsFiniteSet(S) => \A order \in SetToSeqs(S) :
          /\ order \in Seq(S) /\ \A x \in S : \E i \in 1 .. Len(order) : order[i] = x
          /\ \A i, j \in 1 .. Len(order) : order[i] = order[j] => i = j
    BY OrderHasAll
  <2> QED BY <1>6, <1>custom, <2>1
<1>8. PICK m \in Nat : m = Len(custom)
  BY <1>7, LenProperties
<1>9. \A i \in 1 .. m : \E f \in own : custom[i] = CustomRow(f)
  BY <1>7, <1>8, ElementOfSeq DEF its
<1>10. PICK shown : shown = [i \in 1 .. n |-> ViewRow(views[i], dirs)]
  OBVIOUS
<1>11. shown \in Seq(Rows) /\ Len(shown) = n
  <2>1. \A i \in 1 .. n : ViewRow(views[i], dirs) \in Rows
    BY <1>3 DEF RowsWith
  <2>2. shown \in [1 .. n -> Rows]
    BY <1>10, <2>1
  <2> HIDE DEF Rows
  <2> QED BY <1>10, <2>2
<1>12. custom \in Seq(Rows)
  <2>1. its \subseteq Rows
    BY <1>5 DEF its, RowsWith
  <2> QED BY <1>7, <2>1, SeqMonotonic
<1> HIDE DEF Rows
<1>13. PICK rows : rows = shown \o custom
  OBVIOUS
<1>14. /\ rows \in Seq(Rows) /\ Len(rows) = n + m
       /\ \A i \in 1 .. (n + m) : rows[i] = IF i <= n THEN shown[i] ELSE custom[i - n]
  BY <1>8, <1>11, <1>12, <1>13, ConcatProperties
<1>15. \A i \in 1 .. n : i \in 1 .. (n + m) /\ rows[i] = ViewRow(views[i], dirs)
  BY <1>10, <1>14
<1>16. \A i \in 1 .. (n + m) : i \notin 1 .. n => i - n \in 1 .. m /\ rows[i] = custom[i - n]
  BY <1>14
<1>17. ASSUME NEW i \in 1 .. (n + m) PROVE RowFrom(views, dirs, rows[i])
  <2>1. CASE i \in 1 .. n
    BY <1>3, <1>15, <2>1 DEF RowFrom
  <2>2. CASE i \notin 1 .. n
    <3>1. \E f \in own : rows[i] = CustomRow(f)
      BY <1>9, <1>16, <2>2
    <3> QED BY <1>4, <3>1 DEF RowFrom
  <2> QED BY <2>1, <2>2
<1>18. ASSUME NEW id \in ToSet(views) PROVE \E i \in 1 .. (n + m) : rows[i] = ViewRow(id, dirs)
  BY <1>2, <1>15 DEF ToSet
<1>19. ASSUME NEW i \in 1 .. (n + m), NEW j \in 1 .. (n + m), rows[i] = rows[j] PROVE i = j
  <2>1. CASE i \in 1 .. n /\ j \in 1 .. n
    <3>1. rows[i] = ViewRow(views[i], dirs) /\ rows[j] = ViewRow(views[j], dirs)
      BY <1>15, <2>1
    <3>2. Views[views[i]].tag = Views[views[j]].tag
      <4>1. \A k \in 1 .. n : ViewRow(views[k], dirs).tag = Views[views[k]].tag
        BY <1>3, ViewRowIs
      <4> QED BY <1>19, <2>1, <3>1, <4>1
    <3>3. /\ Claims(views[i], Views[views[i]].tag)
          /\ Claims(views[j], Views[views[j]].tag)
      BY <1>3, <2>1, ViewNames DEF Claims
    <3>4. views[i] = views[j]
      BY <1>3, <2>1, <3>2, <3>3, OneClaims
    <3> QED BY <1>2, <2>1, <3>4 DEF ViewLists, Once
  <2>2. ASSUME NEW k \in 1 .. n, NEW l \in 1 .. (n + m), l \notin 1 .. n, rows[k] = rows[l]
        PROVE  FALSE
    <3>1. ~rows[k].custom
      BY <1>3, <1>15, ViewRowIs
    <3>2. \E f \in own : rows[l] = CustomRow(f)
      BY <1>9, <1>16, <2>2
    <3> QED BY <2>2, <3>1, <3>2 DEF CustomRow
  <2>3. CASE i \notin 1 .. n /\ j \notin 1 .. n
    <3>1. custom[i - n] = custom[j - n] /\ i - n \in 1 .. m /\ j - n \in 1 .. m
      BY <1>16, <1>19, <2>3
    <3>2. i - n = j - n
      BY <1>7, <1>8, <3>1
    <3> QED BY <3>2
  <2> QED BY <1>19, <2>1, <2>2, <2>3
<1>20. ASSUME NEW f \in own PROVE CustomRow(f) \in ToSet(rows)
  <2>1. PICK i \in 1 .. m : custom[i] = CustomRow(f)
    BY <1>7, <1>8 DEF its
  <2>2. i + n \in 1 .. (n + m) /\ i + n \notin 1 .. n /\ (i + n) - n = i
    OBVIOUS
  <2>3. i + n \in DOMAIN rows /\ rows[i + n] = CustomRow(f)
    BY <1>14, <1>16, <2>1, <2>2, LenProperties
  <2> QED BY <2>3 DEF ToSet
<1> QED BY <1>2, <1>10, <1>13, <1>14, <1>17, <1>18, <1>19, <1>20 DEF RowSeqs, Rows

-----------------------------------------------------------------------------
(* What a discovery comes to *)

RowSet == {ViewRow(id, dirs) : id \in DOMAIN Views, dirs \in Dirs}
          \cup {CustomRow(f) : f \in RomFolders}

\* The folders of no view that are named for an emulator that stayed.
OwnFolders(s) ==
    {f \in ToSet(s.dirs) : /\ f.code \in {CoreFiles[c] : c \in s.steady}
                           /\ ~\E id \in ToSet(s.views) : OfView(id, f)}

OwnRows(s) == \A f \in OwnFolders(s) : CustomRow(f) \in ToSet(s.rows)

\* A folder that was noted is browsed, or one of the excuses is true.
BrowsedIn(s, f) ==
    LET its == {id \in ToSet(s.views) : OfView(id, f)} IN
    \/ its = {} /\ f.code \notin {CoreFiles[c] : c \in s.steady}
    \/ \E r \in ToSet(s.rows) : r.folder = f.name
    \/ Len(s.dirs) = MaxDirs
    \/ \E g \in ToSet(s.dirs) : g # f /\ (g.code = f.code \/ \E id \in its : OfView(id, g))

LEMMA RowsHave ==
    ASSUME NEW views, NEW dirs, NEW rows \in RowSeqs(views, dirs)
    PROVE  /\ \A r \in ToSet(rows) : RowFrom(views, dirs, r)
           /\ \A id \in ToSet(views) : ViewRow(id, dirs) \in ToSet(rows)
           /\ \A i \in 1 .. Len(rows) : rows[i] \in ToSet(rows)
  BY LenProperties DEF RowSeqs, ToSet

LEMMA NotedIsBrowsed ==
    ASSUME NEW s, s.views \in ViewLists, s.dirs \in Dirs, s.rows \in RowSeqs(s.views, s.dirs),
           OwnRows(s), NEW f \in RomFolders, Noted(s.dirs, f)
    PROVE  BrowsedIn(s, f)
<1> DEFINE views == s.views
<1> DEFINE dirs == s.dirs
<1> DEFINE rows == s.rows
<1> DEFINE its == {id \in ToSet(views) : OfView(id, f)}
<1>1. SUFFICES ASSUME Len(dirs) # MaxDirs,
                      ~\E g \in ToSet(dirs) :
                          g # f /\ (g.code = f.code \/ \E id \in its : OfView(id, g))
               PROVE  \/ its = {} /\ f.code \notin {CoreFiles[c] : c \in s.steady}
                      \/ \E r \in ToSet(rows) : r.folder = f.name
  BY DEF BrowsedIn
<1>2. ToSet(views) \subseteq DOMAIN Views
  BY LenProperties, ElementOfSeq DEF ViewLists, ToSet
<1>3. f \in ToSet(dirs)
  <2>1. PICK i \in 1 .. Len(dirs) : dirs[i].code = f.code
    BY <1>1 DEF Noted
  <2>2. dirs[i] \in ToSet(dirs)
    BY LenProperties DEF Dirs, ToSet
  <2> QED BY <1>1, <2>1, <2>2
<1>4. CASE its # {}
  <2>1. PICK id \in its : TRUE
    BY <1>4
  <2>2. id \in DOMAIN Views /\ OfView(id, f)
    BY <1>2
  <2>3. PICK g \in ToSet(dirs) : OfView(id, g) /\ ViewRow(id, dirs).folder = g.name
    BY <1>3, <2>2, ViewRowIs
  <2>4. g = f
    BY <1>1, <2>1, <2>3
  <2>5. ViewRow(id, dirs) \in ToSet(rows)
    BY RowsHave
  <2> QED BY <2>3, <2>4, <2>5
<1>5. CASE its = {}
  <2>1. SUFFICES ASSUME f.code \in {CoreFiles[c] : c \in s.steady}
                 PROVE  \E r \in ToSet(rows) : r.folder = f.name
    BY <1>5
  <2>2. CustomRow(f) \in ToSet(rows)
    BY <1>3, <1>5, <2>1 DEF OwnRows, OwnFolders
  <2> QED BY <2>2 DEF CustomRow
<1> QED BY <1>4, <1>5

\* What the table says of a tag when nobody writes to it.
FoundFor(i, tag) ==
    IF i = 0 THEN tag \notin DOMAIN StaticAliases ELSE i \in IdentityRows /\ tag \in Words(i)

\* The text that the tag's row gives.
TextOf(i, tag) == IF i = 0 THEN tag ELSE Identities[i].tag

AliasFacts ==
    /\ \A i, j \in IdentityRows : i # j => Words(i) \cap Words(j) = {}
    /\ \A a \in DOMAIN StaticAliases : \E i \in IdentityRows : Identities[i].tag = StaticAliases[a]

LEMMA AliasesMean == AliasFacts
  BY CatalogAssumption, Zenon DEF AliasFacts

\* The row a tag was listed with is the one that it means, and that of an alias
\* the one with the alias's tag.
LEMMA MeantIsIts ==
    ASSUME NEW views \in ViewLists, NEW dirs \in Dirs, NEW q, NEW r,
           RowFrom(views, dirs, q), RowFrom(views, dirs, r),
           NEW tag, NEW i, FoundFor(i, tag), Means(q, tag, TextOf(i, tag)),
           r.tag = tag \/ (tag \in DOMAIN StaticAliases /\ r.tag = StaticAliases[tag])
    PROVE  q = r
<1>1. \A a \in IdentityRows : Identities[a].tag \in Words(a)
  BY DEF Words
<1>2. CASE r.tag = tag
  <2>1. tag \in NamesOf(r)
    BY <1>2 DEF NamesOf
  <2>2. CASE tag \in NamesOf(q)
    BY <2>1, <2>2, NoNameShared
  <2>3. CASE q.tag = TextOf(i, tag) /\ tag \notin NamesOf(q)
    <3>1. i \in IdentityRows /\ tag \in Words(i) /\ q.tag = Identities[i].tag
      BY <2>3 DEF FoundFor, TextOf, NamesOf
    <3>2. q.tag \in Words(i) /\ CalledBy(q, q.tag) /\ CalledBy(r, tag)
      BY <1>1, <1>2, <3>1 DEF CalledBy
    <3> QED BY <3>1, <3>2, OneForWords
  <2> QED BY <2>2, <2>3 DEF Means, NamesOf
<1>3. CASE tag \in DOMAIN StaticAliases /\ r.tag = StaticAliases[tag]
  <2>1. i \in IdentityRows /\ tag \in Words(i)
    BY <1>3 DEF FoundFor
  <2>2. PICK j \in IdentityRows : Identities[j].tag = StaticAliases[tag]
    BY <1>3, AliasesMean DEF AliasFacts
  <2>3. tag \in Words(j)
    BY <1>3, <2>2 DEF Words
  <2>4. i = j
    BY <2>1, <2>2, <2>3, AliasesMean DEF AliasFacts
  <2>5. TextOf(i, tag) = r.tag /\ r.tag \in Words(i)
    <3>1. i # 0
      BY <2>1, CatalogAssumption, LenProperties DEF IdentityRows
    <3> QED BY <1>1, <1>3, <2>1, <2>2, <2>4, <3>1 DEF TextOf
  <2>6. CASE q.tag = r.tag
    BY <2>6, NoNameShared DEF NamesOf
  <2>7. CASE tag \in NamesOf(q)
    BY <1>3, <2>1, <2>5, <2>7, OneForWords DEF CalledBy
  <2> QED BY <2>5, <2>6, <2>7 DEF Means, NamesOf
<1> QED BY <1>2, <1>3

\* The first row that a tag means.
Selected(rows, tag, text) == SelectInSeq(rows, LAMBDA row : Means(row, tag, text))

LEMMA SelectIs ==
    ASSUME NEW R, NEW rows \in Seq(R), NEW tag, NEW text
    PROVE  LET k == Selected(rows, tag, text) IN
           \/ k = 0 /\ \A i \in 1 .. Len(rows) : ~Means(rows[i], tag, text)
           \/ k \in 1 .. Len(rows) /\ Means(rows[k], tag, text)
<1> DEFINE I == {i \in 1 .. Len(rows) : Means(rows[i], tag, text)}
<1>1. Selected(rows, tag, text) = IF I # {} THEN Min(I) ELSE 0
  BY DEF Selected, SelectInSeq
<1>2. CASE I = {}
  BY <1>1, <1>2
<1>3. CASE I # {}
  <2>1. I \subseteq Nat /\ \E i : i \in I
    BY <1>3, LenProperties
  <2> HIDE DEF I
  <2>2. \E i \in I : \A j \in I : i <= j
    BY <2>1, LeastOf
  <2>3. Min(I) \in I
    BY <2>2 DEF Min
  <2> QED BY <1>1, <1>3, <2>3 DEF I
<1> QED BY <1>2, <1>3

\* What a discovery that is done gave its request.
ResolvedIn(s) ==
    LET its(x) == {r \in ToSet(s.rows) : r.tag = x} IN
    /\ IF its(s.tag) # {} THEN its(s.tag) = {s.row}
       ELSE s.tag \in DOMAIN StaticAliases /\ its(StaticAliases[s.tag]) # {}
               => its(StaticAliases[s.tag]) = {s.row}
    /\ \A i, j \in 1 .. Len(s.rows) : i # j => s.rows[i].folder # s.rows[j].folder

LEMMA FoundIsResolved ==
    ASSUME NEW s, s.views \in ViewLists, s.dirs \in Dirs, s.rows \in RowSeqs(s.views, s.dirs),
           NEW i, FoundFor(i, s.tag),
           NEW k \in Nat, s.row = IF k = 0 THEN NoPlatform ELSE s.rows[k],
           \/ k = 0 /\ \A j \in 1 .. Len(s.rows) : ~Means(s.rows[j], s.tag, TextOf(i, s.tag))
           \/ k \in 1 .. Len(s.rows) /\ Means(s.rows[k], s.tag, TextOf(i, s.tag))
    PROVE  ResolvedIn(s)
<1> DEFINE its(x) == {r \in ToSet(s.rows) : r.tag = x}
<1>1. /\ \A r \in ToSet(s.rows) : RowFrom(s.views, s.dirs, r)
      /\ \A j \in 1 .. Len(s.rows) : s.rows[j] \in ToSet(s.rows)
  BY RowsHave
<1>2. ASSUME NEW x, x = s.tag \/ (s.tag \in DOMAIN StaticAliases /\ x = StaticAliases[s.tag]),
             NEW r \in its(x)
      PROVE  s.row = r
  <2>1. PICK j \in 1 .. Len(s.rows) : r = s.rows[j]
    BY LenProperties DEF RowSeqs, ToSet
  <2>2. Means(r, s.tag, TextOf(i, s.tag))
    <3>1. CASE x = s.tag
      BY <3>1 DEF Means
    <3>2. CASE s.tag \in DOMAIN StaticAliases /\ x = StaticAliases[s.tag]
      <4>1. i \in IdentityRows /\ s.tag \in Words(i)
        BY <3>2 DEF FoundFor
      <4>2. PICK jj \in IdentityRows : Identities[jj].tag = StaticAliases[s.tag]
        BY <3>2, AliasesMean DEF AliasFacts
      <4>3. s.tag \in Words(jj)
        BY <3>2, <4>2 DEF Words
      <4>4. i = jj
        BY <4>1, <4>2, <4>3, AliasesMean DEF AliasFacts
      <4>5. i # 0
        BY <4>1, CatalogAssumption, LenProperties DEF IdentityRows
      <4> QED BY <3>2, <4>2, <4>4, <4>5 DEF TextOf, Means
    <3> QED BY <1>2, <3>1, <3>2
  <2>3. k \in 1 .. Len(s.rows) /\ Means(s.rows[k], s.tag, TextOf(i, s.tag))
    BY <2>1, <2>2
  <2>4. s.row = s.rows[k]
    BY <2>3
  <2>5. RowFrom(s.views, s.dirs, s.row) /\ RowFrom(s.views, s.dirs, r)
    BY <1>1, <2>3, <2>4
  <2>6. r.tag = s.tag \/ (s.tag \in DOMAIN StaticAliases /\ r.tag = StaticAliases[s.tag])
    BY <1>2
  <2> QED BY <2>3, <2>4, <2>5, <2>6, MeantIsIts
<1>3. its(s.tag) # {} => its(s.tag) = {s.row}
  BY <1>2
<1>4. s.tag \in DOMAIN StaticAliases /\ its(StaticAliases[s.tag]) # {}
         => its(StaticAliases[s.tag]) = {s.row}
  BY <1>2
<1>5. ASSUME NEW a \in 1 .. Len(s.rows), NEW b \in 1 .. Len(s.rows), a # b,
             s.rows[a].folder = s.rows[b].folder
      PROVE  FALSE
  <2>1. s.rows[a] = s.rows[b]
    BY <1>1, <1>5, NoNameShared DEF NamesOf
  <2> QED BY <1>5, <2>1 DEF RowSeqs
<1> QED BY <1>3, <1>4, <1>5 DEF ResolvedIn

-----------------------------------------------------------------------------
(* The invariant of the discoveries *)

SeekPcs == {"idle", "clear", "begin", "write", "mark", "find", "views",
            "scan", "rows", "answer", "done"}

Seek == [pc : SeekPcs, tag : Tags \cup {NoTag}, at : IdentityRows,
         found : {0} \cup IdentityRows, views : ViewLists, card : RomCards, dirs : Dirs,
         rows : Seq(RowSet), row : RowSet \cup {NoPlatform}, raced : BOOLEAN,
         stayed : SUBSET (RomCards \X RomFolders), steady : SUBSET DOMAIN CoreFiles]

\* What a discovery knows: the folders of the cards it has read are noted, its
\* rows are those of its views and folders, and the table told it of its tag.
Discovered(s) ==
    /\ s.pc \in SeekPcs \ {"scan", "rows", "answer", "done"} => s.dirs = <<>> /\ s.card = 1
    /\ s.pc \in {"scan", "rows", "answer"} =>
          \A d \in s.stayed : ~d[2].shortcut /\ (s.pc = "scan" => d[1] < s.card)
                                 => Noted(s.dirs, d[2])
    /\ s.pc = "answer" => s.rows \in RowSeqs(s.views, s.dirs) /\ OwnRows(s)
    /\ s.pc \in {"views", "scan", "rows", "answer"} /\ s.tag # NoTag /\ ~s.raced
          => FoundFor(s.found, s.tag)
    /\ s.pc = "done" /\ ~s.raced => ResolvedIn(s)
    /\ IF s.pc = "done" THEN s.row \in ToSet(s.rows) \cup {NoPlatform} ELSE s.row = NoPlatform

SeeksOK ==
    /\ seek \in [Lookers -> Seek]
    /\ \A t \in Lookers :
          Discovered(seek[t]) /\ seek[t].stayed \subseteq romDirs /\ seek[t].steady \subseteq cores

CardsOK ==
    /\ romDirs \subseteq RomCards \X RomFolders /\ cores \subseteq DOMAIN CoreFiles
    /\ table \in [IdentityRows -> {"empty", "part", "full"}] /\ filled \in BOOLEAN
    /\ shifts \in 0 .. MaxShifts

PlatformsInv == CardsOK /\ SeeksOK

LEMMA RowSeqsTyped ==
    ASSUME NEW views, NEW dirs \in Dirs, NEW rows \in RowSeqs(views, dirs)
    PROVE  rows \in Seq(RowSet)
<1>1. RowsWith(dirs) \subseteq RowSet
  BY DEF RowsWith, RowSet
<1> QED BY <1>1, SeqMonotonic DEF RowSeqs

LEMMA FirstCard == 1 \in RomCards /\ 1 \in IdentityRows
<1>1. 1 \in RomCards
  <2>1. PICK n \in Nat \ {0} : n = Cardinality(RomCards)
    BY CatalogAssumption
  <2>2. RomCards = 1 .. n
    BY <2>1, CatalogAssumption
  <2> QED BY <2>2
<1>2. 1 \in IdentityRows
  <2>1. Identities \in Seq(ToSet(Identities)) /\ Identities # <<>>
    BY CatalogAssumption
  <2>2. Len(Identities) \in Nat \ {0}
    BY <2>1, EmptySeq
  <2> QED BY <2>2 DEF IdentityRows
<1> QED BY <1>1, <1>2

LEMMA NoRows == <<>> \in Seq(RowSet) /\ <<>> \in ViewLists
  BY EmptySeq DEF ViewLists, Once

LEMMA NoDiscoveryOK == NoDiscovery \in Seek /\ Discovered(NoDiscovery) /\ NoDiscovery.stayed = {}
                       /\ NoDiscovery.steady = {}
<1>1. <<>> \in ViewLists /\ <<>> \in Dirs /\ <<>> \in Seq(RowSet)
  BY NoRows, NoDirs
<1>2. NoDiscovery \in Seek
  BY <1>1, FirstCard DEF NoDiscovery, Seek, SeekPcs
<1>3. Discovered(NoDiscovery)
  BY DEF NoDiscovery, Discovered, SeekPcs
<1> QED BY <1>2, <1>3 DEF NoDiscovery

\* A discovery as it starts.
Started(tag, stayed, steady, pc) ==
    [NoDiscovery EXCEPT !.tag = tag, !.stayed = stayed, !.steady = steady, !.pc = pc]

LEMMA StartedOK ==
    ASSUME NEW tag \in Tags \cup {NoTag}, NEW stayed \in SUBSET (RomCards \X RomFolders),
           NEW steady \in SUBSET DOMAIN CoreFiles,
           NEW pc \in {"views", "find", "clear"}, pc = "views" => tag = NoTag,
           NEW r, r = Started(tag, stayed, steady, pc)
    PROVE  r \in Seek /\ Discovered(r) /\ r.stayed = stayed /\ r.steady = steady
<1>1. PICK n \in Seek : n = NoDiscovery
  BY NoDiscoveryOK
<1>2. n.card = 1 /\ n.dirs = <<>> /\ n.row = NoPlatform
  BY <1>1 DEF NoDiscovery
<1>3. r = [n EXCEPT !.tag = tag, !.stayed = stayed, !.steady = steady, !.pc = pc]
  BY <1>1 DEF Started
<1>4. r \in Seek
  BY <1>3 DEF Seek, SeekPcs
<1>5. /\ r.pc = pc /\ r.tag = tag /\ r.card = 1 /\ r.dirs = <<>> /\ r.row = NoPlatform
      /\ r.stayed = stayed /\ r.steady = steady
  BY <1>2, <1>3 DEF Seek
<1>6. Discovered(r)
  BY <1>5 DEF Discovered, SeekPcs
<1> QED BY <1>4, <1>5, <1>6

LEMMA PlatformsInitOK == PlatformsInit => PlatformsInv
<1> SUFFICES ASSUME PlatformsInit PROVE PlatformsInv
  OBVIOUS
<1>1. CardsOK
  <2>1. MaxShifts \in Nat
    BY CatalogAssumption
  <2>2. shifts \in 0 .. MaxShifts
    BY <2>1 DEF PlatformsInit
  <2> QED BY <2>2 DEF PlatformsInit, CardsOK
<1>2. SeeksOK
  <2> HIDE DEF NoDiscovery
  <2> QED BY NoDiscoveryOK DEF PlatformsInit, SeeksOK
<1> QED BY <1>1, <1>2 DEF PlatformsInv

\* One worker takes a step, and the cards stay as they are.
LEMMA OneSeeks ==
    ASSUME SeeksOK, NEW t \in Lookers, NEW r \in Seek, Discovered(r), r.stayed \subseteq romDirs,
           r.steady \subseteq cores,
           seek' = [seek EXCEPT ![t] = r], romDirs' = romDirs /\ cores' = cores
    PROVE  SeeksOK'
<1> HIDE DEF Seek
<1>1. seek' \in [Lookers -> Seek]
  BY DEF SeeksOK
<1>2. ASSUME NEW u \in Lookers
      PROVE  /\ Discovered(seek'[u]) /\ seek'[u].stayed \subseteq romDirs'
             /\ seek'[u].steady \subseteq cores'
  BY DEF SeeksOK
<1> QED BY <1>1, <1>2 DEF SeeksOK

LEMMA ChangeFolderOK ==
    ASSUME PlatformsInv, NEW d \in RomCards \X RomFolders, ChangeFolder(d)
    PROVE  PlatformsInv'
<1>1. CardsOK'
  BY CatalogAssumption DEF PlatformsInv, CardsOK, ChangeFolder, Shift
<1>2. ASSUME NEW t \in Lookers
      PROVE  /\ [seek[t] EXCEPT !.stayed = @ \ {d}] \in Seek
             /\ Discovered([seek[t] EXCEPT !.stayed = @ \ {d}])
             /\ [seek[t] EXCEPT !.stayed = @ \ {d}].stayed \subseteq romDirs'
             /\ [seek[t] EXCEPT !.stayed = @ \ {d}].steady \subseteq cores'
  <2>1. PICK s \in Seek : s = seek[t]
    BY DEF PlatformsInv, SeeksOK
  <2>2. Discovered(s) /\ s.stayed \subseteq romDirs /\ s.steady \subseteq cores
    BY <2>1 DEF PlatformsInv, SeeksOK
  <2>3. PICK r : r = [s EXCEPT !.stayed = @ \ {d}]
    OBVIOUS
  <2>4. r \in Seek
    BY <2>3 DEF Seek
  <2>5. /\ r.pc = s.pc /\ r.tag = s.tag /\ r.found = s.found /\ r.views = s.views
        /\ r.card = s.card /\ r.dirs = s.dirs /\ r.rows = s.rows /\ r.row = s.row
        /\ r.raced = s.raced /\ r.stayed = s.stayed \ {d} /\ r.steady = s.steady
    BY <2>3 DEF Seek
  <2>6. Discovered(r)
    BY <2>2, <2>5 DEF Discovered, ResolvedIn, OwnRows, OwnFolders
  <2>7. r.stayed \subseteq romDirs' /\ r.steady \subseteq cores'
    BY <2>2, <2>5 DEF ChangeFolder
  <2> QED BY <2>1, <2>3, <2>4, <2>6, <2>7
<1>3. SeeksOK'
  <2>1. seek' = [t \in Lookers |-> [seek[t] EXCEPT !.stayed = @ \ {d}]]
    BY DEF ChangeFolder
  <2> QED BY <1>2, <2>1 DEF SeeksOK
<1> QED BY <1>1, <1>3 DEF PlatformsInv

LEMMA ChangeCoreOK ==
    ASSUME PlatformsInv, NEW c \in DOMAIN CoreFiles, ChangeCore(c)
    PROVE  PlatformsInv'
<1>1. CardsOK'
  BY CatalogAssumption DEF PlatformsInv, CardsOK, ChangeCore, Shift
<1>2. ASSUME NEW t \in Lookers
      PROVE  /\ [seek[t] EXCEPT !.steady = @ \ {c}] \in Seek
             /\ Discovered([seek[t] EXCEPT !.steady = @ \ {c}])
             /\ [seek[t] EXCEPT !.steady = @ \ {c}].stayed \subseteq romDirs'
             /\ [seek[t] EXCEPT !.steady = @ \ {c}].steady \subseteq cores'
  <2>1. PICK s \in Seek : s = seek[t]
    BY DEF PlatformsInv, SeeksOK
  <2>2. Discovered(s) /\ s.stayed \subseteq romDirs /\ s.steady \subseteq cores
    BY <2>1 DEF PlatformsInv, SeeksOK
  <2>3. PICK r : r = [s EXCEPT !.steady = @ \ {c}]
    OBVIOUS
  <2>4. r \in Seek
    BY <2>3 DEF Seek
  <2>5. /\ r.pc = s.pc /\ r.tag = s.tag /\ r.found = s.found /\ r.views = s.views
        /\ r.card = s.card /\ r.dirs = s.dirs /\ r.rows = s.rows /\ r.row = s.row
        /\ r.raced = s.raced /\ r.stayed = s.stayed /\ r.steady = s.steady \ {c}
    BY <2>3 DEF Seek
  <2>6. OwnRows(s) => OwnRows(r)
    BY <2>5 DEF OwnRows, OwnFolders
  <2>7. Discovered(r)
    BY <2>2, <2>5, <2>6 DEF Discovered, ResolvedIn
  <2>8. r.stayed \subseteq romDirs' /\ r.steady \subseteq cores'
    BY <2>2, <2>5 DEF ChangeCore
  <2> QED BY <2>1, <2>3, <2>4, <2>7, <2>8
<1>3. SeeksOK'
  <2>1. seek' = [t \in Lookers |-> [seek[t] EXCEPT !.steady = @ \ {c}]]
    BY DEF ChangeCore
  <2> QED BY <1>2, <2>1 DEF SeeksOK
<1> QED BY <1>1, <1>3 DEF PlatformsInv

LEMMA RestartProgramOK ==
    ASSUME PlatformsInv, RestartProgram
    PROVE  PlatformsInv'
<1>1. CardsOK'
  BY DEF PlatformsInv, CardsOK, RestartProgram
<1>2. SeeksOK'
  <2> HIDE DEF NoDiscovery
  <2> QED BY NoDiscoveryOK DEF SeeksOK, RestartProgram
<1> QED BY <1>1, <1>2 DEF PlatformsInv

LEMMA StartDiscoveryOK ==
    ASSUME PlatformsInv, NEW t \in Lookers, StartDiscovery(t)
    PROVE  PlatformsInv'
<1>1. CardsOK'
  <2>1. MaxShifts \in Nat
    BY CatalogAssumption
  <2> QED BY <2>1 DEF PlatformsInv, CardsOK, StartDiscovery, Shift
<1>2. PICK tag \in Tags \cup {NoTag} :
         seek' = [seek EXCEPT ![t] =
            [NoDiscovery EXCEPT !.tag = tag, !.stayed = romDirs, !.steady = cores,
               !.pc = IF tag = NoTag THEN "views" ELSE IF filled THEN "find" ELSE "clear"]]
  BY DEF StartDiscovery
<1>3. PICK pc : pc = IF tag = NoTag THEN "views" ELSE IF filled THEN "find" ELSE "clear"
  OBVIOUS
<1>4. PICK r : r = Started(tag, romDirs, cores, pc)
  OBVIOUS
<1>5. pc \in {"views", "find", "clear"} /\ (pc = "views" => tag = NoTag)
  BY <1>3
<1>6. /\ romDirs \in SUBSET (RomCards \X RomFolders) /\ romDirs' = romDirs
      /\ cores \in SUBSET DOMAIN CoreFiles /\ cores' = cores
  BY DEF PlatformsInv, CardsOK, StartDiscovery
<1>7. r \in Seek /\ Discovered(r) /\ r.stayed = romDirs /\ r.steady = cores
  BY <1>4, <1>5, <1>6, StartedOK
<1>8. seek' = [seek EXCEPT ![t] = r]
  BY <1>2, <1>3, <1>4 DEF Started
<1>9. SeeksOK'
  BY <1>6, <1>7, <1>8, OneSeeks DEF PlatformsInv
<1> QED BY <1>1, <1>9 DEF PlatformsInv

\* Before it looks for its tag, a worker goes from row to row of the table.
Early(s, pc, at) == [s EXCEPT !.pc = pc, !.at = at]

LEMMA EarlyOK ==
    ASSUME NEW s \in Seek, Discovered(s), s.pc \in {"clear", "begin", "write", "mark"},
           NEW pc \in {"clear", "begin", "write", "mark", "find"}, NEW at \in IdentityRows,
           NEW r, r = Early(s, pc, at)
    PROVE  r \in Seek /\ Discovered(r) /\ r.stayed = s.stayed /\ r.steady = s.steady
<1>1. r \in Seek
  BY DEF Seek, SeekPcs, Early
<1>2. /\ r.pc = pc /\ r.card = s.card /\ r.dirs = s.dirs /\ r.row = s.row
      /\ r.stayed = s.stayed /\ r.steady = s.steady
  BY DEF Seek, Early
<1>3. Discovered(r)
  BY <1>2 DEF Discovered, SeekPcs
<1> QED BY <1>1, <1>2, <1>3

LEMMA FillRowOK ==
    ASSUME PlatformsInv, NEW t \in Lookers, FillRow(t)
    PROVE  PlatformsInv'
<1>1. PICK s \in Seek : s = seek[t]
  BY DEF PlatformsInv, SeeksOK
<1>2. Discovered(s) /\ s.stayed \subseteq romDirs /\ s.steady \subseteq cores /\ s.at \in IdentityRows
  BY <1>1 DEF PlatformsInv, SeeksOK, Seek
<1>3. s.pc \in {"clear", "begin", "write"} /\ romDirs' = romDirs /\ cores' = cores
  BY <1>1 DEF FillRow
<1>4. CardsOK'
  <2>1. \E v \in {"empty", "part", "full"} : table' = [table EXCEPT ![s.at] = v]
    BY <1>1 DEF FillRow
  <2>2. table' \in [IdentityRows -> {"empty", "part", "full"}]
    BY <2>1 DEF PlatformsInv, CardsOK
  <2> QED BY <2>2 DEF PlatformsInv, CardsOK, FillRow
<1>5. \E pc \in {"clear", "begin", "write", "mark", "find"}, at \in IdentityRows :
         seek' = [seek EXCEPT ![t] = [s EXCEPT !.pc = pc, !.at = at]]
  <2>1. CASE s.pc \in {"clear", "begin"}
    <3>1. PICK pc \in {"begin", "write"} : seek' = [seek EXCEPT ![t] = [s EXCEPT !.pc = pc]]
      BY <1>1, <2>1 DEF FillRow, Goes
    <3>2. [s EXCEPT !.pc = pc] = [s EXCEPT !.pc = pc, !.at = s.at]
      BY DEF Seek
    <3>3. seek' = [seek EXCEPT ![t] = [s EXCEPT !.pc = pc, !.at = s.at]]
      BY <3>1, <3>2
    <3> QED BY <1>2, <3>3
  <2>2. CASE s.pc = "write"
    <3>1. PICK pc : pc = IF s.at < Len(Identities) THEN "clear" ELSE "mark"
      OBVIOUS
    <3>2. PICK at : at = IF s.at < Len(Identities) THEN s.at + 1 ELSE 1
      OBVIOUS
    <3>3. seek' = [seek EXCEPT ![t] = [s EXCEPT !.pc = pc, !.at = at]]
      <4>1. seek' = [seek EXCEPT ![t].pc = pc, ![t].at = at]
        BY <1>1, <2>2, <3>1, <3>2 DEF FillRow
      <4> QED BY <1>1, <4>1 DEF PlatformsInv, SeeksOK
    <3>4. at \in IdentityRows
      <4>1. PICK n \in Nat : n = Len(Identities)
        BY CatalogAssumption, LenProperties
      <4> QED BY <1>2, <3>2, <4>1, FirstCard DEF IdentityRows
    <3> QED BY <3>1, <3>3, <3>4
  <2> QED BY <1>3, <2>1, <2>2
<1>6. PICK pc \in {"clear", "begin", "write", "mark", "find"}, at \in IdentityRows :
         seek' = [seek EXCEPT ![t] = [s EXCEPT !.pc = pc, !.at = at]]
  BY <1>5
<1>7. PICK r : r = Early(s, pc, at)
  OBVIOUS
<1>8. r \in Seek /\ Discovered(r) /\ r.stayed = s.stayed /\ r.steady = s.steady
  BY <1>2, <1>3, <1>7, EarlyOK
<1>9. SeeksOK'
  <2>1. seek' = [seek EXCEPT ![t] = r]
    BY <1>6, <1>7 DEF Early
  <2> QED BY <1>2, <1>3, <1>8, <2>1, OneSeeks DEF PlatformsInv
<1> QED BY <1>4, <1>9 DEF PlatformsInv

LEMMA MarkFilledOK ==
    ASSUME PlatformsInv, NEW t \in Lookers, MarkFilled(t)
    PROVE  PlatformsInv'
<1>1. PICK s \in Seek : s = seek[t]
  BY DEF PlatformsInv, SeeksOK
<1>2. Discovered(s) /\ s.stayed \subseteq romDirs /\ s.steady \subseteq cores /\ s.at \in IdentityRows
  BY <1>1 DEF PlatformsInv, SeeksOK, Seek
<1>3. s.pc = "mark" /\ romDirs' = romDirs /\ cores' = cores
  BY <1>1 DEF MarkFilled
<1>4. CardsOK'
  BY DEF PlatformsInv, CardsOK, MarkFilled
<1>5. PICK r : r = Early(s, "find", s.at)
  OBVIOUS
<1>6. r = [s EXCEPT !.pc = "find"]
  BY <1>5 DEF Seek, Early
<1>7. seek' = [seek EXCEPT ![t] = r]
  BY <1>1, <1>6 DEF MarkFilled, Goes
<1>8. r \in Seek /\ Discovered(r) /\ r.stayed = s.stayed /\ r.steady = s.steady
  BY <1>2, <1>3, <1>5, EarlyOK
<1>9. SeeksOK'
  BY <1>2, <1>3, <1>7, <1>8, OneSeeks DEF PlatformsInv
<1> QED BY <1>4, <1>9 DEF PlatformsInv

\* In a table that nobody writes to, a tag is found by its id, its tag or its
\* code, or else it is an alias.
LEMMA FullRowsOf ==
    ASSUME ~Torn, NEW tag, NEW i \in RowsOf(tag)
    PROVE  \/ /\ i \in IdentityRows
              /\ tag \in {Identities[i].id, Identities[i].tag, Identities[i].code}
           \/ i = 0 /\ \A j \in IdentityRows :
                          tag \notin {Identities[j].id, Identities[j].tag, Identities[j].code}
<1>1. \A j \in IdentityRows : table[j] = "full"
  BY DEF Torn
<1>2. \A j \in IdentityRows : \A text : ReadsAs(j, text) = {text}
  BY <1>1 DEF ReadsAs
<1>3. CASE i \in IdentityRows /\ (tag = Identities[i].id \/ tag \in ReadsAs(i, Identities[i].tag)
                                                          \cup ReadsAs(i, Identities[i].code))
  BY <1>2, <1>3
<1>4. CASE i = 0 /\ ~\E j \in IdentityRows : tag = Identities[j].id
                      \/ (table[j] = "full" /\ tag \in {Identities[j].tag, Identities[j].code})
  BY <1>1, <1>4
<1> QED BY <1>3, <1>4 DEF RowsOf

LEMMA FullFindRow ==
    ASSUME ~Torn, NEW tag, NEW i \in FindRow(tag)
    PROVE  FoundFor(i, tag)
<1>1. 0 \notin IdentityRows
  BY CatalogAssumption, LenProperties DEF IdentityRows
<1>2. CASE i \in RowsOf(tag) /\ i # 0
  <2>1. i \in IdentityRows /\ tag \in Words(i)
    BY <1>2, FullRowsOf DEF Words
  <2> QED BY <1>2, <2>1 DEF FoundFor
<1>3. CASE i = 0 /\ tag \notin DOMAIN StaticAliases
  BY <1>3 DEF FoundFor
<1>4. CASE tag \in DOMAIN StaticAliases /\ i \in RowsOf(StaticAliases[tag])
  <2>1. PICK j \in IdentityRows : Identities[j].tag = StaticAliases[tag]
    BY <1>4, AliasesMean DEF AliasFacts
  <2>2. /\ i \in IdentityRows
        /\ StaticAliases[tag] \in {Identities[i].id, Identities[i].tag, Identities[i].code}
    BY <1>4, <2>1, FullRowsOf
  <2>3. StaticAliases[tag] \in Words(i) /\ StaticAliases[tag] \in Words(j)
    BY <2>1, <2>2 DEF Words
  <2>4. i = j
    BY <2>1, <2>2, <2>3, AliasesMean DEF AliasFacts
  <2>5. tag \in Words(i)
    BY <1>4, <2>1, <2>4 DEF Words
  <2> QED BY <1>1, <2>2, <2>5 DEF FoundFor
<1> QED BY <1>2, <1>3, <1>4 DEF FindRow

LEMMA FindTagOK ==
    ASSUME PlatformsInv, NEW t \in Lookers, FindTag(t)
    PROVE  PlatformsInv'
<1>1. PICK s \in Seek : s = seek[t]
  BY DEF PlatformsInv, SeeksOK
<1>2. Discovered(s) /\ s.stayed \subseteq romDirs /\ s.steady \subseteq cores
  BY <1>1 DEF PlatformsInv, SeeksOK
<1>3. s.pc = "find" /\ romDirs' = romDirs /\ cores' = cores
  BY <1>1 DEF FindTag
<1>4. CardsOK'
  BY DEF PlatformsInv, CardsOK, FindTag
<1>5. PICK i \in FindRow(s.tag) :
         seek' = [seek EXCEPT ![t].pc = "views", ![t].found = i, ![t].raced = Torn]
  BY <1>1 DEF FindTag
<1>6. i \in {0} \cup IdentityRows
  BY <1>5 DEF FindRow, RowsOf
<1>7. PICK raced \in BOOLEAN : raced = Torn
  BY DEF Torn
<1>8. PICK r : r = [s EXCEPT !.pc = "views", !.found = i, !.raced = raced]
  OBVIOUS
<1>9. seek' = [seek EXCEPT ![t] = r]
  BY <1>1, <1>5, <1>7, <1>8 DEF PlatformsInv, SeeksOK
<1>10. r \in Seek
  BY <1>6, <1>8 DEF Seek, SeekPcs
<1>11. /\ r.pc = "views" /\ r.tag = s.tag /\ r.found = i /\ r.raced = raced
       /\ r.card = s.card /\ r.dirs = s.dirs /\ r.row = s.row /\ r.stayed = s.stayed
       /\ r.steady = s.steady
  BY <1>8 DEF Seek
<1>12. ~raced => FoundFor(i, s.tag)
  BY <1>5, <1>7, FullFindRow
<1>13. Discovered(r)
  BY <1>2, <1>3, <1>11, <1>12 DEF Discovered, SeekPcs
<1>14. SeeksOK'
  BY <1>2, <1>3, <1>9, <1>10, <1>11, <1>13, OneSeeks DEF PlatformsInv
<1> QED BY <1>4, <1>14 DEF PlatformsInv

LEMMA SeeViewsOK ==
    ASSUME PlatformsInv, NEW t \in Lookers, SeeViews(t)
    PROVE  PlatformsInv'
<1>1. PICK s \in Seek : s = seek[t]
  BY DEF PlatformsInv, SeeksOK
<1>2. Discovered(s) /\ s.stayed \subseteq romDirs /\ s.steady \subseteq cores
  BY <1>1 DEF PlatformsInv, SeeksOK
<1>3. s.pc = "views" /\ romDirs' = romDirs /\ cores' = cores
  BY <1>1 DEF SeeViews
<1>4. CardsOK'
  BY DEF PlatformsInv, CardsOK, SeeViews
<1>5. PICK views \in ViewLists : views = FoldLeft(ShowView, <<>>, ViewIds)
  BY ShownOnce
<1>6. PICK r : r = [s EXCEPT !.pc = "scan", !.views = views]
  OBVIOUS
<1>7. seek' = [seek EXCEPT ![t] = r]
  <2>1. seek' = [seek EXCEPT ![t].pc = "scan", ![t].views = views]
    BY <1>5 DEF SeeViews
  <2> QED BY <1>1, <1>6, <2>1 DEF PlatformsInv, SeeksOK
<1>8. r \in Seek
  BY <1>6 DEF Seek, SeekPcs
<1>9. /\ r.pc = "scan" /\ r.tag = s.tag /\ r.found = s.found /\ r.raced = s.raced
      /\ r.card = s.card /\ r.dirs = s.dirs /\ r.row = s.row /\ r.stayed = s.stayed
      /\ r.steady = s.steady
  BY <1>6 DEF Seek
<1>10. \A d \in s.stayed : ~(d[1] < 1)
  <2>1. s.stayed \subseteq RomCards \X RomFolders
    BY DEF Seek
  <2>2. PICK n \in Nat : RomCards = 1 .. n
    BY CatalogAssumption
  <2> QED BY <2>1, <2>2
<1>11. Discovered(r)
  BY <1>2, <1>3, <1>9, <1>10 DEF Discovered, SeekPcs
<1>12. SeeksOK'
  BY <1>2, <1>3, <1>7, <1>8, <1>9, <1>11, OneSeeks DEF PlatformsInv
<1> QED BY <1>4, <1>12 DEF PlatformsInv

LEMMA ScanCardOK ==
    ASSUME PlatformsInv, NEW t \in Lookers, ScanCard(t)
    PROVE  PlatformsInv'
<1>1. PICK s \in Seek : s = seek[t]
  BY DEF PlatformsInv, SeeksOK
<1>2. Discovered(s) /\ s.stayed \subseteq romDirs /\ s.steady \subseteq cores
  BY <1>1 DEF PlatformsInv, SeeksOK
<1>3. s.pc = "scan" /\ romDirs' = romDirs /\ cores' = cores
  BY <1>1 DEF ScanCard
<1>4. CardsOK'
  BY DEF PlatformsInv, CardsOK, ScanCard
<1> DEFINE S == {d[2] : d \in {e \in Here : e[1] = s.card}}
<1>5. PICK order \in SetToSeqs(S) :
         seek' = [seek EXCEPT ![t].dirs = FoldLeft(NoteDir, @, order),
                              ![t].card = IF @ + 1 \in RomCards THEN @ + 1 ELSE 1,
                              ![t].pc = IF s.card + 1 \in RomCards THEN "scan" ELSE "rows"]
  BY <1>1 DEF ScanCard
<1>6. S \in SUBSET RomFolders
  BY DEF Here, PlatformsInv, CardsOK
<1>7. PICK dirs : dirs = FoldLeft(NoteDir, s.dirs, order)
  OBVIOUS
<1>8. s.dirs \in Dirs /\ s.card \in RomCards /\ s.stayed \subseteq RomCards \X RomFolders
  BY DEF Seek
<1>9. /\ dirs \in Dirs /\ \A f \in S : Noted(dirs, f)
      /\ \A h : Noted(s.dirs, h) => Noted(dirs, h)
  <2> HIDE DEF S
  <2>1. dirs = Noting(s.dirs, order)
    BY <1>7 DEF Noting
  <2> QED BY <1>6, <1>8, <2>1, CardIsNoted
<1>10. PICK next : next = IF s.card + 1 \in RomCards THEN s.card + 1 ELSE 1
  OBVIOUS
<1>11. PICK pc : pc = IF s.card + 1 \in RomCards THEN "scan" ELSE "rows"
  OBVIOUS
<1>12. PICK r : r = [s EXCEPT !.dirs = dirs, !.card = next, !.pc = pc]
  OBVIOUS
<1>13. seek' = [seek EXCEPT ![t] = r]
  <2>1. seek' = [seek EXCEPT ![t].dirs = dirs, ![t].card = next, ![t].pc = pc]
    BY <1>1, <1>5, <1>7, <1>10, <1>11 DEF PlatformsInv, SeeksOK, Seek
  <2> QED BY <1>1, <1>12, <2>1 DEF PlatformsInv, SeeksOK
<1>14. r \in Seek
  <2>1. next \in RomCards
    BY <1>10, FirstCard
  <2>2. pc \in SeekPcs
    BY <1>11 DEF SeekPcs
  <2> QED BY <1>9, <1>12, <2>1, <2>2 DEF Seek
<1>15. /\ r.pc = pc /\ r.tag = s.tag /\ r.found = s.found /\ r.raced = s.raced
       /\ r.card = next /\ r.dirs = dirs /\ r.row = s.row /\ r.stayed = s.stayed
       /\ r.steady = s.steady
  BY <1>12 DEF Seek
<1>16. ASSUME NEW d \in s.stayed, ~d[2].shortcut, pc = "scan" => d[1] < next
       PROVE  Noted(dirs, d[2])
  <2>1. d \in romDirs /\ d[1] \in RomCards
    BY <1>2, <1>8
  <2>2. PICK n \in Nat : RomCards = 1 .. n
    BY CatalogAssumption
  <2>3. d[1] <= s.card
    BY <1>8, <1>10, <1>11, <1>16, <2>1, <2>2
  <2>4. CASE d[1] = s.card
    <3>1. d[2] \in S
      BY <1>16, <2>1, <2>4 DEF Here
    <3> QED BY <1>9, <3>1
  <2>5. CASE d[1] < s.card
    <3>1. Noted(s.dirs, d[2])
      BY <1>2, <1>3, <1>16, <2>5 DEF Discovered
    <3> QED BY <1>9, <3>1
  <2> QED BY <1>8, <2>1, <2>2, <2>3, <2>4, <2>5
<1>17. pc \in {"scan", "rows"}
  BY <1>11
<1>18. Discovered(r)
  BY <1>2, <1>3, <1>15, <1>16, <1>17 DEF Discovered, SeekPcs
<1>19. SeeksOK'
  BY <1>2, <1>3, <1>13, <1>14, <1>15, <1>18, OneSeeks DEF PlatformsInv
<1> QED BY <1>4, <1>19 DEF PlatformsInv

LEMMA BuildRowsOK ==
    ASSUME PlatformsInv, NEW t \in Lookers, BuildRows(t)
    PROVE  PlatformsInv'
<1>1. PICK s \in Seek : s = seek[t]
  BY DEF PlatformsInv, SeeksOK
<1>2. Discovered(s) /\ s.stayed \subseteq romDirs /\ s.steady \subseteq cores
  BY <1>1 DEF PlatformsInv, SeeksOK
<1>3. s.pc = "rows" /\ romDirs' = romDirs /\ cores' = cores
  BY <1>1 DEF BuildRows
<1>4. CardsOK'
  BY DEF PlatformsInv, CardsOK, BuildRows
<1>5. PICK views \in ViewLists, dirs \in Dirs : views = s.views /\ dirs = s.dirs
  BY DEF Seek
<1>6. PICK own : own = {f \in ToSet(dirs) : IsCustom(views, f)}
  OBVIOUS
<1>7. PICK custom \in SetToSeqs({CustomRow(f) : f \in own}) :
         seek' = [seek EXCEPT ![t].pc = "answer",
                    ![t].rows = [i \in 1 .. Len(views) |-> ViewRow(views[i], dirs)] \o custom]
  BY <1>1, <1>5, <1>6 DEF BuildRows
<1>8. PICK rows : rows = [i \in 1 .. Len(views) |-> ViewRow(views[i], dirs)] \o custom
  OBVIOUS
<1>9. rows \in RowSeqs(views, dirs) /\ \A f \in own : CustomRow(f) \in ToSet(rows)
  <2>1. cores \in SUBSET DOMAIN CoreFiles
    BY DEF PlatformsInv, CardsOK
  <2>2. own = {f \in ToSet(dirs) : /\ f.code \in {CoreFiles[c] : c \in cores}
                                   /\ ~\E i \in 1 .. Len(views) : OfView(views[i], f)}
    BY <1>6 DEF IsCustom, CoreCodes
  <2> QED BY <1>8, <2>1, <2>2, BuiltRows
<1>10. PICK r : r = [s EXCEPT !.pc = "answer", !.rows = rows]
  OBVIOUS
<1>11. seek' = [seek EXCEPT ![t] = r]
  BY <1>1, <1>7, <1>8, <1>10 DEF PlatformsInv, SeeksOK
<1>12. r \in Seek
  BY <1>9, <1>10, RowSeqsTyped DEF Seek, SeekPcs
<1>13. /\ r.pc = "answer" /\ r.tag = s.tag /\ r.found = s.found /\ r.raced = s.raced
       /\ r.views = views /\ r.dirs = dirs /\ r.rows = rows /\ r.row = s.row /\ r.stayed = s.stayed
       /\ r.steady = s.steady
  BY <1>5, <1>10 DEF Seek
<1>16. OwnFolders(r) \subseteq own
  <2>1. views \in Seq(DOMAIN Views)
    BY DEF ViewLists
  <2>2. \A i \in 1 .. Len(views) : views[i] \in ToSet(views)
    BY <2>1, LenProperties DEF ToSet
  <2> QED BY <1>2, <1>6, <1>13, <2>2 DEF OwnFolders, IsCustom, CoreCodes
<1>14. Discovered(r)
  BY <1>2, <1>3, <1>5, <1>9, <1>13, <1>16 DEF Discovered, SeekPcs, OwnRows
<1>15. SeeksOK'
  BY <1>2, <1>3, <1>11, <1>12, <1>13, <1>14, OneSeeks DEF PlatformsInv
<1> QED BY <1>4, <1>15 DEF PlatformsInv

LEMMA ResolveTagOK ==
    ASSUME PlatformsInv, NEW t \in Lookers, ResolveTag(t)
    PROVE  PlatformsInv'
<1>1. PICK s \in Seek : s = seek[t]
  BY DEF PlatformsInv, SeeksOK
<1>2. Discovered(s) /\ s.stayed \subseteq romDirs /\ s.steady \subseteq cores
  BY <1>1 DEF PlatformsInv, SeeksOK
<1>3. s.pc = "answer" /\ s.tag # NoTag /\ romDirs' = romDirs /\ cores' = cores
  BY <1>1 DEF ResolveTag
<1>4. CardsOK'
  BY DEF PlatformsInv, CardsOK, ResolveTag
<1>5. PICK text \in IF s.found = 0 THEN {s.tag} ELSE ReadsAs(s.found, Identities[s.found].tag) :
         LET k == Selected(s.rows, s.tag, text) IN
         seek' = [seek EXCEPT ![t].pc = "done", ![t].raced = @ \/ Torn,
                              ![t].row = IF k = 0 THEN NoPlatform ELSE s.rows[k]]
  <2>1. \E text \in IF seek[t].found = 0 THEN {seek[t].tag}
                   ELSE ReadsAs(seek[t].found, Identities[seek[t].found].tag) :
           LET k == Selected(seek[t].rows, seek[t].tag, text) IN
           seek' = [seek EXCEPT ![t].pc = "done", ![t].raced = @ \/ Torn,
                                ![t].row = IF k = 0 THEN NoPlatform ELSE seek[t].rows[k]]
    BY DEF ResolveTag, Selected
  <2> QED BY <1>1, <2>1
<1>6. s.rows \in RowSeqs(s.views, s.dirs) /\ s.rows \in Seq(RowSet)
      /\ s.views \in ViewLists /\ s.dirs \in Dirs /\ s.found \in {0} \cup IdentityRows
  BY <1>2, <1>3 DEF Discovered, Seek
<1>7. PICK k : k = Selected(s.rows, s.tag, text)
  OBVIOUS
<1>8. \/ k = 0 /\ \A j \in 1 .. Len(s.rows) : ~Means(s.rows[j], s.tag, text)
      \/ k \in 1 .. Len(s.rows) /\ Means(s.rows[k], s.tag, text)
  BY <1>6, <1>7, SelectIs
<1>9. PICK row : row = IF k = 0 THEN NoPlatform ELSE s.rows[k]
  OBVIOUS
<1>10. row \in ToSet(s.rows) \cup {NoPlatform} /\ row \in RowSet \cup {NoPlatform}
  BY <1>6, <1>8, <1>9, RowsHave, ElementOfSeq
<1>11. PICK raced \in BOOLEAN : raced = (s.raced \/ Torn)
  OBVIOUS
<1>12. PICK r : r = [s EXCEPT !.pc = "done", !.raced = raced, !.row = row]
  OBVIOUS
<1>13. seek' = [seek EXCEPT ![t] = r]
  <2>1. seek' = [seek EXCEPT ![t].pc = "done", ![t].raced = raced, ![t].row = row]
    BY <1>1, <1>5, <1>7, <1>9, <1>11 DEF PlatformsInv, SeeksOK, Seek
  <2> QED BY <1>1, <1>12, <2>1 DEF PlatformsInv, SeeksOK
<1>14. r \in Seek
  BY <1>10, <1>12 DEF Seek, SeekPcs
<1>15. /\ r.pc = "done" /\ r.tag = s.tag /\ r.found = s.found /\ r.raced = raced
       /\ r.views = s.views /\ r.dirs = s.dirs /\ r.rows = s.rows /\ r.row = row
       /\ r.stayed = s.stayed /\ r.steady = s.steady
  BY <1>12 DEF Seek
<1>16. ASSUME ~raced PROVE ResolvedIn(r)
  <2>1. ~s.raced /\ ~Torn
    BY <1>11, <1>16
  <2>2. FoundFor(s.found, s.tag)
    BY <1>2, <1>3, <2>1 DEF Discovered
  <2>3. text = TextOf(s.found, s.tag)
    BY <1>5, <1>6, <2>1 DEF TextOf, Torn, ReadsAs
  <2>4. k \in Nat
    BY <1>6, <1>8, LenProperties
  <2> QED BY <1>6, <1>8, <1>9, <1>15, <2>2, <2>3, <2>4, FoundIsResolved
<1>17. Discovered(r)
  BY <1>10, <1>15, <1>16 DEF Discovered, SeekPcs
<1>18. SeeksOK'
  BY <1>2, <1>3, <1>13, <1>14, <1>15, <1>17, OneSeeks DEF PlatformsInv
<1> QED BY <1>4, <1>18 DEF PlatformsInv

LEMMA EndDiscoveryOK ==
    ASSUME PlatformsInv, NEW t \in Lookers, EndDiscovery(t)
    PROVE  PlatformsInv'
<1>1. CardsOK'
  BY DEF PlatformsInv, CardsOK, EndDiscovery
<1>2. seek' = [seek EXCEPT ![t] = NoDiscovery] /\ romDirs' = romDirs /\ cores' = cores
  BY DEF EndDiscovery
<1>3. SeeksOK'
  BY <1>2, NoDiscoveryOK, OneSeeks DEF PlatformsInv
<1> QED BY <1>1, <1>3 DEF PlatformsInv

LEMMA PlatformsStep == PlatformsInv /\ [PlatformsNext]_platformVars => PlatformsInv'
<1> SUFFICES ASSUME PlatformsInv, [PlatformsNext]_platformVars PROVE PlatformsInv'
  OBVIOUS
<1>1. CASE UNCHANGED platformVars
  BY <1>1 DEF platformVars, PlatformsInv, CardsOK, SeeksOK
<1>2. CASE PlatformsNext
  BY <1>2, ChangeFolderOK, ChangeCoreOK, RestartProgramOK, StartDiscoveryOK, FillRowOK,
     MarkFilledOK, FindTagOK, SeeViewsOK, ScanCardOK, BuildRowsOK, ResolveTagOK, EndDiscoveryOK
     DEF PlatformsNext
<1> QED BY <1>1, <1>2

LEMMA PlatformsInvariant == PlatformsSpec => []PlatformsInv
<1>1. PlatformsInit => PlatformsInv
  BY PlatformsInitOK
<1>2. PlatformsInv /\ [PlatformsNext]_platformVars => PlatformsInv'
  BY PlatformsStep
<1> QED BY <1>1, <1>2, PTL DEF PlatformsSpec

\* The types of a discovery, for any catalog, cards and workers.
THEOREM PlatformsTypes == PlatformsSpec => []PlatformsTypeOK
<1>1. PlatformsInv => PlatformsTypeOK
  <2> SUFFICES ASSUME PlatformsInv PROVE PlatformsTypeOK
    OBVIOUS
  <2>1. ASSUME NEW t \in Lookers
        PROVE  /\ seek[t].pc \in SeekPcs
               /\ seek[t].at \in IdentityRows /\ seek[t].found \in {0} \cup IdentityRows
               /\ ToSet(seek[t].views) \subseteq DOMAIN Views
               /\ ToSet(seek[t].dirs) \subseteq RomFolders /\ Len(seek[t].dirs) <= MaxDirs
               /\ seek[t].row \in ToSet(seek[t].rows) \cup {NoPlatform}
    <3>1. PICK s \in Seek : s = seek[t]
      BY DEF PlatformsInv, SeeksOK
    <3>2. /\ s.pc \in SeekPcs /\ s.at \in IdentityRows /\ s.found \in {0} \cup IdentityRows
          /\ s.views \in ViewLists /\ s.dirs \in Dirs
      BY DEF Seek
    <3>3. ToSet(s.views) \subseteq DOMAIN Views
      BY <3>2, LenProperties, ElementOfSeq DEF ViewLists, ToSet
    <3>4. ToSet(s.dirs) \subseteq RomFolders /\ Len(s.dirs) <= MaxDirs
      BY <3>2, LenProperties, ElementOfSeq DEF Dirs, ToSet
    <3>5. s.row \in ToSet(s.rows) \cup {NoPlatform}
      BY <3>1 DEF PlatformsInv, SeeksOK, Discovered
    <3> QED BY <3>1, <3>2, <3>3, <3>4, <3>5
  <2> QED BY <2>1 DEF PlatformsInv, CardsOK, PlatformsTypeOK, SeekPcs
<1> QED BY <1>1, PlatformsInvariant, PTL

\* A folder that stayed while platforms were discovered, and is named for one of
\* them or for an emulator that stayed installed, is browsed by one of them,
\* unless another took its place or there was no room.
THEOREM FoldersAreBrowsedAlways == PlatformsSpec => []FoldersAreBrowsed
<1>1. PlatformsInv => FoldersAreBrowsed
  <2> SUFFICES ASSUME PlatformsInv, NEW t \in Lookers, seek[t].pc = "answer",
                      NEW f \in {d[2] : d \in seek[t].stayed \cap Here}
               PROVE  BrowsedIn(seek[t], f)
    BY DEF FoldersAreBrowsed, BrowsedIn
  <2>1. PICK s \in Seek : s = seek[t]
    BY DEF PlatformsInv, SeeksOK
  <2>2. Discovered(s) /\ s.pc = "answer"
    BY <2>1 DEF PlatformsInv, SeeksOK
  <2>3. /\ s.rows \in RowSeqs(s.views, s.dirs) /\ OwnRows(s)
        /\ s.views \in ViewLists /\ s.dirs \in Dirs
    BY <2>2 DEF Discovered, Seek
  <2>4. PICK d \in s.stayed : d \in Here /\ f = d[2]
    BY <2>1
  <2>5. f \in RomFolders /\ Noted(s.dirs, f)
    BY <2>2, <2>4 DEF Discovered, Here, Seek
  <2> QED BY <2>1, <2>3, <2>5, NotedIsBrowsed
<1> QED BY <1>1, PlatformsInvariant, PTL

\* A request is given the one platform its tag was listed with, or whose alias
\* it is, and no other platform browses its folder.
THEOREM TagsResolveAlways == PlatformsSpec => []TagsResolve
<1>1. PlatformsInv => TagsResolve
  BY DEF PlatformsInv, SeeksOK, Discovered, TagsResolve, ResolvedIn
<1> QED BY <1>1, PlatformsInvariant, PTL

-----------------------------------------------------------------------------
(* Save states: entries and what is in them *)

StateEntries == [label : StateCards \X StateDirs, game : Games, slot : 0 .. 99, auto : BOOLEAN,
            paths : SUBSET StateFiles, picture : StateFiles \cup {NoPicture}, modified : Nat]
Lists == [pc : {"idle", "stems", "read", "done", "failed"}, stems : SUBSET Games,
          card : StateCards, folder : StateDirs, folders : SUBSET (StateDirs \ {Flat}),
          due : SUBSET StateFiles, seen : SUBSET StateFiles, entries : SUBSET StateEntries,
          stayed : SUBSET StateFiles, kept : SUBSET (StateCards \X Games)]

\* f belongs to the game, the slot and the emulator of e.
Of(e, f) == e.label = LabelOf(f) /\ e.game = f[3] /\ e.slot = SlotOf(f[4])

EntryFits(e) ==
    /\ e \in StateEntries
    /\ IsFiniteSet(e.paths) /\ Cardinality(e.paths) \in 1 .. MaxPaths
    /\ e.picture \in e.paths \cup {NoPicture} /\ e.modified > 0
    /\ \A f \in e.paths : Of(e, f)

\* No two entries are of one game, slot and emulator.
Grouped(E) ==
    /\ IsFiniteSet(E) /\ \A e \in E : EntryFits(e)
    /\ \A d, e \in E : d.label = e.label /\ d.game = e.game /\ d.slot = e.slot => d = e

\* The listing has been past f.
Passed(l, f) ==
    \/ l.pc = "done" \/ f[1] < l.card
    \/ f[1] = l.card /\ f[2] \notin l.folders \cup {l.folder}
    \/ f[1] = l.card /\ f[2] = l.folder /\ f \notin l.due

Entered(E, S, f) == \E e \in E : f \in e.paths /\ e.modified >= S[f]

\* What a listing has so far: the games of the cards it has asked, then every
\* state that stayed and that it has been past.
Gathers(l, S) ==
    /\ l.folder \notin l.folders /\ Grouped(l.entries)
    /\ l.due \cap l.seen = {}
    /\ l.pc = "stems" => /\ l.entries = {}
                         /\ \A r \in l.kept : r[1] < l.card => r[2] \in l.stems
    /\ l.pc \in {"read", "done"} =>
          /\ \A r \in l.kept : r[2] \in l.stems
          /\ \A f \in l.stayed :
                Passed(l, f) /\ Parses(f[4]) /\ f[3] \in l.stems => Entered(l.entries, S, f)

PageFits(p) ==
    /\ p.entries \subseteq StateEntries /\ \A e \in p.entries : EntryFits(e)
    /\ IsFiniteSet(p.entries) /\ Cardinality(p.entries) <= MaxEntries

DoomFits(d) ==
    /\ d.left \subseteq d.entry.paths
    /\ d.left # {} => EntryFits(d.entry)

StatesInv ==
    /\ moves \in 0 .. MaxMoves /\ saves \in [StateFiles -> 0 .. moves + 1]
    /\ roms \subseteq StateCards \X Games
    /\ list \in Lists /\ Gathers(list, saves)
    /\ list.due \cup list.seen \cup list.stayed \subseteq There /\ list.kept \subseteq roms
    /\ PageFits(page) /\ DoomFits(doomed)

\* The most of some numbers that have a bound.
LEMMA MostOf ==
    ASSUME NEW b \in Nat, NEW S, S \subseteq 0 .. b, S # {}
    PROVE  Max(S) \in S /\ \A n \in S : n <= Max(S)
<1> DEFINE under == {n \in Nat : b - n \in S}
<1>1. \E n : n \in under
  <2>1. PICK n \in S : TRUE
    OBVIOUS
  <2>2. n \in 0 .. b
    OBVIOUS
  <2>3. b - n \in Nat /\ b - (b - n) = n
    BY <2>2
  <2> QED BY <2>1, <2>3
<1>2. PICK n \in under : \A m \in under : n <= m
  <2> HIDE DEF under
  <2>1. under \subseteq Nat
    BY DEF under
  <2> QED BY <1>1, <2>1, LeastOf
<1>3. b - n \in S /\ n \in Nat
  BY <1>2
<1>4. ASSUME NEW m \in S PROVE b - n >= m
  <2>1. m \in 0 .. b /\ b - n \in 0 .. b
    BY <1>3
  <2>2. b - m \in Nat /\ b - (b - m) = m
    BY <2>1
  <2>3. b - m \in under
    BY <2>2
  <2>4. n <= b - m
    BY <1>2, <2>3
  <2> QED BY <2>1, <2>4, <1>3
<1>5. \E x \in S : \A y \in S : x >= y
  BY <1>3, <1>4
<1>6. Max(S) \in S /\ \A y \in S : Max(S) >= y
  BY <1>5 DEF Max
<1>7. S \subseteq Int
  OBVIOUS
<1> QED BY <1>6, <1>7

LEMMA SaveFacts ==
    ASSUME NEW f \in StateFiles
    PROVE  /\ f[1] \in StateCards /\ f[2] \in StateDirs /\ f[3] \in Games
           /\ LabelOf(f) \in StateCards \X StateDirs
           /\ Parses(f[4]) => SlotOf(f[4]) \in 0 .. 99
<1>1. f \in StateCards \X StateDirs \X Games \X StateTails /\ Flat \in StateDirs
  BY StatesAssumption
<1>2. /\ f[1] \in StateCards /\ f[2] \in StateDirs /\ f[3] \in Games /\ f[4] \in StateTails
  BY <1>1
<1>3. LabelOf(f) \in StateCards \X StateDirs
  BY <1>1, <1>2 DEF LabelOf
<1>4. ASSUME NEW tail \in StateTails, Parses(tail) PROVE SlotOf(tail) \in 0 .. 99
  <2>1. /\ tail.form \in {"auto", "plain", "dotted"} /\ tail.number \in Nat \cup {-1}
    BY DEF StateTails, NoNumber
  <2>2. CASE tail.form = "auto"
    BY <2>2 DEF SlotOf
  <2>3. CASE tail.form = "plain"
    <3>1. tail.number \in -1 .. 99
      BY <2>3, <1>4 DEF Parses, NoNumber
    <3> QED BY <2>3, <3>1 DEF SlotOf, NoNumber
  <2>4. CASE tail.form = "dotted"
    <3>1. tail.number \in 0 .. 99
      BY <2>4, <1>4 DEF Parses
    <3> QED BY <2>4, <3>1 DEF SlotOf, NoNumber
  <2> QED BY <2>1, <2>2, <2>3, <2>4
<1> QED BY <1>2, <1>3, <1>4

LEMMA CardsCount ==
    /\ 1 \in StateCards /\ StateCards \subseteq Nat \ {0}
    /\ \A c \in StateCards : c + 1 \notin StateCards => \A d \in StateCards : d <= c
    /\ Flat \in StateDirs /\ MaxPaths \in Nat \ {0} /\ MaxEntries \in Nat \ {0} /\ MaxMoves \in Nat
<1> DEFINE n == Cardinality(StateCards)
<1>1. StateCards = 1 .. n /\ StateCards # {}
  BY StatesAssumption
<1>2. n \in Nat /\ n >= 1
  <2>1. n \in Nat /\ n # 0
    BY StatesAssumption, FS_CardinalityType, FS_EmptySet
  <2> QED BY <2>1
<1> HIDE DEF n
<1>3. /\ 1 \in 1 .. n /\ 1 .. n \subseteq Nat \ {0}
      /\ \A c \in 1 .. n : c + 1 \notin 1 .. n => \A d \in 1 .. n : d <= c
  BY <1>2
<1> QED BY <1>1, <1>3, StatesAssumption

-----------------------------------------------------------------------------
(* Save states: one file more *)

LEMMA BlankEntry ==
    ASSUME NEW f \in StateFiles, Parses(f[4])
    PROVE  LET e == [NoEntry EXCEPT !.label = LabelOf(f), !.game = f[3], !.slot = SlotOf(f[4])]
           IN  e \in StateEntries /\ e.paths = {} /\ e.picture = NoPicture /\ e.modified = 0 /\ Of(e, f)
<1> DEFINE Begun == [label : StateCards \X StateDirs, game : Games \cup {""}, slot : 0 .. 99,
                     auto : BOOLEAN, paths : SUBSET StateFiles,
                     picture : StateFiles \cup {NoPicture}, modified : Nat]
<1>1. /\ f[3] \in Games /\ LabelOf(f) \in StateCards \X StateDirs /\ SlotOf(f[4]) \in 0 .. 99
  BY SaveFacts
<1>2. NoEntry \in Begun /\ NoEntry.paths = {} /\ NoEntry.picture = NoPicture /\ NoEntry.modified = 0
  BY CardsCount DEF NoEntry
<1>3. \A b \in Begun, l \in StateCards \X StateDirs, g \in Games, n \in 0 .. 99 :
        [b EXCEPT !.label = l, !.game = g, !.slot = n] \in StateEntries
  BY DEF StateEntries
<1> DEFINE e == [NoEntry EXCEPT !.label = LabelOf(f), !.game = f[3], !.slot = SlotOf(f[4])]
<1>4. e \in StateEntries
  <2> HIDE DEF Begun
  <2> QED BY <1>1, <1>2, <1>3, Zenon
<1>5. /\ e.label = LabelOf(f) /\ e.game = f[3] /\ e.slot = SlotOf(f[4])
      /\ e.paths = NoEntry.paths /\ e.picture = NoEntry.picture /\ e.modified = NoEntry.modified
  BY <1>2
<1> QED BY <1>2, <1>4, <1>5 DEF Of

LEMMA NoteFits ==
    ASSUME NEW f \in StateFiles, NEW e \in StateEntries, saves[f] \in Nat \ {0}, Of(e, f),
           IsFiniteSet(e.paths), \A g \in e.paths : Of(e, g),
           e.picture \in e.paths \cup {NoPicture},
           f \in e.paths \/ Cardinality(e.paths) < MaxPaths,
           Cardinality(e.paths) <= MaxPaths
    PROVE  /\ EntryFits(NoteFile(e, f)) /\ NoteFile(e, f).paths = e.paths \cup {f}
           /\ NoteFile(e, f).label = e.label /\ NoteFile(e, f).game = e.game
           /\ NoteFile(e, f).slot = e.slot
           /\ NoteFile(e, f).modified >= e.modified /\ NoteFile(e, f).modified >= saves[f]
<1> DEFINE n == NoteFile(e, f)
<1> DEFINE k == Cardinality(e.paths)
<1>1. /\ n.paths = e.paths \cup {f} /\ n.label = e.label /\ n.game = e.game /\ n.slot = e.slot
      /\ n.modified = IF saves[f] > e.modified THEN saves[f] ELSE e.modified
      /\ n.picture = IF f[4].png THEN f ELSE e.picture
      /\ n.auto = (e.auto \/ f[4].form = "auto")
      /\ DOMAIN n = {"label", "game", "slot", "auto", "paths", "picture", "modified"}
      /\ n = [e EXCEPT !.paths = n.paths, !.auto = n.auto, !.picture = n.picture,
                       !.modified = n.modified]
  BY DEF NoteFile, StateEntries
<1>2. /\ e.modified \in Nat /\ e.paths \subseteq StateFiles /\ e.auto \in BOOLEAN
      /\ e.picture \in StateFiles \cup {NoPicture}
  BY DEF StateEntries
<1>3. n.modified \in Nat \ {0} /\ n.modified >= e.modified /\ n.modified >= saves[f]
  BY <1>1, <1>2
<1>4. n.paths \subseteq StateFiles /\ n.auto \in BOOLEAN /\ n.picture \in n.paths \cup {NoPicture}
  BY <1>1, <1>2
<1>5. n \in StateEntries
  <2> HIDE DEF n
  <2>1. n.picture \in StateFiles \cup {NoPicture}
    BY <1>4
  <2>2. \A p \in SUBSET StateFiles, a \in BOOLEAN, q \in StateFiles \cup {NoPicture}, m \in Nat :
           [e EXCEPT !.paths = p, !.auto = a, !.picture = q, !.modified = m] \in StateEntries
    BY DEF StateEntries
  <2>3. n.paths \in SUBSET StateFiles /\ n.modified \in Nat
    BY <1>3, <1>4
  <2>4. [e EXCEPT !.paths = n.paths, !.auto = n.auto, !.picture = n.picture,
                  !.modified = n.modified] \in StateEntries
    BY <1>4, <2>1, <2>2, <2>3, Zenon
  <2> QED BY <1>1, <2>4, Zenon
<1>6. IsFiniteSet(n.paths) /\ Cardinality(n.paths) \in 1 .. MaxPaths
  <2>1. /\ IsFiniteSet(e.paths \cup {f})
        /\ Cardinality(e.paths \cup {f}) = IF f \in e.paths THEN k ELSE k + 1
    BY FS_AddElement
  <2>2. k \in Nat /\ k <= MaxPaths /\ MaxPaths \in Nat
    BY FS_CardinalityType, CardsCount
  <2>3. f \in e.paths => k # 0
    BY FS_EmptySet
  <2>4. f \in e.paths \/ k < MaxPaths
    OBVIOUS
  <2> HIDE DEF k, n
  <2> QED BY <1>1, <2>1, <2>2, <2>3, <2>4
<1>7. \A g \in n.paths : Of(n, g)
  <2> HIDE DEF n
  <2> QED BY <1>1 DEF Of
<1> HIDE DEF n
<1>8. EntryFits(n)
  BY <1>3, <1>4, <1>5, <1>6, <1>7 DEF EntryFits
<1> QED BY <1>1, <1>3, <1>8 DEF n

\* The entries for the game, the slot and the emulator of f.
GroupOf(E, f) == {d \in E : d.label = LabelOf(f) /\ d.game = f[3] /\ d.slot = SlotOf(f[4])}

\* What f is noted in: the entry there is, or one that is begun.
Takes(e, E, f) ==
    /\ e \in StateEntries /\ Of(e, f) /\ IsFiniteSet(e.paths) /\ \A g \in e.paths : Of(e, g)
    /\ e.picture \in e.paths \cup {NoPicture} /\ Cardinality(e.paths) <= MaxPaths
    /\ \A d \in GroupOf(E, f) : d = e

LEMMA TakesOld ==
    ASSUME NEW E, Grouped(E), NEW f \in StateFiles, NEW e \in GroupOf(E, f)
    PROVE  Takes(e, E, f)
<1>1. e \in E /\ EntryFits(e) /\ Of(e, f)
  BY DEF Grouped, Of, GroupOf
<1>2. \A d \in GroupOf(E, f) : d = e
  BY <1>1 DEF Grouped, GroupOf
<1>3. Cardinality(e.paths) <= MaxPaths
  BY <1>1, CardsCount DEF EntryFits
<1> QED BY <1>1, <1>2, <1>3 DEF EntryFits, Takes

LEMMA TakesNew ==
    ASSUME NEW E, NEW f \in StateFiles, Parses(f[4]), GroupOf(E, f) = {}
    PROVE  Takes([NoEntry EXCEPT !.label = LabelOf(f), !.game = f[3], !.slot = SlotOf(f[4])], E, f)
<1> DEFINE e == [NoEntry EXCEPT !.label = LabelOf(f), !.game = f[3], !.slot = SlotOf(f[4])]
<1>1. e \in StateEntries /\ e.paths = {} /\ e.picture = NoPicture /\ Of(e, f)
  BY BlankEntry, Zenon
<1> HIDE DEF e
<1>2. IsFiniteSet(e.paths) /\ Cardinality(e.paths) = 0
  BY <1>1, FS_EmptySet
<1>3. Takes(e, E, f)
  BY <1>1, <1>2, CardsCount DEF Takes
<1> QED BY <1>3 DEF e

LEMMA PutFits ==
    ASSUME NEW E \in SUBSET StateEntries, Grouped(E), NEW f \in StateFiles,
           saves[f] \in Nat \ {0}, NEW e, Takes(e, E, f),
           ~(f \notin e.paths /\ Cardinality(e.paths) = MaxPaths),
           NEW S \in [StateFiles -> Nat], S[f] = saves[f]
    PROVE  LET F == (E \ GroupOf(E, f)) \cup {NoteFile(e, f)}
           IN  /\ F \in SUBSET StateEntries /\ Grouped(F) /\ Entered(F, S, f)
               /\ \A g \in StateFiles : Entered(E, S, g) => Entered(F, S, g)
<1> DEFINE n == NoteFile(e, f)
<1> DEFINE old == GroupOf(E, f)
<1>1. /\ e \in StateEntries /\ Of(e, f) /\ IsFiniteSet(e.paths) /\ \A g \in e.paths : Of(e, g)
      /\ e.picture \in e.paths \cup {NoPicture} /\ Cardinality(e.paths) <= MaxPaths
      /\ \A d \in old : d = e
  BY DEF Takes
<1>2. f \in e.paths \/ Cardinality(e.paths) < MaxPaths
  <2>1. Cardinality(e.paths) \in Nat
    BY <1>1, FS_CardinalityType
  <2> QED BY <1>1, <2>1, CardsCount
<1>3. /\ EntryFits(n) /\ n.paths = e.paths \cup {f}
      /\ n.label = e.label /\ n.game = e.game /\ n.slot = e.slot
      /\ n.modified >= e.modified /\ n.modified >= saves[f]
  BY <1>1, <1>2, NoteFits
<1> HIDE DEF n
<1>4. n \in StateEntries
  BY <1>3 DEF EntryFits
<1>5. Grouped((E \ old) \cup {n})
  <2>1. IsFiniteSet(E \ old)
    BY FS_Difference DEF Grouped
  <2>2. IsFiniteSet((E \ old) \cup {n})
    BY <2>1, FS_AddElement
  <2>3. ASSUME NEW d \in E \ old
        PROVE  ~(d.label = n.label /\ d.game = n.game /\ d.slot = n.slot)
    BY <1>1, <1>3 DEF Of, GroupOf
  <2> QED BY <1>3, <2>2, <2>3 DEF Grouped
<1>6. Entered((E \ old) \cup {n}, S, f)
  BY <1>3 DEF Entered
<1>7. ASSUME NEW g \in StateFiles, Entered(E, S, g) PROVE Entered((E \ old) \cup {n}, S, g)
  <2>1. PICK d \in E : g \in d.paths /\ d.modified >= S[g]
    BY <1>7 DEF Entered
  <2>2. CASE d \in old
    <3>1. d = e
      BY <1>1, <2>2
    <3>2. n.modified \in Nat /\ e.modified \in Nat /\ S[g] \in Nat
      BY <1>1, <1>4 DEF StateEntries
    <3> QED BY <1>3, <2>1, <3>1, <3>2 DEF Entered
  <2>3. CASE d \notin old
    BY <2>1, <2>3 DEF Entered
  <2> QED BY <2>2, <2>3
<1> QED BY <1>4, <1>5, <1>6, <1>7 DEF n

-----------------------------------------------------------------------------
(* Save states: the steps *)

LEMMA GroupedNone == Grouped({})
  BY FS_EmptySet DEF Grouped

LEMMA ListFields ==
    ASSUME NEW l \in Lists
    PROVE  /\ l.pc \in {"idle", "stems", "read", "done", "failed"} /\ l.stems \subseteq Games
           /\ l.card \in StateCards /\ l.folder \in StateDirs /\ l.folders \subseteq StateDirs \ {Flat}
           /\ l.due \subseteq StateFiles /\ l.seen \subseteq StateFiles
           /\ l.entries \subseteq StateEntries /\ l.stayed \subseteq StateFiles
           /\ l.kept \subseteq StateCards \X Games
  BY DEF Lists

LEMMA NoListFits ==
    /\ NoList \in Lists /\ NoList.due = {} /\ NoList.seen = {} /\ NoList.stayed = {}
    /\ NoList.kept = {} /\ \A S : Gathers(NoList, S)
<1>1. NoList \in Lists
  BY CardsCount DEF Lists, NoList
<1>2. /\ NoList.due = {} /\ NoList.seen = {} /\ NoList.stayed = {} /\ NoList.kept = {}
      /\ NoList.entries = {} /\ NoList.folders = {} /\ NoList.pc = "idle"
  BY DEF NoList
<1>3. \A S : Gathers(NoList, S)
  BY <1>2, GroupedNone DEF Gathers
<1> QED BY <1>1, <1>2, <1>3

LEMMA InitStates == StatesInit => StatesInv
<1> SUFFICES ASSUME StatesInit PROVE StatesInv
  OBVIOUS
<1>1. moves \in 0 .. MaxMoves /\ saves \in [StateFiles -> 0 .. moves + 1]
  BY CardsCount DEF StatesInit
<1>2. roms \subseteq StateCards \X Games
  BY DEF StatesInit
<1>3. list = NoList
  BY DEF StatesInit
<1>4. PageFits(page)
  BY FS_EmptySet, CardsCount DEF StatesInit, PageFits
<1>5. DoomFits(doomed)
  BY DEF StatesInit, DoomFits, NoneDoomed
<1> QED BY <1>1, <1>2, <1>3, <1>4, <1>5, NoListFits DEF StatesInv

\* A file that is written or removed is no longer one that stayed.
LEMMA DisturbKeeps ==
    ASSUME StatesInv, NEW f \in StateFiles, NEW v \in Nat, Disturb(f),
           saves' = [saves EXCEPT ![f] = v]
    PROVE  /\ list' \in Lists /\ Gathers(list', saves') /\ list'.kept = list.kept
           /\ list'.due \cup list'.seen \cup list'.stayed \subseteq There'
<1>1. list \in Lists /\ saves \in [StateFiles -> 0 .. moves + 1]
  BY DEF StatesInv
<1>2. /\ list' \in Lists /\ list'.due = list.due \ {f} /\ list'.seen = list.seen \ {f}
      /\ list'.stayed = list.stayed \ {f} /\ list'.kept = list.kept /\ list'.pc = list.pc
      /\ list'.stems = list.stems /\ list'.card = list.card /\ list'.folder = list.folder
      /\ list'.folders = list.folders /\ list'.entries = list.entries
  BY <1>1 DEF Disturb, Lists
<1>3. \A g \in StateFiles : g # f => saves'[g] = saves[g]
  BY <1>1
<1>4. list'.due \cup list'.seen \cup list'.stayed \subseteq There'
  BY <1>1, <1>2, <1>3, ListFields DEF StatesInv, There
<1>5. \A g \in list'.stayed :
         /\ g # f /\ g \in StateFiles
         /\ Passed(list', g) => Passed(list, g)
         /\ Entered(list.entries, saves, g) => Entered(list'.entries, saves', g)
  BY <1>1, <1>2, <1>3, ListFields DEF Passed, Entered
<1>6. Gathers(list', saves')
  <2>1. Gathers(list, saves)
    BY DEF StatesInv
  <2>2. /\ list'.folder \notin list'.folders /\ Grouped(list'.entries)
        /\ list'.due \cap list'.seen = {}
        /\ list'.pc = "stems" => /\ list'.entries = {}
                                 /\ \A r \in list'.kept : r[1] < list'.card => r[2] \in list'.stems
        /\ list'.pc \in {"read", "done"} => \A r \in list'.kept : r[2] \in list'.stems
    BY <1>2, <2>1 DEF Gathers
  <2>3. ASSUME list'.pc \in {"read", "done"}, NEW g \in list'.stayed, Passed(list', g),
               Parses(g[4]), g[3] \in list'.stems
        PROVE  Entered(list'.entries, saves', g)
    <3>1. /\ list.pc \in {"read", "done"} /\ g \in list.stayed /\ g[3] \in list.stems
          /\ Passed(list, g)
      BY <1>2, <1>5, <2>3
    <3>2. Entered(list.entries, saves, g)
      BY <2>1, <2>3, <3>1 DEF Gathers
    <3> QED BY <1>5, <2>3, <3>2
  <2> QED BY <2>2, <2>3 DEF Gathers
<1> QED BY <1>2, <1>4, <1>6

LEMMA SaveStateSteps ==
    ASSUME StatesInv, NEW f \in StateFiles, SaveState(f)
    PROVE  StatesInv' /\ saves'[f] > 0
<1> DEFINE S == {saves[g] : g \in StateFiles}
<1>1. /\ saves \in [StateFiles -> 0 .. moves + 1] /\ moves \in Nat /\ moves < MaxMoves
      /\ moves' = moves + 1 /\ saves' = [saves EXCEPT ![f] = 1 + Max(S)] /\ Disturb(f)
      /\ UNCHANGED <<roms, page, doomed>>
  BY CardsCount DEF StatesInv, SaveState, Move
<1>2. Max(S) \in 0 .. moves + 1
  <2>1. S \subseteq 0 .. moves + 1 /\ S # {}
    BY <1>1
  <2>2. moves + 1 \in Nat
    BY <1>1
  <2> HIDE DEF S
  <2> QED BY <2>1, <2>2, MostOf
<1> HIDE DEF S
<1>3. 1 + Max(S) \in 0 .. moves' + 1 /\ 1 + Max(S) > 0 /\ moves' \in 0 .. MaxMoves
  BY <1>1, <1>2, CardsCount
<1>4. saves' \in [StateFiles -> 0 .. moves' + 1] /\ saves'[f] > 0
  <2>1. 0 .. moves + 1 \subseteq 0 .. moves' + 1
    BY <1>1
  <2> QED BY <1>1, <1>3, <2>1
<1>5. /\ list' \in Lists /\ Gathers(list', saves') /\ list'.kept = list.kept
      /\ list'.due \cup list'.seen \cup list'.stayed \subseteq There'
  <2>1. 1 + Max(S) \in Nat
    BY <1>1, <1>3
  <2> QED BY <1>1, <2>1, DisturbKeeps, Zenon
<1> QED BY <1>1, <1>3, <1>4, <1>5 DEF StatesInv

LEMMA DeletePathSteps ==
    ASSUME StatesInv, NEW f \in StateFiles, DeletePath(f)
    PROVE  StatesInv'
<1>1. /\ saves \in [StateFiles -> 0 .. moves + 1] /\ moves \in Nat
      /\ UNCHANGED <<roms, page, moves>>
  BY DEF StatesInv, DeletePath
<1>2. DoomFits(doomed')
  <2>1. CASE doomed' = NoneDoomed
    BY <2>1 DEF DoomFits, NoneDoomed
  <2>2. CASE doomed' = [doomed EXCEPT !.left = @ \ {f}]
    BY <2>2 DEF DoomFits, StatesInv
  <2> QED BY <2>1, <2>2 DEF DeletePath
<1>3. /\ saves' \in [StateFiles -> 0 .. moves + 1]
      /\ list' \in Lists /\ Gathers(list', saves') /\ list'.kept = list.kept
      /\ list'.due \cup list'.seen \cup list'.stayed \subseteq There'
  <2>1. CASE saves' = [saves EXCEPT ![f] = 0] /\ Disturb(f)
    <3>1. 0 \in 0 .. moves + 1 /\ 0 \in Nat
      BY <1>1
    <3>2. saves' \in [StateFiles -> 0 .. moves + 1]
      BY <1>1, <2>1, <3>1
    <3> QED BY <2>1, <3>1, <3>2, DisturbKeeps
  <2>2. CASE UNCHANGED <<saves, list>>
    BY <2>2 DEF StatesInv, There
  <2> QED BY <2>1, <2>2 DEF DeletePath
<1> QED BY <1>1, <1>2, <1>3 DEF StatesInv

LEMMA ChangeRomSteps ==
    ASSUME StatesInv, NEW r \in StateCards \X Games, ChangeRom(r)
    PROVE  StatesInv'
<1>1. /\ moves' = moves + 1 /\ moves < MaxMoves /\ UNCHANGED <<saves, page, doomed>>
      /\ list' = [list EXCEPT !.kept = @ \ {r}] /\ list \in Lists
      /\ roms' = (IF r \in roms THEN roms \ {r} ELSE roms \cup {r})
      /\ saves \in [StateFiles -> 0 .. moves + 1] /\ moves \in 0 .. MaxMoves
  BY DEF StatesInv, ChangeRom, Move
<1>2. /\ list' \in Lists /\ list'.due = list.due /\ list'.seen = list.seen
      /\ list'.stayed = list.stayed /\ list'.kept = list.kept \ {r} /\ list'.pc = list.pc
      /\ list'.stems = list.stems /\ list'.card = list.card /\ list'.folder = list.folder
      /\ list'.folders = list.folders /\ list'.entries = list.entries
  BY <1>1 DEF Lists
<1>3. moves' \in 0 .. MaxMoves /\ saves' \in [StateFiles -> 0 .. moves' + 1]
  <2>1. moves' \in 0 .. MaxMoves /\ 0 .. moves + 1 \subseteq 0 .. moves' + 1
    BY <1>1, CardsCount
  <2> QED BY <1>1, <2>1
<1>4. roms' \subseteq StateCards \X Games /\ list'.kept \subseteq roms'
  BY <1>1, <1>2 DEF StatesInv
<1>5. Gathers(list', saves')
  <2>1. Gathers(list, saves)
    BY DEF StatesInv
  <2>2. \A g : Passed(list', g) => Passed(list, g)
    BY <1>2 DEF Passed
  <2> QED BY <1>1, <1>2, <2>1, <2>2 DEF Gathers
<1>6. list'.due \cup list'.seen \cup list'.stayed \subseteq There'
  BY <1>1, <1>2 DEF StatesInv, There
<1> QED BY <1>1, <1>2, <1>3, <1>4, <1>5, <1>6 DEF StatesInv

LEMMA StartStatesSteps ==
    ASSUME StatesInv, StartStates
    PROVE  StatesInv'
<1>1. /\ UNCHANGED <<saves, roms, page, doomed, moves>>
      /\ list' = [NoList EXCEPT !.pc = "stems", !.stayed = There, !.kept = roms]
      /\ roms \subseteq StateCards \X Games
  BY DEF StatesInv, StartStates
<1>2. /\ list' \in Lists /\ list'.due = {} /\ list'.seen = {} /\ list'.stayed = There
      /\ list'.kept = roms /\ list'.pc = "stems" /\ list'.card = 1 /\ list'.entries = {}
      /\ list'.folder = Flat /\ list'.folders = {}
  <2>1. There \subseteq StateFiles
    BY DEF There
  <2> QED BY <1>1, <2>1, CardsCount DEF Lists, NoList
<1>3. Gathers(list', saves')
  <2>1. \A r \in list'.kept : ~(r[1] < list'.card)
    <3>1. \A r \in list'.kept : r[1] \in Nat \ {0}
      BY <1>1, <1>2, CardsCount
    <3> QED BY <1>2, <3>1
  <2> QED BY <1>2, <2>1, GroupedNone DEF Gathers
<1> QED BY <1>1, <1>2, <1>3 DEF StatesInv, There

\* A listing that opens a folder is past what it was past before, and what is
\* not in the folder or after it.
LEMMA OpenFits ==
    ASSUME NEW l \in Lists, NEW c \in StateCards, NEW d \in StateDirs,
           NEW l2, l2 = Opened(l, c, d)
    PROVE  /\ l2 \in Lists /\ l2.due = InDir(c, d) /\ l2.seen = {} /\ l2.stayed = l.stayed
           /\ l2.kept = l.kept /\ l2.pc = "read" /\ l2.card = c /\ l2.entries = l.entries
           /\ l2.folder = d /\ l2.folders = l.folders /\ l2.stems = l.stems
<1>1. InDir(c, d) \subseteq StateFiles
  BY DEF InDir, There
<1> QED BY <1>1 DEF Opened, Lists

LEMMA CollectStemsSteps ==
    ASSUME StatesInv, CollectStems
    PROVE  StatesInv'
<1> DEFINE stems == list.stems \cup {g \in Games : <<list.card, g>> \in roms}
<1>1. /\ UNCHANGED <<saves, roms, page, doomed, moves>> /\ list.pc = "stems"
      /\ list' = IF list.card + 1 \in StateCards
                 THEN [list EXCEPT !.stems = stems, !.card = @ + 1]
                 ELSE IF stems = {} THEN [list EXCEPT !.pc = "done"]
                 ELSE Opened([list EXCEPT !.stems = stems, !.folders = StateDirs \ {Flat}], 1, Flat)
      /\ list \in Lists /\ Gathers(list, saves) /\ roms \subseteq StateCards \X Games
      /\ list.due \cup list.seen \cup list.stayed \subseteq There /\ list.kept \subseteq roms
  BY DEF StatesInv, CollectStems
<1>2. \A r \in list.kept : r[1] \in StateCards /\ r[2] \in Games
  BY <1>1, ListFields
<1>3. \A r \in list.kept : r[1] < list.card \/ r[1] = list.card => r[2] \in stems
  <2> SUFFICES ASSUME NEW r \in list.kept, r[1] < list.card \/ r[1] = list.card
               PROVE  r[2] \in stems
    OBVIOUS
  <2>1. CASE r[1] < list.card
    BY <2>1, <1>1 DEF Gathers
  <2>2. CASE r[1] = list.card
    <3>1. r = <<r[1], r[2]>> /\ r \in roms
      BY <1>1
    <3> QED BY <2>2, <3>1, <1>2
  <2> QED BY <2>1, <2>2
<1>4. stems \subseteq Games /\ list.entries = {} /\ list.card \in StateCards /\ list.card \in Nat
  BY <1>1, ListFields, CardsCount DEF Gathers
<1> HIDE DEF stems
<1>5. CASE list.card + 1 \in StateCards
  <2>1. /\ list' \in Lists /\ list'.pc = "stems" /\ list'.card = list.card + 1
        /\ list'.stems = stems /\ list'.entries = {} /\ list'.kept = list.kept
        /\ list'.due = list.due /\ list'.seen = list.seen /\ list'.stayed = list.stayed
        /\ list'.folder = list.folder /\ list'.folders = list.folders
    BY <1>1, <1>4, <1>5 DEF Lists
  <2>2. \A r \in list'.kept : r[1] < list'.card => r[2] \in list'.stems
    <3>1. \A r \in list.kept : r[1] \in Nat
      BY <1>2, CardsCount
    <3> QED BY <1>3, <1>4, <2>1, <3>1
  <2>3. Gathers(list', saves')
    BY <1>1, <2>1, <2>2, GroupedNone DEF Gathers
  <2> QED BY <1>1, <2>1, <2>3 DEF StatesInv, There
<1>6. CASE list.card + 1 \notin StateCards
  <2>1. \A r \in list.kept : r[2] \in stems
    <3>1. \A c \in StateCards : c <= list.card /\ c \in Nat
      BY <1>4, <1>6, CardsCount
    <3> QED BY <1>2, <1>3, <1>4, <3>1
  <2>2. CASE stems = {}
    <3>1. /\ list' \in Lists /\ list'.pc = "done" /\ list'.entries = {} /\ list'.kept = list.kept
          /\ list'.due = list.due /\ list'.seen = list.seen /\ list'.stayed = list.stayed
          /\ list'.folder = list.folder /\ list'.folders = list.folders
          /\ list'.stems = list.stems
      BY <1>1, <1>4, <1>6, <2>2 DEF Lists
    <3>2. list.kept = {} /\ list.stems = {}
      BY <2>1, <2>2 DEF stems
    <3>3. Gathers(list', saves')
      BY <1>1, <3>1, <3>2, GroupedNone DEF Gathers
    <3> QED BY <1>1, <3>1, <3>3 DEF StatesInv, There
  <2>3. CASE stems # {}
    <3> DEFINE l == [list EXCEPT !.stems = stems, !.folders = StateDirs \ {Flat}]
    <3>1. /\ l \in Lists /\ l.stems = stems /\ l.folders = StateDirs \ {Flat}
          /\ l.entries = {} /\ l.kept = list.kept /\ l.stayed = list.stayed
      BY <1>1, <1>4 DEF Lists
    <3>2. list' = Opened(l, 1, Flat)
      BY <1>1, <1>6, <2>3
    <3> HIDE DEF l
    <3>3. /\ list' \in Lists /\ list'.due = InDir(1, Flat) /\ list'.seen = {}
          /\ list'.stayed = list.stayed /\ list'.kept = list.kept /\ list'.pc = "read"
          /\ list'.card = 1 /\ list'.entries = {} /\ list'.folder = Flat
          /\ list'.folders = StateDirs \ {Flat} /\ list'.stems = stems
      BY <3>1, <3>2, CardsCount, OpenFits
    <3>4. ASSUME NEW f \in list'.stayed PROVE ~Passed(list', f)
      <4>1. f \in There /\ f \in StateFiles
        BY <1>1, <3>3 DEF There
      <4>2. f[1] \in Nat \ {0} /\ f[2] \in StateDirs
        BY <4>1, SaveFacts, CardsCount
      <4>3. f[1] = 1 /\ f[2] = Flat => f \in list'.due
        BY <3>3, <4>1 DEF InDir
      <4> QED BY <3>3, <4>2, <4>3 DEF Passed
    <3>5. Gathers(list', saves')
      BY <2>1, <3>3, <3>4, GroupedNone DEF Gathers
    <3>6. list'.due \subseteq There
      BY <3>3 DEF InDir
    <3> QED BY <1>1, <3>3, <3>5, <3>6 DEF StatesInv, There
  <2> QED BY <2>2, <2>3
<1> QED BY <1>5, <1>6

\* A file that is noted, or is no state of the platform.
LEMMA ReadStateSteps ==
    ASSUME StatesInv, NEW f \in StateFiles, ReadState(f)
    PROVE  StatesInv'
<1>1. /\ UNCHANGED <<saves, roms, page, doomed, moves>> /\ list.pc = "read"
      /\ f \in InDir(list.card, list.folder) \ list.seen
      /\ list \in Lists /\ Gathers(list, saves)
      /\ saves \in [StateFiles -> 0 .. moves + 1] /\ moves \in Nat
      /\ list.due \cup list.seen \cup list.stayed \subseteq There /\ list.kept \subseteq roms
  BY DEF StatesInv, ReadState
<1>2. f \in There /\ saves[f] \in Nat \ {0} /\ saves \in [StateFiles -> Nat]
  <2>1. f \in There
    BY <1>1 DEF InDir
  <2>2. 0 .. moves + 1 \subseteq Nat
    BY <1>1
  <2> QED BY <1>1, <2>1, <2>2 DEF There
<1>3. There' = There
  BY <1>1 DEF There
<1>4. SUFFICES list' \in Lists /\ Gathers(list', saves') /\ list'.kept = list.kept
               /\ list'.due \cup list'.seen \cup list'.stayed \subseteq There
  BY <1>1, <1>3 DEF StatesInv
<1>5. ASSUME NEW E \in SUBSET StateEntries, Grouped(E),
             list' = [list EXCEPT !.seen = @ \cup {f}, !.due = @ \ {f}, !.entries = E],
             \A g \in StateFiles : Entered(list.entries, saves, g) => Entered(E, saves, g),
             Parses(f[4]) /\ f[3] \in list.stems => Entered(E, saves, f)
      PROVE  /\ list' \in Lists /\ Gathers(list', saves') /\ list'.kept = list.kept
             /\ list'.due \cup list'.seen \cup list'.stayed \subseteq There
  <2>1. /\ list' \in Lists /\ list'.due = list.due \ {f} /\ list'.seen = list.seen \cup {f}
        /\ list'.stayed = list.stayed /\ list'.kept = list.kept /\ list'.pc = "read"
        /\ list'.stems = list.stems /\ list'.card = list.card /\ list'.folder = list.folder
        /\ list'.folders = list.folders /\ list'.entries = E
    BY <1>1, <1>5 DEF Lists
  <2>2. list'.due \cup list'.seen \cup list'.stayed \subseteq There
    BY <1>1, <1>2, <2>1
  <2>3. /\ list'.folder \notin list'.folders /\ Grouped(list'.entries)
        /\ list'.due \cap list'.seen = {} /\ \A r \in list'.kept : r[2] \in list'.stems
    BY <1>1, <1>5, <2>1 DEF Gathers
  <2>4. ASSUME NEW g \in list'.stayed, Passed(list', g), Parses(g[4]), g[3] \in list'.stems
        PROVE  Entered(list'.entries, saves', g)
    <3>1. CASE g = f
      BY <1>1, <1>5, <2>1, <2>4, <3>1
    <3>2. CASE g # f
      <4>1. Passed(list, g)
        BY <2>1, <2>4, <3>2, <1>1 DEF Passed
      <4>2. Entered(list.entries, saves, g)
        BY <1>1, <2>1, <2>4, <4>1 DEF Gathers
      <4>3. g \in StateFiles
        BY <1>1, <2>1, ListFields
      <4> QED BY <1>1, <1>5, <2>1, <4>2, <4>3
    <3> QED BY <3>1, <3>2
  <2>5. Gathers(list', saves')
    BY <2>1, <2>3, <2>4 DEF Gathers
  <2> QED BY <2>1, <2>2, <2>5
<1>6. list.entries \in SUBSET StateEntries /\ Grouped(list.entries)
  BY <1>1, ListFields DEF Gathers
<1>7. CASE ~(Parses(f[4]) /\ f[3] \in list.stems)
  <2>1. list' = [list EXCEPT !.seen = @ \cup {f}, !.due = @ \ {f}]
    BY <1>7 DEF ReadState
  <2>2. [list EXCEPT !.seen = @ \cup {f}, !.due = @ \ {f}]
          = [list EXCEPT !.seen = @ \cup {f}, !.due = @ \ {f}, !.entries = list.entries]
    BY <1>1 DEF Lists
  <2> QED BY <1>5, <1>6, <1>7, <2>1, <2>2
<1>8. CASE Parses(f[4]) /\ f[3] \in list.stems
  <2> DEFINE old == FindGroup(f)
  <2> DEFINE e == IF old # {} THEN CHOOSE o \in old : TRUE
                  ELSE [NoEntry EXCEPT !.label = LabelOf(f), !.game = f[3], !.slot = SlotOf(f[4])]
  <2>1. IF f \notin e.paths /\ Cardinality(e.paths) = MaxPaths
        THEN list' = [list EXCEPT !.pc = "failed"]
        ELSE list' = [list EXCEPT !.seen = @ \cup {f}, !.due = @ \ {f},
                                  !.entries = (@ \ old) \cup {NoteFile(e, f)}]
    BY <1>8 DEF ReadState, AddPayload
  <2>2. old = GroupOf(list.entries, f)
    BY DEF FindGroup, GroupOf
  <2>3. Takes(e, list.entries, f)
    <3>1. CASE old # {}
      <4>1. e \in GroupOf(list.entries, f)
        BY <2>2, <3>1
      <4> HIDE DEF e
      <4> QED BY <1>6, <4>1, TakesOld
    <3>2. CASE old = {}
      <4>1. e = [NoEntry EXCEPT !.label = LabelOf(f), !.game = f[3], !.slot = SlotOf(f[4])]
        BY <3>2
      <4>2. Takes([NoEntry EXCEPT !.label = LabelOf(f), !.game = f[3], !.slot = SlotOf(f[4])],
                  list.entries, f)
        BY <1>8, <2>2, <3>2, TakesNew, Zenon
      <4> HIDE DEF e
      <4> QED BY <4>1, <4>2, Zenon
    <3> QED BY <3>1, <3>2
  <2> HIDE DEF e, old
  <2>4. CASE f \notin e.paths /\ Cardinality(e.paths) = MaxPaths
    <3>1. /\ list' \in Lists /\ list'.due = list.due /\ list'.seen = list.seen
          /\ list'.stayed = list.stayed /\ list'.kept = list.kept /\ list'.pc = "failed"
          /\ list'.folder = list.folder /\ list'.folders = list.folders
          /\ list'.entries = list.entries
      BY <1>1, <2>1, <2>4 DEF Lists
    <3> QED BY <1>1, <3>1 DEF Gathers
  <2>5. CASE ~(f \notin e.paths /\ Cardinality(e.paths) = MaxPaths)
    <3> DEFINE E == (list.entries \ GroupOf(list.entries, f)) \cup {NoteFile(e, f)}
    <3>1. /\ E \in SUBSET StateEntries /\ Grouped(E) /\ Entered(E, saves, f)
          /\ \A g \in StateFiles : Entered(list.entries, saves, g) => Entered(E, saves, g)
      BY <1>2, <1>6, <2>3, <2>5, PutFits
    <3>2. list' = [list EXCEPT !.seen = @ \cup {f}, !.due = @ \ {f}, !.entries = E]
      BY <2>1, <2>2, <2>5
    <3> HIDE DEF E
    <3> QED BY <1>5, <3>1, <3>2
  <2> QED BY <2>4, <2>5
<1> QED BY <1>7, <1>8

\* The folder that is closed is passed as well.
LEMMA ClosedIsPassed ==
    ASSUME StatesInv, list.pc = "read", list.due = {}, NEW f \in StateFiles,
           f[1] < list.card \/ (f[1] = list.card /\ f[2] \notin list.folders)
    PROVE  Passed(list, f)
  BY DEF Passed

LEMMA CloseFolderSteps ==
    ASSUME StatesInv, CloseFolder
    PROVE  StatesInv'
<1>1. /\ UNCHANGED <<saves, roms, page, doomed, moves>> /\ list.pc = "read" /\ list.due = {}
      /\ list \in Lists /\ Gathers(list, saves)
      /\ list.due \cup list.seen \cup list.stayed \subseteq There /\ list.kept \subseteq roms
      /\ list' \in
           IF list.folders # {}
           THEN {Opened([list EXCEPT !.folders = @ \ {d}], list.card, d) : d \in list.folders}
           ELSE IF list.card + 1 \in StateCards
           THEN {Opened([list EXCEPT !.folders = StateDirs \ {Flat}], list.card + 1, Flat)}
           ELSE {[list EXCEPT !.pc = "done"]}
  BY DEF StatesInv, CloseFolder
<1>2. There' = There /\ There \subseteq StateFiles
  BY <1>1 DEF There
<1>3. /\ list.card \in StateCards /\ list.card \in Nat /\ list.folder \in StateDirs
      /\ list.folders \subseteq StateDirs \ {Flat}
  BY <1>1, ListFields, CardsCount
<1>4. \A f \in list.stayed : /\ f \in There /\ f \in StateFiles
                             /\ f[1] \in StateCards /\ f[1] \in Nat /\ f[2] \in StateDirs
  BY <1>1, <1>2, SaveFacts, CardsCount
<1>5. ASSUME list' \in Lists, list'.stayed = list.stayed, list'.kept = list.kept,
             list'.entries = list.entries, list'.stems = list.stems,
             list'.pc \in {"read", "done"}, list'.folder \notin list'.folders,
             list'.due \subseteq There, list'.due \cap list'.seen = {}, list'.seen \subseteq There,
             \A f \in list'.stayed : Passed(list', f) => Passed(list, f)
      PROVE  StatesInv'
  <2>1. \A r \in list'.kept : r[2] \in list'.stems
    BY <1>1, <1>5 DEF Gathers
  <2>2. ASSUME NEW f \in list'.stayed, Passed(list', f), Parses(f[4]), f[3] \in list'.stems
        PROVE  Entered(list'.entries, saves', f)
    <3>1. Passed(list, f) /\ f \in list.stayed /\ f[3] \in list.stems
      BY <1>5, <2>2
    <3>2. Entered(list.entries, saves, f)
      BY <1>1, <2>2, <3>1 DEF Gathers
    <3> QED BY <1>1, <1>5, <3>2
  <2>3. Grouped(list'.entries)
    BY <1>1, <1>5 DEF Gathers
  <2>4. Gathers(list', saves')
    BY <1>5, <2>1, <2>2, <2>3 DEF Gathers
  <2> QED BY <1>1, <1>2, <1>5, <2>4 DEF StatesInv
<1>6. CASE list.folders # {}
  <2>1. PICK d \in list.folders :
           list' = Opened([list EXCEPT !.folders = @ \ {d}], list.card, d)
    BY <1>1, <1>6
  <2> DEFINE l == [list EXCEPT !.folders = @ \ {d}]
  <2>2. /\ l \in Lists /\ l.folders = list.folders \ {d} /\ l.stems = list.stems
        /\ l.entries = list.entries /\ l.kept = list.kept /\ l.stayed = list.stayed
    BY <1>1, <1>3 DEF Lists
  <2> HIDE DEF l
  <2>3. /\ list' \in Lists /\ list'.due = InDir(list.card, d) /\ list'.seen = {}
        /\ list'.stayed = list.stayed /\ list'.kept = list.kept /\ list'.pc = "read"
        /\ list'.card = list.card /\ list'.entries = list.entries /\ list'.folder = d
        /\ list'.folders = list.folders \ {d} /\ list'.stems = list.stems
    <3>1. list' = Opened(l, list.card, d) /\ d \in StateDirs
      BY <1>3, <2>1 DEF l
    <3> QED BY <1>3, <2>2, <3>1, OpenFits
  <2>4. ASSUME NEW f \in list'.stayed, Passed(list', f) PROVE Passed(list, f)
    <3>1. f[1] = list.card /\ f[2] = d => f \in list'.due
      BY <1>4, <2>3 DEF InDir
    <3>2. list'.folders \cup {list'.folder} = list.folders
      BY <2>3
    <3>3. \/ f[1] < list'.card
          \/ /\ f[1] = list'.card
             /\ f[2] \notin list'.folders \cup {list'.folder}
                  \/ (f[2] = list'.folder /\ f \notin list'.due)
      BY <2>3, <2>4 DEF Passed
    <3>4. f[1] < list.card \/ (f[1] = list.card /\ f[2] \notin list.folders)
      BY <2>3, <3>1, <3>2, <3>3
    <3> QED BY <1>1, <1>4, <2>3, <3>4, ClosedIsPassed
  <2>5. list'.due \subseteq There
    BY <2>3 DEF InDir
  <2> QED BY <1>5, <2>3, <2>4, <2>5
<1>7. CASE list.folders = {} /\ list.card + 1 \in StateCards
  <2> DEFINE l == [list EXCEPT !.folders = StateDirs \ {Flat}]
  <2>1. /\ l \in Lists /\ l.folders = StateDirs \ {Flat} /\ l.stems = list.stems
        /\ l.entries = list.entries /\ l.kept = list.kept /\ l.stayed = list.stayed
    BY <1>1 DEF Lists
  <2> HIDE DEF l
  <2>2. /\ list' \in Lists /\ list'.due = InDir(list.card + 1, Flat) /\ list'.seen = {}
        /\ list'.stayed = list.stayed /\ list'.kept = list.kept /\ list'.pc = "read"
        /\ list'.card = list.card + 1 /\ list'.entries = list.entries /\ list'.folder = Flat
        /\ list'.folders = StateDirs \ {Flat} /\ list'.stems = list.stems
    <3>1. list' = Opened(l, list.card + 1, Flat) /\ Flat \in StateDirs
      BY <1>1, <1>7, CardsCount DEF l
    <3> QED BY <1>7, <2>1, <3>1, OpenFits
  <2>3. ASSUME NEW f \in list'.stayed, Passed(list', f) PROVE Passed(list, f)
    <3>1. f[1] = list.card + 1 /\ f[2] = Flat => f \in list'.due
      BY <1>4, <2>2 DEF InDir
    <3>2. f[1] < list.card + 1
      BY <1>4, <2>2, <2>3, <3>1 DEF Passed
    <3>3. f[1] < list.card \/ f[1] = list.card
      BY <1>3, <1>4, <2>2, <3>2
    <3> QED BY <1>1, <1>4, <1>7, <2>2, <3>3, ClosedIsPassed
  <2>4. list'.due \subseteq There
    BY <2>2 DEF InDir
  <2> QED BY <1>5, <2>2, <2>3, <2>4
<1>8. CASE list.folders = {} /\ list.card + 1 \notin StateCards
  <2>1. /\ list' \in Lists /\ list'.due = {} /\ list'.seen = list.seen
        /\ list'.stayed = list.stayed /\ list'.kept = list.kept /\ list'.pc = "done"
        /\ list'.entries = list.entries /\ list'.folder = list.folder
        /\ list'.folders = {} /\ list'.stems = list.stems
    BY <1>1, <1>8 DEF Lists
  <2>2. ASSUME NEW f \in list'.stayed PROVE Passed(list, f)
    <3>1. f[1] <= list.card
      BY <1>3, <1>4, <1>8, <2>1, CardsCount
    <3>2. f[1] < list.card \/ f[1] = list.card
      BY <1>3, <1>4, <2>1, <3>1
    <3> QED BY <1>1, <1>4, <1>8, <2>1, <3>2, ClosedIsPassed
  <2> QED BY <1>1, <1>5, <2>1, <2>2
<1> QED BY <1>6, <1>7, <1>8

\* What is shown of the entries: as many as there is room for.
LEMMA ShownFacts ==
    ASSUME StatesInv, ShowStates
    PROVE  /\ UNCHANGED <<saves, roms, doomed, moves>> /\ list' = NoList /\ list.pc = "done"
           /\ page'.entries \subseteq list.entries /\ PageFits(page')
           /\ page'.cut \/ page'.entries = list.entries
           /\ \A d \in list.entries \ page'.entries, e \in page'.entries : ~Before(d, e)
<1> DEFINE n == Cardinality(list.entries)
<1> DEFINE most == IF n < MaxEntries THEN n ELSE MaxEntries
<1>1. PICK first \in kSubset(most, list.entries) :
        /\ ~\E d \in list.entries \ first, e \in first : Before(d, e)
        /\ page' = [entries |-> first, cut |-> n > MaxEntries]
  BY DEF ShowStates
<1>2. /\ list \in Lists /\ Grouped(list.entries) /\ list.entries \subseteq StateEntries
      /\ IsFiniteSet(list.entries) /\ n \in Nat /\ MaxEntries \in Nat
  BY ListFields, FS_CardinalityType, CardsCount DEF StatesInv, Gathers, Grouped
<1>3. first \subseteq list.entries /\ Cardinality(first) = most
  BY DEF kSubset
<1>4. page'.entries = first /\ page'.cut = (n > MaxEntries)
  BY <1>1
<1>5. IsFiniteSet(first)
  BY <1>2, <1>3, FS_Subset
<1> HIDE DEF n
<1>6. Cardinality(first) <= MaxEntries
  BY <1>2, <1>3
<1>7. PageFits(page')
  BY <1>2, <1>3, <1>4, <1>5, <1>6 DEF PageFits, Grouped
<1>8. n > MaxEntries \/ first = list.entries
  <2>1. n > MaxEntries \/ Cardinality(first) = n
    BY <1>2, <1>3
  <2> QED BY <1>2, <1>3, <2>1, FS_Subset DEF n
<1>9. /\ UNCHANGED <<saves, roms, doomed, moves>> /\ list' = NoList /\ list.pc = "done"
  BY DEF ShowStates
<1> QED BY <1>1, <1>3, <1>4, <1>7, <1>8, <1>9

LEMMA NextStates == StatesInv /\ [StatesNext]_stateVars => StatesInv'
<1> SUFFICES ASSUME StatesInv, [StatesNext]_stateVars PROVE StatesInv'
  OBVIOUS
<1>1. ASSUME NEW f \in StateFiles, SaveState(f) \/ ReadState(f) \/ DeletePath(f) PROVE StatesInv'
  BY <1>1, SaveStateSteps, ReadStateSteps, DeletePathSteps
<1>2. ASSUME NEW r \in StateCards \X Games, ChangeRom(r) PROVE StatesInv'
  BY <1>2, ChangeRomSteps
<1>3. CASE ShowStates
  <2>1. /\ UNCHANGED <<saves, roms, doomed, moves>> /\ list' = NoList /\ PageFits(page')
    BY <1>3, ShownFacts
  <2>2. NoList \in Lists /\ Gathers(NoList, saves')
    BY NoListFits
  <2> QED BY <2>1, <2>2, NoListFits DEF StatesInv, There
<1>4. CASE FailStates
  <2>1. UNCHANGED <<saves, roms, doomed, moves, page>> /\ list' = NoList
    BY <1>4 DEF FailStates
  <2>2. NoList \in Lists /\ Gathers(NoList, saves')
    BY NoListFits
  <2> QED BY <2>1, <2>2, NoListFits DEF StatesInv, There
<1>5. CASE ChooseEntry
  <2>1. PICK e \in page.entries : doomed' = [entry |-> e, left |-> e.paths]
    BY <1>5 DEF ChooseEntry
  <2>2. /\ UNCHANGED <<saves, roms, list, page>> /\ moves' = moves + 1 /\ moves < MaxMoves
        /\ moves \in 0 .. MaxMoves /\ saves \in [StateFiles -> 0 .. moves + 1]
    BY <1>5 DEF ChooseEntry, Move, StatesInv
  <2>3. DoomFits(doomed')
    BY <2>1 DEF StatesInv, PageFits, DoomFits
  <2>4. moves' \in 0 .. MaxMoves /\ saves' \in [StateFiles -> 0 .. moves' + 1]
    <3>1. moves' \in 0 .. MaxMoves /\ 0 .. moves + 1 \subseteq 0 .. moves' + 1
      BY <2>2, CardsCount
    <3> QED BY <2>2, <3>1
  <2> QED BY <2>2, <2>3, <2>4 DEF StatesInv, There
<1>6. CASE UNCHANGED stateVars
  BY <1>6 DEF StatesInv, stateVars, There
<1> QED BY <1>1, <1>2, <1>3, <1>4, <1>5, <1>6, StartStatesSteps, CollectStemsSteps,
          CloseFolderSteps DEF StatesNext

LEMMA AlwaysStates == StatesSpec => []StatesInv
  BY InitStates, NextStates, PTL DEF StatesSpec

-----------------------------------------------------------------------------
(* Save states: the properties *)

\* Every reachable state of the listings, the page and the deletions is well
\* typed: no entry has more files than there is room for, and no page more
\* entries.
THEOREM StatesTypes == StatesSpec => []StatesTypeOK
<1>1. StatesInv => StatesTypeOK
  <2> SUFFICES ASSUME StatesInv PROVE StatesTypeOK
    OBVIOUS
  <2>1. /\ moves \in 0 .. MaxMoves /\ saves \in [StateFiles -> 0 .. moves + 1]
        /\ roms \subseteq StateCards \X Games /\ list \in Lists /\ Gathers(list, saves)
        /\ list.due \cup list.seen \cup list.stayed \subseteq There /\ list.kept \subseteq roms
        /\ PageFits(page) /\ DoomFits(doomed)
    BY DEF StatesInv
  <2>2. saves \in [StateFiles -> Nat]
    <3>1. 0 .. moves + 1 \subseteq Nat
      BY <2>1
    <3> QED BY <2>1, <3>1
  <2>3. \A e : EntryFits(e) => EntryOK(e)
    BY DEF EntryFits, EntryOK, StateEntries
  <2>4. \A e \in list.entries \cup page.entries : EntryOK(e)
    BY <2>1, <2>3 DEF Gathers, Grouped, PageFits
  <2>5. /\ list.pc \in {"idle", "stems", "read", "done", "failed"}
        /\ list.card \in StateCards /\ list.folder \in StateDirs
        /\ list.folders \subseteq StateDirs \ {Flat} /\ list.stems \subseteq Games
    BY <2>1, ListFields
  <2>6. /\ list.due \cap list.seen = {} /\ Cardinality(page.entries) <= MaxEntries
        /\ doomed.left \subseteq doomed.entry.paths
    BY <2>1 DEF Gathers, PageFits, DoomFits
  <2> QED BY <2>1, <2>2, <2>4, <2>5, <2>6 DEF StatesTypeOK
<1> QED BY <1>1, AlwaysStates, PTL

\* A state that stayed as it was while a listing was made, and of whose game a
\* ROM stayed, is in exactly one entry of what is shown, or the page says that
\* there are more and shows only what is as new (cs_states_collect).
THEOREM EachStateListedAlways == StatesSpec => EachStateListed
<1> DEFINE Shown(f) ==
        LET entries == {e \in page'.entries : f \in e.paths} IN
        \/ Cardinality(entries) = 1
        \/ /\ entries = {} /\ page'.cut
           /\ \A e \in page'.entries : e.modified >= saves[f]
<1> DEFINE Due == {g \in list.stayed : Parses(g[4]) /\ \E c \in StateCards : <<c, g[3]>> \in list.kept}
<1> DEFINE Step ==
        (list.pc = "done" /\ list'.pc # "done") =>
         \A f \in {g \in list.stayed :
                    Parses(g[4]) /\ \E c \in StateCards : <<c, g[3]>> \in list.kept} :
            LET entries == {e \in page'.entries : f \in e.paths} IN
            \/ Cardinality(entries) = 1
            \/ /\ entries = {} /\ page'.cut
               /\ \A e \in page'.entries : e.modified >= saves[f]
<1>1. ASSUME StatesInv, StatesNext, list.pc = "done", list'.pc # "done" PROVE ShowStates
  <2>1. list \in Lists
    BY <1>1 DEF StatesInv
  <2>2. ASSUME NEW f, Disturb(f) PROVE list'.pc = list.pc
    BY <2>1, <2>2 DEF Disturb, Lists
  <2>3. ASSUME NEW f \in StateFiles, SaveState(f) \/ ReadState(f) \/ DeletePath(f) PROVE FALSE
    <3>1. CASE SaveState(f)
      BY <1>1, <2>2, <3>1 DEF SaveState
    <3>2. CASE ReadState(f)
      BY <1>1, <3>2 DEF ReadState
    <3>3. CASE DeletePath(f)
      BY <1>1, <2>2, <3>3 DEF DeletePath
    <3> QED BY <2>3, <3>1, <3>2, <3>3
  <2>4. ASSUME NEW r \in StateCards \X Games, ChangeRom(r) PROVE FALSE
    BY <1>1, <2>1, <2>4 DEF ChangeRom, Lists
  <2>5. ~StartStates /\ ~CollectStems /\ ~CloseFolder /\ ~FailStates /\ ~ChooseEntry
    BY <1>1 DEF StartStates, CollectStems, CloseFolder, FailStates, ChooseEntry
  <2> QED BY <1>1, <2>3, <2>4, <2>5 DEF StatesNext
<1>2. ASSUME StatesInv, ShowStates, NEW f \in Due PROVE Shown(f)
  <2> DEFINE entries == {e \in page'.entries : f \in e.paths}
  <2>1. /\ page'.entries \subseteq list.entries
        /\ page'.cut \/ page'.entries = list.entries
        /\ \A d \in list.entries \ page'.entries, e \in page'.entries : ~Before(d, e)
        /\ list.pc = "done"
    BY <1>2, ShownFacts
  <2>2. /\ list \in Lists /\ Gathers(list, saves) /\ saves \in [StateFiles -> 0 .. moves + 1]
        /\ moves \in Nat
    BY <1>2 DEF StatesInv
  <2>3. f \in list.stayed /\ Parses(f[4]) /\ f[3] \in list.stems /\ f \in StateFiles
    <3>1. f \in list.stayed /\ Parses(f[4])
      OBVIOUS
    <3>2. PICK c \in StateCards : <<c, f[3]>> \in list.kept
      OBVIOUS
    <3>3. f[3] \in list.stems
      BY <2>1, <2>2, <3>2 DEF Gathers
    <3> QED BY <2>2, <3>1, <3>3, ListFields
  <2>4. PICK e \in list.entries : f \in e.paths /\ e.modified >= saves[f]
    <3>1. Entered(list.entries, saves, f)
      BY <2>1, <2>2, <2>3 DEF Gathers, Passed
    <3> QED BY <3>1 DEF Entered
  <2>5. \A d \in list.entries : f \in d.paths => d = e
    BY <2>2, <2>4 DEF Gathers, Grouped, EntryFits, Of
  <2>6. CASE e \in page'.entries
    <3>1. entries = {e}
      BY <2>1, <2>4, <2>5, <2>6
    <3> HIDE DEF entries
    <3>2. Cardinality(entries) = 1
      BY <3>1, FS_Singleton
    <3> QED BY <3>2 DEF entries
  <2>7. CASE e \notin page'.entries
    <3>1. entries = {}
      BY <2>1, <2>5, <2>7
    <3>2. page'.cut
      BY <2>1, <2>4, <2>7
    <3>3. ASSUME NEW d \in page'.entries PROVE d.modified >= saves[f]
      <4>1. ~(e.modified > d.modified)
        BY <2>1, <2>4, <2>7 DEF Before
      <4>2. e \in StateEntries /\ d \in StateEntries
        BY <2>1, <2>2, ListFields
      <4>3. e.modified \in Nat /\ d.modified \in Nat /\ saves[f] \in Nat
        <5>1. saves[f] \in 0 .. moves + 1
          BY <2>2, <2>3
        <5> QED BY <2>2, <4>2, <5>1 DEF StateEntries
      <4> QED BY <2>4, <4>1, <4>3
    <3> QED BY <3>1, <3>2, <3>3
  <2> QED BY <2>6, <2>7
<1>3. ASSUME StatesInv, [StatesNext]_stateVars PROVE [Step]_stateVars
  <2>1. CASE StatesNext
    BY <1>1, <1>2, <1>3, <2>1
  <2> QED BY <1>3, <2>1
<1> QED BY <1>3, AlwaysStates, PTL DEF StatesSpec, EachStateListed

\* A deletion of an entry removes no state of another game, slot or emulator,
\* whatever was saved since it was listed (save-states-view.tsx,
\* cs_state_find_group).
THEOREM DeleteSparesOthersAlways == StatesSpec => DeleteSparesOthers
<1> DEFINE Step == \A f \in StateFiles : (saves[f] # 0 /\ saves'[f] = 0) =>
                      LET e == doomed.entry IN
                      e.label = LabelOf(f) /\ e.game = f[3] /\ e.slot = SlotOf(f[4])
<1>1. ASSUME StatesInv, StatesNext, NEW f \in StateFiles, saves[f] # 0, saves'[f] = 0
      PROVE  Of(doomed.entry, f)
  <2>1. saves \in [StateFiles -> 0 .. moves + 1]
    BY <1>1 DEF StatesInv
  <2>2. ASSUME NEW g \in StateFiles, DeletePath(g) PROVE Of(doomed.entry, f)
    <3>1. saves' = [saves EXCEPT ![g] = 0]
      BY <1>1, <2>2 DEF DeletePath
    <3>2. g = f
      BY <1>1, <2>1, <3>1
    <3>3. f \in doomed.left
      BY <2>2, <3>2 DEF DeletePath
    <3> QED BY <1>1, <3>3 DEF StatesInv, DoomFits, EntryFits
  <2>3. ASSUME NEW g \in StateFiles, SaveState(g) PROVE FALSE
    <3>1. saves'[g] > 0
      BY <1>1, <2>3, SaveStateSteps
    <3>2. g # f
      BY <1>1, <3>1
    <3>3. saves'[f] = saves[f]
      BY <2>1, <2>3, <3>2 DEF SaveState
    <3> QED BY <1>1, <3>3
  <2>4. ASSUME UNCHANGED saves PROVE FALSE
    BY <1>1, <2>4
  <2>5. ASSUME NEW g \in StateFiles, ReadState(g) PROVE UNCHANGED saves
    BY <2>5 DEF ReadState
  <2>6. ASSUME NEW r \in StateCards \X Games, ChangeRom(r) PROVE UNCHANGED saves
    BY <2>6 DEF ChangeRom
  <2>7. ASSUME StartStates \/ CollectStems \/ CloseFolder \/ ShowStates \/ FailStates \/ ChooseEntry
        PROVE  UNCHANGED saves
    BY <2>7 DEF StartStates, CollectStems, CloseFolder, ShowStates, FailStates, ChooseEntry
  <2> QED BY <1>1, <2>2, <2>3, <2>4, <2>5, <2>6, <2>7 DEF StatesNext
<1>2. ASSUME StatesInv, [StatesNext]_stateVars PROVE [Step]_stateVars
  <2>1. CASE StatesNext
    BY <1>1, <1>2, <2>1 DEF Of
  <2> QED BY <1>2, <2>1
<1>3. StatesSpec => [][Step]_stateVars
  <2> HIDE DEF Step
  <2> QED BY <1>2, AlwaysStates, PTL DEF StatesSpec
<1> QED BY <1>3 DEF DeleteSparesOthers

-----------------------------------------------------------------------------
(* The parts together *)

\* Put beside each other, the editor, the save states and the platforms stay well
\* typed: none changes what another keeps.
THEOREM ContentTypes == ContentSpec => []ContentTypeOK
<1>1. ContentInit => Init /\ StatesInit /\ PlatformsInit
  BY DEF ContentInit, MCPlatformsInit
<1>2. [ContentNext]_contentVars => [Next]_vars
  BY DEF ContentNext, contentVars
<1>3. [ContentNext]_contentVars => [StatesNext]_stateVars
  BY DEF ContentNext, contentVars
<1>4. [ContentNext]_contentVars => [PlatformsNext]_platformVars
  BY DEF ContentNext, contentVars
<1>5. QED
  BY <1>1, <1>2, <1>3, <1>4, TypeCorrect, StatesTypes, PlatformsTypes, PTL
  DEF ContentSpec, Spec, StatesSpec, PlatformsSpec, ContentTypeOK
=============================================================================
