--------------------------- MODULE LibraryServer ---------------------------
(***************************************************************************)
(* The metadata editor's two requests, save and undo, as the CivetWeb      *)
(* worker threads run them (routes_library_metadata.c), with the SQLite    *)
(* transaction and the undo files they work on (library_metadata.c).       *)
(*                                                                         *)
(* A bulk save writes its way back to library-metadata-undo.json.new,      *)
(* applies the changes in one transaction, and then renames that file over *)
(* library-metadata-undo.json or unlinks it.  All threads use the same two *)
(* names.  Files are modelled as POSIX has them: a name leads to an inode, *)
(* and a thread that opened an inode keeps writing it wherever the name    *)
(* goes.  The process may die at any step and be started again.            *)
(***************************************************************************)
EXTENDS LibraryRows, FiniteSets

CONSTANTS
    Threads,      \* CivetWeb worker threads
    BulkThreads,  \* those that are sent undoable requests
    NoThread,
    Requests,     \* what clients send: [undoable, changes]
    MaxAsked,     \* bound: requests accepted
    Inodes,
    NoInode

ASSUME ServerAssumption ==
    /\ BulkThreads \subseteq Threads
    /\ NoThread \notin Threads
    /\ Requests \subseteq [undoable: BOOLEAN, changes: Seq(Changes)]
    /\ MaxAsked \in Nat
    /\ NoInode \notin Inodes

VARIABLES
    found, settings,  \* the library: as last scanned, as last committed
    scanning,  \* what the launcher's socket reports as scan_busy
    tx,        \* the transaction that holds the database's write lock
    thr,       \* where each worker thread is in its handler
    undo,      \* inode of library-metadata-undo.json
    prepared,  \* inode of library-metadata-undo.json.new
    content,   \* the request an inode's snapshot is of; 0 if it cannot be read
    asked,     \* history: requests accepted; a request is known by its place
    applied    \* history: requests whose changes were committed

vars == <<found, settings, scanning, tx, thr, undo, prepared, content, asked, applied>>

library == <<found, settings>>
files   == <<undo, prepared, content>>
history == <<asked, applied>>

Ids == 0..MaxAsked

Idle == [pc |-> "idle", id |-> 0, inode |-> NoInode]

NoTx == [owner |-> NoThread, rows |-> <<>>, todo |-> <<>>]

ThreadState ==
    [pc: {"idle", "prepare", "sync", "apply", "write", "keep", "discard",
          "restore", "putback", "clear"},
     id: Ids, inode: Inodes \cup {NoInode}]

TypeOK ==
    /\ found \in Found
    /\ settings \in Settings
    /\ scanning \in BOOLEAN
    /\ \/ tx = NoTx
       \/ tx \in [owner: Threads, rows: Settings, todo: Seq(Changes)]
    /\ thr \in [Threads -> ThreadState]
    /\ undo \in Inodes \cup {NoInode}
    /\ prepared \in Inodes \cup {NoInode}
    /\ content \in [Inodes -> Ids]
    /\ asked \in Seq(Requests)
    /\ Len(asked) <= MaxAsked
    /\ applied \subseteq Ids

Init ==
    /\ found \in Scans
    /\ settings \in Stored
    /\ scanning = FALSE
    /\ tx = NoTx
    /\ thr = [t \in Threads |-> Idle]
    /\ undo = NoInode
    /\ prepared = NoInode
    /\ content = [i \in Inodes |-> 0]
    /\ asked = <<>>
    /\ applied = {}

PcIs(t, pc) == thr[t].pc = pc

Job(t) == asked[thr[t].id]

Goto(t, pc) == thr' = [thr EXCEPT ![t].pc = pc, ![t].inode = NoInode]

Answer(t) == thr' = [thr EXCEPT ![t] = Idle]

-----------------------------------------------------------------------------
(* The undo files *)

Readable(inode) == inode # NoInode /\ content[inode] # 0

\* Nobody can reach the inode any more.
Unused(inode) ==
    /\ inode \notin {undo, prepared}
    /\ \A t \in Threads : thr[t].inode # inode

\* A save is accepted unless the launcher reports a scan.  A malformed one is
\* refused before anything is touched, and is left out.
Save(t) ==
    /\ PcIs(t, "idle")
    /\ ~scanning
    /\ Len(asked) < MaxAsked
    /\ \E r \in Requests :
          /\ r.undoable => t \in BulkThreads
          /\ asked' = Append(asked, r)
          /\ thr' = [thr EXCEPT ![t] = [pc |-> IF r.undoable THEN "prepare" ELSE "apply",
                                        id |-> Len(asked) + 1, inode |-> NoInode]]
    /\ UNCHANGED <<library, scanning, tx, files, applied>>

\* cs_metadata_undo_prepare: fopen(".new", "wb") empties the file that is there
\* or makes one.
OpenPrepared(t) ==
    /\ PcIs(t, "prepare")
    /\ \/ \E i \in Inodes :
             /\ IF prepared = NoInode THEN Unused(i) ELSE i = prepared
             /\ prepared' = i
             /\ content' = [content EXCEPT ![i] = 0]
             /\ thr' = [thr EXCEPT ![t].pc = "sync", ![t].inode = i]
       \/ Answer(t) /\ UNCHANGED <<prepared, content>>     \* undo_unavailable
    /\ UNCHANGED <<library, scanning, tx, undo, history>>

\* Mutant: the save goes on when its way back could not be written.
SyncPrepared_Unchecked(t) ==
    /\ PcIs(t, "sync")
    /\ \/ content' = [content EXCEPT ![thr[t].inode] = thr[t].id] /\ UNCHANGED prepared
       \/ prepared' = NoInode /\ UNCHANGED content
    /\ Goto(t, "apply")
    /\ UNCHANGED <<library, scanning, tx, undo, history>>

\* The rest of cs_metadata_undo_prepare: write, fsync, close.  A snapshot
\* written into a file another thread has open may come out mixed.
SyncPrepared(t) ==
    LET i == thr[t].inode
        shared == content[i] # 0 \/ \E u \in Threads \ {t} : thr[u].inode = i
    IN  /\ PcIs(t, "sync")
        /\ \E c \in {thr[t].id} \cup (IF shared THEN {0} ELSE {}) :
              content' = [content EXCEPT ![i] = c]
        /\ \/ Goto(t, "apply") /\ UNCHANGED prepared
           \/ Answer(t) /\ prepared' = NoInode             \* undo_unavailable
        /\ UNCHANGED <<library, scanning, tx, undo, history>>

\* cs_metadata_undo_commit, and the answer's undoKept.
Keep(t) ==
    /\ PcIs(t, "keep")
    /\ \/ /\ prepared # NoInode
          /\ undo' = prepared
          /\ prepared' = NoInode
       \/ UNCHANGED <<undo, prepared>>               \* rename failed
    /\ Answer(t)
    /\ UNCHANGED <<library, scanning, tx, content, asked, applied>>

\* cs_metadata_undo_discard
Discard(t) ==
    /\ PcIs(t, "discard")
    /\ prepared' = NoInode
    /\ Answer(t)
    /\ UNCHANGED <<library, scanning, tx, undo, content, history>>

-----------------------------------------------------------------------------
(* The save's transaction *)

\* The handler goes on with a save that was applied.
Applied(t) == IF Job(t).undoable THEN Goto(t, "keep") ELSE Answer(t)

\* Mutant: the way back replaces the last one although nothing was applied.
Rejected_Kept(t) == IF Job(t).undoable THEN Goto(t, "keep") ELSE Answer(t)

\* The handler goes on with a save that was not.
Rejected(t) == IF Job(t).undoable THEN Goto(t, "discard") ELSE Answer(t)

\* Mutant: an error leaves the transaction open.
Rollback_Left == UNCHANGED tx

\* Mutant: the lock is let go, the rows waiting in it are not.
Rollback_Pending == tx' = [tx EXCEPT !.owner = NoThread]

\* ROLLBACK, or the COMMIT that ends the transaction, and sqlite3_close.
Rollback == tx' = NoTx

\* BEGIN IMMEDIATE, and the checks under the lock.  The library may not open,
\* stay locked past the busy timeout, or be one from before game_settings.
BeginApply(t) ==
    /\ PcIs(t, "apply")
    /\ \/ /\ tx = NoTx
          /\ ~Conflicts(found, settings, Job(t).changes)
          /\ tx' = [owner |-> t, rows |-> settings, todo |-> Job(t).changes]
          /\ Goto(t, "write")
       \/ Rejected(t) /\ UNCHANGED tx
    /\ UNCHANGED <<library, scanning, files, history>>

\* Mutant: the row is stored at once, outside the transaction.
WriteRow_Through(t) ==
    /\ PcIs(t, "write")
    /\ tx.owner = t
    /\ tx.todo # <<>>
    /\ tx' = [tx EXCEPT !.rows = Written(found, tx.rows, Head(tx.todo)), !.todo = Tail(tx.todo)]
    /\ settings' = Written(found, tx.rows, Head(tx.todo))
    /\ UNCHANGED <<found, scanning, thr, files, history>>

\* One row of cs_metadata_write_changes; any of them may fail.
WriteRow(t) ==
    /\ PcIs(t, "write")
    /\ tx.owner = t
    /\ tx.todo # <<>>
    /\ \/ /\ tx' = [tx EXCEPT !.rows = Written(found, tx.rows, Head(tx.todo)),
                              !.todo = Tail(tx.todo)]
          /\ UNCHANGED thr
       \/ Rollback /\ Rejected(t)
    /\ UNCHANGED <<library, scanning, files, history>>

\* COMMIT of cs_metadata_apply, which may fail as well.
CommitApply(t) ==
    /\ PcIs(t, "write")
    /\ tx.owner = t
    /\ tx.todo = <<>>
    /\ \/ /\ settings' = tx.rows
          /\ applied' = applied \cup {thr[t].id}
          /\ Applied(t)
       \/ Rejected(t) /\ UNCHANGED <<settings, applied>>
    /\ Rollback
    /\ UNCHANGED <<found, scanning, files, asked>>

-----------------------------------------------------------------------------
(* Undo *)

\* Undo is accepted when the file holds the last bulk save, and of the platform
\* the client asks about.  Any other is answered nothing_to_undo.
Undo(t) ==
    /\ PcIs(t, "idle")
    /\ ~scanning
    /\ Readable(undo)
    /\ thr' = [thr EXCEPT ![t] = [pc |-> "restore", id |-> content[undo], inode |-> NoInode]]
    /\ UNCHANGED <<library, scanning, tx, files, history>>

\* BEGIN IMMEDIATE of cs_metadata_undo_apply.
BeginRestore(t) ==
    /\ PcIs(t, "restore")
    /\ \/ /\ tx = NoTx
          /\ tx' = [owner |-> t, rows |-> settings, todo |-> Job(t).changes]
          /\ Goto(t, "putback")
       \/ Answer(t) /\ UNCHANGED tx
    /\ UNCHANGED <<library, scanning, files, history>>

\* One entry of the snapshot, put back or skipped.
PutBackRow(t) ==
    /\ PcIs(t, "putback")
    /\ tx.owner = t
    /\ tx.todo # <<>>
    /\ \/ /\ tx' = [tx EXCEPT !.rows = PutBack(found, tx.rows, Head(tx.todo)),
                              !.todo = Tail(tx.todo)]
          /\ UNCHANGED thr
       \/ Rollback /\ Answer(t)
    /\ UNCHANGED <<library, scanning, files, history>>

\* COMMIT of cs_metadata_undo_apply.
CommitRestore(t) ==
    /\ PcIs(t, "putback")
    /\ tx.owner = t
    /\ tx.todo = <<>>
    /\ \/ /\ settings' = tx.rows
          /\ Goto(t, "clear")
       \/ Answer(t) /\ UNCHANGED settings
    /\ Rollback
    /\ UNCHANGED <<found, scanning, files, asked, applied>>

\* cs_metadata_undo_clear
Clear(t) ==
    /\ PcIs(t, "clear")
    /\ undo' = NoInode
    /\ Answer(t)
    /\ UNCHANGED <<library, scanning, tx, prepared, content, history>>

-----------------------------------------------------------------------------
(* Leaf, and the process *)

\* Leaf starts or ends a scan, which other requests see through its socket.
Scan ==
    /\ scanning' = ~scanning
    /\ UNCHANGED <<library, tx, thr, files, history>>

\* A scan that found another card, or other games, stores what it found.
Reconcile ==
    /\ scanning
    /\ tx = NoTx
    /\ found' \in Scans
    /\ UNCHANGED <<settings, scanning, tx, thr, files, history>>

\* The process dies; SQLite rolls the open transaction back.
Die ==
    /\ \E t \in Threads : thr[t] # Idle
    /\ thr' = [t \in Threads |-> Idle]
    /\ tx' = NoTx
    /\ UNCHANGED <<library, scanning, files, history>>

Handle(t) ==
    \/ OpenPrepared(t) \/ SyncPrepared(t) \/ Keep(t) \/ Discard(t)
    \/ BeginApply(t) \/ WriteRow(t) \/ CommitApply(t)
    \/ BeginRestore(t) \/ PutBackRow(t) \/ CommitRestore(t) \/ Clear(t)

Next ==
    \/ \E t \in Threads : Save(t) \/ Undo(t) \/ Handle(t)
    \/ Scan \/ Reconcile \/ Die

Spec == Init /\ [][Next]_vars

\* A request's thread runs on: no step of a handler waits for another request,
\* SQLite's busy timeout included.
FairSpec == Spec /\ \A t \in Threads : WF_vars(Handle(t))

-----------------------------------------------------------------------------
(* Properties *)

Edits == INSTANCE LibraryEdits WITH Batches <- {r.changes : r \in Requests}

\* The editor's transactions are the promised edits: nothing half-done, stale
\* or meant for another card reaches the library (cs_metadata_apply,
\* cs_metadata_undo_apply).
LibraryIsEdited == Edits!Spec

\* "The snapshot ... only replaces the previous one once the apply has
\* committed": what undo would put back is a save that was applied.
UndoIsApplied == Readable(undo) => content[undo] \in applied

\* While a bulk save is being applied its way back waits under ".new", whole:
\* if the save commits it can be kept.
WayBackWaits ==
    \A t \in BulkThreads :
        /\ thr[t].pc \in {"apply", "write", "keep"}
        /\ Job(t).undoable
        => prepared # NoInode /\ content[prepared] = thr[t].id

\* No path of a handler leaves the library locked behind it, which would keep
\* Leaf's scanner and launcher out as well.
LockIsReleased == tx # NoTx ~> tx = NoTx
=============================================================================
