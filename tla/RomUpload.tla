----------------------------- MODULE RomUpload ------------------------------
(* Uploads of ROMs into a platform's folder: the page's preview, its batches   *)
(* and its summary (page.tsx, api.ts), and the server's gate and promotion     *)
(* (routes_upload.c). A selection of files, a folder or a ZIP is previewed     *)
(* whole and sent in batches; a lost or cancelled request may go on at the     *)
(* server.                                                                     *)
(*                                                                             *)
(* A file is its folders below the platform's and its name; a file in a folder *)
(* belongs to the bundle of the first one. Empty folders are left out.         *)
EXTENDS RomPolicy, FiniteSets

CONSTANTS Catalogs,    \* the catalogs the launcher may have, as rows
          Platform,    \* the tag of the platform
          Selections,  \* what may be chosen, [kind, files]
          TakenSets,   \* folder paths that may be plain files on the card
          CardSets,    \* the files that may be there at first
          Browsers, Workers, Nobody,
          Batch,       \* UPLOAD_BATCH_SIZE = CS_UPLOAD_MAX_FILES, 32
          MaxFaults    \* bound: storage errors, lost replies, cancels, removals

InSeq(s) == {s[i] : i \in 1..Len(s)}

ASSUME RomUploadAssumption ==
    /\ \A s \in Selections : s.kind \in {"files", "folder", "zip"}
    /\ \A s \in Selections : s.files \in Seq(InSeq(s.files))
    /\ Nobody \notin Workers \cup Browsers /\ Batch \in Nat \ {0}
    /\ MaxFaults \in Nat

VARIABLES
    catalog,  \* the rows of the catalog
    card,     \* the platform's files
    taken,    \* folder paths that are plain files on the card
    sending,  \* the upload of each browser
    worker,   \* the requests at the server
    first,    \* history: the files that were there at first
    robbed,   \* history: something was removed
    faults    \* storage errors, lost replies, cancels and removals so far

romUploadVars == <<catalog, card, taken, sending, worker, first, robbed, faults>>

NoUpload == [pc |-> "idle", kind |-> "files", files |-> <<>>, overwrite |-> FALSE, at |-> 1,
             by |-> Nobody, uploaded |-> 0, failed |-> 0, cancelled |-> FALSE,
             put |-> 0]  \* history: files that landed for it

NoUploadWork == [pc |-> "free", page |-> Nobody, files |-> <<>>, overwrite |-> FALSE,
                 at |-> 1, code |-> "ok", path |-> 0]

Policy == PolicyFor(catalog, Platform)

Bundle(f) == Head(f.dir)

\* A folder on the way to the file is a plain file.
Blocked(f) == \E k \in 1..Len(f.dir) : SubSeq(f.dir, 1, k) \in taken

MaySend == UNION {InSeq(s.files) : s \in Selections}

RomUploadInit ==
    /\ catalog \in Catalogs /\ taken \in TakenSets
    /\ card \in CardSets /\ \A f \in card : ~Blocked(f)
    /\ sending = [b \in Browsers |-> NoUpload]
    /\ worker = [w \in Workers |-> NoUploadWork]
    /\ first = card /\ robbed = FALSE /\ faults = 0

OnlyPage == UNCHANGED <<catalog, card, taken, worker, first, robbed>>

Fault == faults < MaxFaults /\ faults' = faults + 1

----------------------------------------------------------------------------
(* The page *)

\* handleUploadSelection, handleConfirmZipExtract
Choose(b) ==
    /\ sending[b].pc = "idle"
    /\ \E s \in Selections, over \in BOOLEAN :
          /\ over => s.kind = "zip"
          /\ sending' = [sending EXCEPT ![b] = [NoUpload EXCEPT !.pc = "preview", !.kind = s.kind,
                                                !.files = s.files, !.overwrite = over]]
    /\ OnlyPage /\ UNCHANGED faults

\* cs_upload_preview_apply_rom_policy: a flat file must be accepted, a bundle
\* needs one file that is.
Supported(files) ==
    LET fs == InSeq(files) IN
    \A f \in fs : IF f.dir = <<>> THEN Accepted(Policy, f.name)
                  ELSE \E g \in fs : /\ g.dir # <<>> /\ Bundle(g) = Bundle(f)
                                     /\ Accepted(Policy, g.name)

\* The entrypoint a preview names for each bundle: the first of its accepted
\* files in the order of a sort that is not stable.
Entrypoints(files) ==
    LET games == {f \in InSeq(files) : f.dir # <<>> /\ Accepted(Policy, f.name)}
        tops == {Bundle(f) : f \in games}
    IN
    IF ~Policy.enforced THEN {{}}
    ELSE {E \in SUBSET games : Cardinality(E) = Cardinality(tops)
                               /\ tops = {Bundle(f) : f \in E}}

\* Mutant: the files are sent as they come.
Prioritized_AsChosen(files, E) == {[k \in 1..Len(files) |-> k]}

\* prioritizeBundleEntrypoints: the order the files are sent in, the entrypoints
\* first and otherwise as they were chosen.
Prioritized(files, E) ==
    LET places == 1..Len(files)
        before(i, j) == IF files[i] \in E <=> files[j] \in E THEN i < j ELSE files[i] \in E
    IN {q \in [places -> places] :
           /\ \A i \in places : \E k \in places : q[k] = i
           /\ \A j, k \in places : j < k => before(q[j], q[k])}

\* The preview's scan found nothing that is there already or in the way.
Unobstructed(files, overwrite) ==
    /\ \A f \in InSeq(files) : ~Blocked(f)
    /\ overwrite \/ InSeq(files) \cap card = {}

\* cs_route_upload_preview_handler, and what the page makes of the answer: only
\* a ZIP stops at what the scan found.
Preview(b) ==
    LET files == sending[b].files IN
    /\ sending[b].pc = "preview"
    /\ IF /\ Supported(files)
          /\ sending[b].kind = "zip" => Unobstructed(files, sending[b].overwrite)
       THEN \E E \in Entrypoints(files) : \E q \in Prioritized(files, E) :
               sending' = [sending EXCEPT ![b].pc = "send",
                                          ![b].files = [k \in 1..Len(files) |-> files[q[k]]]]
       ELSE sending' = [sending EXCEPT ![b] = NoUpload]
    /\ OnlyPage /\ UNCHANGED faults

\* Mutant: everything goes in one request.
NextBatch_Whole(b) == sending[b].files

NextBatch(b) ==
    LET end == sending[b].at + Batch - 1 IN
    SubSeq(sending[b].files, sending[b].at, IF end < Len(sending[b].files) THEN end ELSE Len(sending[b].files))

\* beginUploadFilesBatched: the loop over the batches, then the summary. Which
\* free worker takes the request makes no difference.
SendBatch(b) ==
    LET free == {w \in Workers : worker[w].pc = "free"}
        w == CHOOSE x \in free : TRUE
    IN
    /\ sending[b].pc = "send"
    /\ IF sending[b].at > Len(sending[b].files)
       THEN sending' = [sending EXCEPT ![b].pc = "summary"] /\ UNCHANGED worker
       ELSE /\ free # {}
            /\ worker' = [worker EXCEPT ![w] = [NoUploadWork EXCEPT !.pc = "gate", !.page = b,
                             !.files = NextBatch(b), !.overwrite = sending[b].overwrite]]
            /\ sending' = [sending EXCEPT ![b].pc = "wait", ![b].by = w]
    /\ UNCHANGED <<catalog, card, taken, first, robbed, faults>>

\* uploadedBeforeConflict: 0 if the answer names no file.
UploadedBefore(r) == IF r.path = 0 THEN 0 ELSE r.path - 1

\* The counts after a batch of n files of which some were uploaded.
Counted(b, n, some) ==
    [sending EXCEPT ![b].pc = "send", ![b].by = Nobody, ![b].at = @ + Batch,
                 ![b].uploaded = @ + some, ![b].failed = @ + (n - some)]

ReceiveAnswer(b) ==
    LET w == sending[b].by
        r == worker[w]
    IN
    /\ sending[b].pc = "wait" /\ r.pc = "answer"
    /\ sending' = Counted(b, Len(r.files), IF r.code = "ok" THEN Len(r.files) ELSE UploadedBefore(r))
    /\ worker' = [worker EXCEPT ![w] = NoUploadWork]
    /\ UNCHANGED <<catalog, card, taken, first, robbed, faults>>

\* The connection breaks: the batch counts as failed, the server may go on.
LoseAnswer(b) ==
    LET w == sending[b].by IN
    /\ sending[b].pc = "wait" /\ Fault
    /\ sending' = Counted(b, Len(worker[w].files), 0)
    /\ worker' = [worker EXCEPT ![w].page = Nobody]
    /\ UNCHANGED <<catalog, card, taken, first, robbed>>

Cancel(b) ==
    LET w == sending[b].by IN
    /\ sending[b].pc \in {"send", "wait"} /\ Fault
    /\ sending' = [sending EXCEPT ![b].pc = "summary", ![b].cancelled = TRUE, ![b].by = Nobody]
    /\ worker' = IF w = Nobody THEN worker ELSE [worker EXCEPT ![w].page = Nobody]
    /\ UNCHANGED <<catalog, card, taken, first, robbed>>

CloseSummary(b) ==
    /\ sending[b].pc = "summary" /\ sending' = [sending EXCEPT ![b] = NoUpload]
    /\ OnlyPage /\ UNCHANGED faults

----------------------------------------------------------------------------
(* The server: cs_route_upload_handler *)

AnswerRequest(w, code, path) ==
    worker' = [worker EXCEPT ![w].pc = "answer", ![w].code = code, ![w].path = path]

\* Mutant: only the files of the request count.
HasGame_InRequest(top, files) ==
    \E f \in InSeq(files) : f.dir # <<>> /\ Bundle(f) = top /\ Accepted(Policy, f.name)

\* A bundle has a game in the request or on the card.
HasGame(top, files) ==
    \E f \in InSeq(files) \cup card :
       f.dir # <<>> /\ Bundle(f) = top /\ Accepted(Policy, f.name)

\* cs_upload_rom_scope_rejected
ScopeRejected(files) ==
    \E f \in InSeq(files) : IF f.dir = <<>> THEN ~Accepted(Policy, f.name)
                            ELSE ~HasGame(Bundle(f), files)

\* The files are staged; the gate, then the plan of every file, whose folders
\* are made on the way.
Gate(w) ==
    LET files == worker[w].files
        stuck == {i \in 1..Len(files) : Blocked(files[i])}
    IN
    /\ worker[w].pc = "gate"
    /\ CASE ScopeRejected(files) -> AnswerRequest(w, "formats", 0)
         [] ~ScopeRejected(files) /\ stuck # {} ->
               AnswerRequest(w, "conflict", CHOOSE i \in stuck : \A j \in stuck : i <= j)
         [] OTHER -> worker' = [worker EXCEPT ![w].pc = "put"]
    /\ UNCHANGED <<catalog, card, taken, sending, first, robbed, faults>>

\* cs_upload_promote, cs_upload_promote_replace: the next file goes in place.
PutNext(w) ==
    LET i == worker[w].at
        f == worker[w].files[i]
        b == worker[w].page
    IN
    /\ worker[w].pc = "put"
    /\ IF f \in card /\ ~worker[w].overwrite
       THEN AnswerRequest(w, "conflict", i) /\ UNCHANGED <<card, sending>>
       ELSE /\ card' = card \cup {f}
            /\ sending' = IF b = Nobody THEN sending ELSE [sending EXCEPT ![b].put = @ + 1]
            /\ IF i = Len(worker[w].files) THEN AnswerRequest(w, "ok", 0)
               ELSE worker' = [worker EXCEPT ![w].at = i + 1]
    /\ UNCHANGED <<catalog, taken, first, robbed, faults>>

\* cs_write_upload_errno_response: the card is full or read-only, and the
\* answer names no file.
StorageError(w) ==
    /\ worker[w].pc \in {"gate", "put"} /\ Fault
    /\ AnswerRequest(w, "storage", 0)
    /\ UNCHANGED <<catalog, card, taken, sending, first, robbed>>

\* A request whose browser has gone ends with its answer, or when the rest of
\* its form does not come.
EndAlone(w) ==
    /\ worker[w].page = Nobody /\ worker[w].pc \in {"gate", "answer"}
    /\ worker' = [worker EXCEPT ![w] = NoUploadWork]
    /\ UNCHANGED <<catalog, card, taken, sending, first, robbed, faults>>

\* Another request deletes a file.
TakeAway ==
    /\ Fault /\ \E f \in card : card' = card \ {f}
    /\ robbed' = TRUE
    /\ UNCHANGED <<catalog, taken, sending, worker, first>>

----------------------------------------------------------------------------
(* Specification *)

RomUploadNext ==
    \/ TakeAway
    \/ \E b \in Browsers :
          \/ Choose(b) \/ Preview(b) \/ SendBatch(b) \/ ReceiveAnswer(b) \/ LoseAnswer(b)
          \/ Cancel(b) \/ CloseSummary(b)
    \/ \E w \in Workers : Gate(w) \/ PutNext(w) \/ StorageError(w) \/ EndAlone(w)

RomUploadSpec == RomUploadInit /\ [][RomUploadNext]_romUploadVars

----------------------------------------------------------------------------
(* Properties *)

\* Types of the page's loop and of cs_upload_request; no request is longer than
\* the server takes.
RomUploadTypeOK ==
    /\ card \subseteq MaySend \cup first /\ first \in CardSets /\ robbed \in BOOLEAN
    /\ \A b \in Browsers : LET p == sending[b] IN
          /\ p.pc \in {"idle", "preview", "send", "wait", "summary"}
          /\ InSeq(p.files) \subseteq MaySend /\ p.overwrite \in BOOLEAN
          /\ p.by \in Workers \cup {Nobody} /\ (p.pc = "wait" <=> p.by # Nobody)
          /\ p.uploaded + p.failed <= Len(p.files) /\ p.uploaded >= 0 /\ p.failed >= 0
    /\ \A w \in Workers : LET r == worker[w] IN
          /\ r.pc \in {"free", "gate", "put", "answer"}
          /\ r.page \in Browsers \cup {Nobody}
          /\ Len(r.files) <= Batch /\ r.path \in 0..Len(r.files)
    /\ faults \in 0..MaxFaults

Landed == card \ first

\* What one row of the catalog lists by itself.
RowLists(r, n) ==
    n \in r.names \/ n.ext \in r.extensions \cup r.playlists
                  \/ (r.mode = "pass_through" /\ n.ext \in r.archives)

\* An upload "will not vanish after a rescan" (cs_rom_policy.h): a file outside
\* a bundle that landed on a platform with a policy is listed by one row of the
\* catalog as that row stands, and ignored by none.
LandedIsListed ==
    LET rows == RowsFor(catalog, Platform) IN
    \A f \in Landed : f.dir = <<>> /\ Policy.enforced =>
        /\ \E r \in rows : RowLists(r, f.name)
        /\ \A r \in rows : f.name \notin r.ignored

\* No failure leaves a bundle's companions without a game, whatever is sent in
\* which batch: a game goes first and is there before they land (where OneGame
\* holds).
CompanionHasGame ==
    ~robbed =>
        \A f \in Landed : f.dir # <<>> =>
            \E g \in card : g.dir # <<>> /\ Bundle(g) = Bundle(f) /\ Accepted(Policy, g.name)

\* What CompanionHasGame takes for granted: no bundle that is chosen has two
\* games. The entrypoint that is sent first may fail where a second game, sent
\* after its companions, satisfies the gate.
OneGame ==
    \A c \in Catalogs, s \in Selections : LET p == PolicyFor(c, Platform) IN
        p.enforced => \A f, g \in InSeq(s.files) :
            (f.dir # <<>> /\ g.dir # <<>> /\ Bundle(f) = Bundle(g)
             /\ Accepted(p, f.name) /\ Accepted(p, g.name)) => f = g

\* A selection that the preview let pass is not refused for its formats in a
\* later batch, unless an earlier batch failed or a game was removed.
PreviewHolds ==
    \A b \in Browsers :
        (sending[b].pc = "wait" /\ worker[sending[b].by].code = "formats") =>
            sending[b].failed > 0 \/ robbed

\* "A summary of what actually landed on disk": an upload that was not cancelled
\* and whose requests were all answered counts the files that landed.
SummaryIsTrue ==
    \A b \in Browsers : sending[b].pc = "summary" /\ ~sending[b].cancelled /\ faults = 0
        => sending[b].uploaded = sending[b].put
=============================================================================
