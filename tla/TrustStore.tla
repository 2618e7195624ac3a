----------------------------- MODULE TrustStore -----------------------------
(***************************************************************************)
(* The trusted-browser store: the table of auth.c and the helpers of       *)
(* server.c that keep its memory copy and its file in step.  Everything    *)
(* here is an operator on values; TrustServer turns them into actions.     *)
(*                                                                         *)
(* A store is a set of items, one per browser.  A token stands for itself  *)
(* and for its SHA-256 hash; tokens are numbered in the order minted.      *)
(***************************************************************************)
EXTENDS Integers, FiniteSets

CONSTANTS
    Browsers,        \* browser ids
    Capacity,        \* CS_TRUST_STORE_CAPACITY
    JsmnTokens,      \* size of the parser's token array in the loader
    MaxAge,          \* CS_SESSION_COOKIE_MAX_AGE_SECONDS
    IdleTimeout,     \* CS_SESSION_IDLE_TIMEOUT_SECONDS
    TouchInterval,   \* CS_TRUST_STORE_TOUCH_INTERVAL_SECONDS
    PruneInterval,   \* CS_TRUST_STORE_PRUNE_INTERVAL_SECONDS
    FlushInterval    \* CS_TRUST_STORE_FLUSH_INTERVAL_SECONDS

ASSUME StoreAssumption ==
    /\ Capacity \in Nat \ {0}
    /\ JsmnTokens \in Nat
    /\ MaxAge \in Nat \ {0}
    /\ IdleTimeout \in Nat \ {0}
    /\ TouchInterval \in Nat \ {0}
    /\ PruneInterval \in Nat
    /\ FlushInterval \in Nat

Item == [browser: Browsers, token: Nat, expires: Nat, seen: Nat]

(***************************************************************************)
(* The globals behind g_server_state_mutex that concern the store, with    *)
(* the file trusted-clients.json beside them.                              *)
(***************************************************************************)
Trust == [mem: SUBSET Item,        \* g_trust_store
          file: SUBSET Item,       \* trusted-clients.json
          dirty: BOOLEAN,          \* g_trust_store_dirty
          prunedAt: Nat,           \* g_last_trust_store_prune_at
          flushedAt: Nat]          \* g_last_trust_store_flush_attempt_at

\* What a fresh process holds before it loads the file.
Unloaded(file) ==
    [mem |-> {}, file |-> file, dirty |-> FALSE, prunedAt |-> 0, flushedAt |-> 0]

TokensOf(store) == {i.token : i \in store}

Active(i, now) ==
    /\ i.expires > now
    /\ ~(i.seen > 0 /\ i.seen <= now - IdleTimeout)

\* Two copies of one grant, the first one used last.
Covers(i, j) ==
    /\ i.browser = j.browser /\ i.token = j.token /\ i.expires = j.expires
    /\ j.seen <= i.seen

-----------------------------------------------------------------------------
(* The table *)

\* Mutant: the lifetime is subtracted.
NewItem_Backwards(b, token, now) ==
    [browser |-> b, token |-> token, expires |-> now - MaxAge, seen |-> now]

NewItem(b, token, now) ==
    [browser |-> b, token |-> token, expires |-> now + MaxAge, seen |-> now]

Oldest(store) == {i \in store : \A j \in store : i.expires <= j.expires}

\* What adding a browser can leave: its own row is reused, else a free row is
\* taken, else one of the rows that expire first gives way.
AddResults(store, b, token, now) ==
    LET others == {i \in store : i.browser # b}
        new    == NewItem(b, token, now)
    IN  IF others # store \/ Cardinality(store) < Capacity
        THEN {others \cup {new}}
        ELSE {(store \ {victim}) \cup {new} : victim \in Oldest(store)}

RemoveToken(store, token) == {i \in store : i.token # token}

\* The file is a JSON object of one array: three parser tokens, and for each
\* client an object with four keys and four values.
Loadable(file) == 3 + 9 * Cardinality(file) <= JsmnTokens

-----------------------------------------------------------------------------
(* Memory and file.  ok says whether the save, if there is one, succeeds. *)

FlushDue(T, now) ==
    ~(T.flushedAt > 0 /\ now >= T.flushedAt /\ now - T.flushedAt < FlushInterval)

Flush(T, now, force, ok) ==
    IF ~T.dirty \/ (~force /\ ~FlushDue(T, now)) THEN T
    ELSE IF ok THEN [T EXCEPT !.file = T.mem, !.dirty = FALSE, !.flushedAt = now]
    ELSE [T EXCEPT !.flushedAt = now]

\* Mutant: memory now, file at the next flush.
Commit_MemoryOnly(T, store, now, ok) ==
    [T EXCEPT !.mem = store, !.dirty = TRUE]

\* Mutant: memory is replaced whether or not the file was written.
Commit_Unchecked(T, store, now, ok) ==
    [T EXCEPT !.mem = store, !.file = IF ok THEN store ELSE @]

\* The file is written first; memory follows only when that worked.
Commit(T, store, now, ok) ==
    IF ok THEN [T EXCEPT !.mem = store, !.file = store, !.dirty = FALSE, !.flushedAt = now]
    ELSE T

\* A revocation that was saved also makes the next prune due at once.
CommitRemoval(T, store, now, ok) ==
    LET committed == Commit(T, store, now, ok)
    IN  IF ok THEN [committed EXCEPT !.prunedAt = 0] ELSE committed

RemoveInactive(T, now) ==
    LET kept == {i \in T.mem : Active(i, now)}
    IN  [T EXCEPT !.mem = kept, !.dirty = T.dirty \/ kept # T.mem]

\* Drop what is inactive and, if that dropped anything, try to save it.
Sweep(T, now, ok) ==
    LET swept == RemoveInactive(T, now)
    IN  IF swept.mem = T.mem THEN swept ELSE Flush(swept, now, FALSE, ok)

PruneDue(T, now) ==
    ~(T.prunedAt > 0 /\ now >= T.prunedAt /\ now - T.prunedAt < PruneInterval)

Prune(T, now, ok) ==
    IF PruneDue(T, now) THEN Sweep([T EXCEPT !.prunedAt = now], now, ok) ELSE T

Load(T, now, ok) == Sweep([Unloaded(T.file) EXCEPT !.mem = T.file], now, ok)

\* The item a presented token is good for, if any.
Matches(T, token, now) == {i \in T.mem : i.token = token /\ Active(i, now)}

\* Mutant: the use is recorded before the item is found to be inactive.
Touch_Blind(T, token, now, ok) ==
    [T EXCEPT !.mem = {IF i.token = token THEN [i EXCEPT !.seen = now] ELSE i : i \in @},
              !.dirty = TRUE]

\* A use of the item moves its last_seen_at, at most once per TouchInterval.
Touch(T, token, now, ok) ==
    LET due == {i \in Matches(T, token, now) :
                    ~(i.seen > 0 /\ now - i.seen < TouchInterval)}
    IN  IF due = {} THEN T
        ELSE Flush([T EXCEPT !.mem = (T.mem \ due) \cup {[i EXCEPT !.seen = now] : i \in due},
                             !.dirty = TRUE],
                   now, FALSE, ok)

=============================================================================
