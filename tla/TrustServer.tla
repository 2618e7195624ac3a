---------------------------- MODULE TrustServer ----------------------------
(***************************************************************************)
(* Pairing and trust: the state of server.c behind g_server_state_mutex,   *)
(* the request threads of CivetWeb that pair, authorize and revoke         *)
(* (routes_auth.c), the UI thread of the handheld, and the process that    *)
(* holds them, which may stop or die at any point and be started again.    *)
(*                                                                         *)
(* One critical section of the code is one action; a handler that takes    *)
(* the mutex more than once is a thread with a program counter.  A pairing *)
(* code or a QR token is represented by the number of its issue: what a    *)
(* browser presents is either the current issue or wrong.  Trust tokens    *)
(* are numbered as they are minted.                                        *)
(***************************************************************************)
EXTENDS TrustStore

CONSTANTS
    Threads,         \* CivetWeb worker threads
    NoBrowser,       \* not a browser id
    MaxFailures,     \* CS_PAIRING_MAX_FAILURES
    Lockout,         \* CS_PAIRING_LOCKOUT_SECONDS
    QrTtl,           \* CS_QR_PAIR_TOKEN_TTL_SECONDS
    Lag,             \* how old a clock reading may be once its reader holds the mutex
    MaxClock,        \* bound: ticks of time(NULL)
    MaxIssued,       \* bound: codes and QR tokens issued
    MaxMinted        \* bound: trust tokens minted

ASSUME ServerAssumption ==
    /\ NoBrowser \notin Browsers
    /\ MaxFailures \in Nat \ {0}
    /\ Lockout \in Nat \ {0}
    /\ QrTtl \in Nat \ {0}
    /\ Lag \in Nat
    /\ MaxClock \in Nat
    /\ MaxIssued \in Nat
    /\ MaxMinted \in Nat

VARIABLES
    clock,       \* time(NULL)
    up,          \* g_context is set: the server answers requests
    daemonized,  \* the process was started as the background server
    trust,       \* the trust store, its bookkeeping and its file
    pin,         \* g_pairing_code, g_pairing_failures, g_pairing_throttle_until
    qr,          \* g_qr_pair_token, its expiry, its failures and its throttle
    thr,         \* what each worker thread is in the middle of
    issued,      \* codes and QR tokens issued so far
    minted,      \* trust tokens minted so far
    admitted,    \* history: which issue each token was granted for
    revoked,     \* history: tokens a revocation reported gone
    refused      \* history: tokens an authorization turned down

vars == <<clock, up, daemonized, trust, pin, qr, thr,
          issued, minted, admitted, revoked, refused>>

history == <<admitted, revoked, refused>>

\* A worker between requests, and between the critical sections of one.
Idle == [pc |-> "idle", browser |-> NoBrowser, issue |-> 0, token |-> 0]
Pairing(b, n)   == [pc |-> "trust", browser |-> b, issue |-> n, token |-> 0]
Paired          == [pc |-> "count", browser |-> NoBrowser, issue |-> 0, token |-> 0]
Revoking(token) == [pc |-> "revoke", browser |-> NoBrowser, issue |-> 0, token |-> token]

NoPin == [issue |-> 0, failures |-> 0, until |-> 0]
NoQr  == [issue |-> 0, expires |-> 0, failures |-> 0, until |-> 0]

\* time(NULL) is read before the mutex is taken.
Readings == {n \in 1..clock : n >= clock - Lag}

ThreadState ==
    {s \in [pc: {"idle", "trust", "count", "revoke"}, browser: Browsers \cup {NoBrowser},
            issue: Nat, token: Nat] :
        s.pc = "trust" => s.browser \in Browsers}

TypeOK ==
    /\ clock \in Nat \ {0}
    /\ up \in BOOLEAN
    /\ daemonized \in BOOLEAN
    /\ trust \in Trust
    /\ pin \in [issue: Nat, failures: Nat, until: Nat]
    /\ qr \in [issue: Nat, expires: Nat, failures: Nat, until: Nat]
    /\ thr \in [Threads -> ThreadState]
    /\ issued \in Nat
    /\ minted \in Nat
    /\ admitted \subseteq [issue: Nat, token: Nat]
    /\ revoked \subseteq Nat
    /\ refused \subseteq Nat

Init ==
    /\ clock = 1
    /\ up = FALSE
    /\ daemonized \in BOOLEAN
    /\ trust = Unloaded({})
    /\ pin = NoPin
    /\ qr = NoQr
    /\ thr = [t \in Threads |-> Idle]
    /\ issued = 0
    /\ minted = 0
    /\ admitted = {}
    /\ revoked = {}
    /\ refused = {}

-----------------------------------------------------------------------------
(* The pairing code and the QR token *)

\* A new code is shown; its attempts start from nothing.
FreshPin(n) == [issue |-> n, failures |-> 0, until |-> 0]

ClearedToken(q)  == [q EXCEPT !.issue = 0, !.expires = 0]
ClearedQr        == NoQr

\* Mutant: only the answer that reaches the limit starts a lockout.
Failed_Once(p, now) ==
    [p EXCEPT !.failures = p.failures + 1,
              !.until = IF p.failures + 1 = MaxFailures THEN now + Lockout ELSE p.until]

\* One more wrong answer; from the limit on, each one renews the lockout.
Failed(p, now) ==
    [p EXCEPT !.failures = p.failures + 1,
              !.until = IF p.failures + 1 >= MaxFailures THEN now + Lockout ELSE p.until]

\* Mutant: a used code gets new attempts but stays the same code.
IssuePin_Kept ==
    /\ issued < MaxIssued
    /\ issued' = issued + 1
    /\ pin' = FreshPin(pin.issue)

\* cs_server_randomize_pairing_code_locked and its callers
IssuePin ==
    /\ issued < MaxIssued
    /\ issued' = issued + 1
    /\ pin' = FreshPin(issued + 1)

-----------------------------------------------------------------------------
(* Process life *)

\* cs_server_start: the store is loaded and the code set under one lock, then
\* the listener is opened.  /dev/urandom and the bind may fail.
Start ==
    /\ ~up
    /\ \A t \in Threads : thr[t] = Idle
    /\ \/ /\ ~Loadable(trust.file)
          /\ up' = FALSE
          /\ UNCHANGED <<trust, pin, qr, issued>>
       \/ /\ Loadable(trust.file)
          /\ \E ok \in BOOLEAN : trust' = Load(trust, clock, ok)
          /\ \/ /\ up' = FALSE          \* no randomness for a code
                /\ UNCHANGED <<pin, qr, issued>>
             \/ /\ up' \in BOOLEAN      \* mg_start may fail to bind
                /\ IssuePin
                /\ qr' = ClearedQr
    /\ UNCHANGED <<clock, daemonized, thr, minted, history>>

\* cs_server_stop: mg_stop joins the workers, then dirty memory is saved.
Stop ==
    /\ up
    /\ \A t \in Threads : thr[t] = Idle
    /\ up' = FALSE
    /\ \E ok \in BOOLEAN : trust' = Flush(trust, clock, TRUE, ok)
    /\ qr' = ClearedToken(qr)
    /\ UNCHANGED <<clock, daemonized, pin, thr, issued, minted, history>>

\* The process ends: it exits, or it is killed in the middle of anything.
\* Only the file is left for the next one, which may be of either kind.
Die ==
    /\ up' = FALSE
    /\ daemonized' \in BOOLEAN
    /\ trust' = Unloaded(trust.file)
    /\ pin' = NoPin
    /\ qr' = NoQr
    /\ thr' = [t \in Threads |-> Idle]
    /\ UNCHANGED <<clock, issued, minted, history>>

Tick ==
    /\ clock < MaxClock
    /\ clock' = clock + 1
    /\ UNCHANGED <<up, daemonized, trust, pin, qr, thr, issued, minted, history>>

-----------------------------------------------------------------------------
(* The handheld's screen (only a foreground process has one) *)

\* cs_server_get_trusted_count
CountTrusted ==
    /\ up
    /\ \E now \in Readings, ok \in BOOLEAN : trust' = Prune(trust, now, ok)
    /\ UNCHANGED <<clock, up, daemonized, pin, qr, thr, issued, minted, history>>

\* cs_server_issue_qr_pair_token
IssueQr ==
    /\ up /\ ~daemonized
    /\ issued < MaxIssued
    /\ issued' = issued + 1
    /\ qr' = [issue |-> issued + 1, expires |-> clock + QrTtl, failures |-> 0, until |-> 0]
    /\ UNCHANGED <<clock, up, daemonized, trust, pin, thr, minted, history>>

\* cs_server_qr_pair_token_is_active, polled while the QR screen is shown.
PollQr ==
    /\ up /\ ~daemonized
    /\ \E now \in Readings : qr' = IF qr.expires <= now THEN ClearedQr ELSE qr
    /\ UNCHANGED <<clock, up, daemonized, trust, pin, thr, issued, minted, history>>

\* cs_server_reset_session: the code and the QR go first; if the empty store
\* cannot be saved, the browsers stay trusted.
RevokeAll ==
    /\ up /\ ~daemonized
    /\ IssuePin
    /\ qr' = ClearedQr
    /\ \E ok \in BOOLEAN :
          /\ trust' = CommitRemoval(trust, {}, clock, ok)
          /\ revoked' = IF ok THEN revoked \cup TokensOf(trust.mem) \cup TokensOf(trust.file)
                        ELSE revoked
    /\ UNCHANGED <<clock, up, daemonized, thr, minted, admitted, refused>>

-----------------------------------------------------------------------------
(* POST /api/pair *)

\* cs_server_consume_pairing_code: a right code is replaced at once.
PairByCode(t, b) ==
    /\ up /\ ~daemonized
    /\ thr[t] = Idle
    /\ \E now \in Readings :
        /\ pin.until <= now
        /\ \/ /\ IssuePin
              /\ thr' = [thr EXCEPT ![t] = Pairing(b, pin.issue)]
           \/ /\ pin' = Failed(pin, now)
              /\ UNCHANGED <<thr, issued>>
    /\ UNCHANGED <<clock, up, daemonized, trust, qr, minted, history>>

\* cs_server_consume_qr_pair_token: a right token is cleared and the code is
\* replaced too; without randomness the token is spent and nobody paired.
PairByQr(t, b) ==
    /\ up /\ ~daemonized
    /\ thr[t] = Idle
    /\ qr.issue # 0
    /\ \E now \in Readings :
        /\ qr.until <= now
        /\ \/ /\ qr.expires <= now
              /\ qr' = ClearedQr
              /\ UNCHANGED <<pin, thr, issued>>
           \/ /\ qr.expires > now
              /\ qr' = Failed(qr, now)
              /\ UNCHANGED <<pin, thr, issued>>
           \/ /\ qr.expires > now
              /\ qr' = ClearedQr
              /\ \/ UNCHANGED <<pin, thr, issued>>
                 \/ /\ IssuePin
                    /\ thr' = [thr EXCEPT ![t] = Pairing(b, qr.issue)]
    /\ UNCHANGED <<clock, up, daemonized, trust, minted, history>>

\* cs_server_trust_browser: the second critical section of the handler.
TrustBrowser(t) ==
    /\ thr[t].pc = "trust"
    /\ minted < MaxMinted
    /\ \E now \in Readings, okPrune \in BOOLEAN, okCommit \in BOOLEAN :
        LET pruned == Prune(trust, now, okPrune) IN
        /\ \E next \in AddResults(pruned.mem, thr[t].browser, minted + 1, clock) :
               trust' = Commit(pruned, next, now, okCommit)
        /\ \/ /\ okCommit
              /\ qr' = ClearedQr
              /\ minted' = minted + 1
              /\ admitted' = admitted \cup {[issue |-> thr[t].issue, token |-> minted + 1]}
              /\ thr' = [thr EXCEPT ![t] = Paired]
           \/ /\ ~okCommit
              /\ thr' = [thr EXCEPT ![t] = Idle]
              /\ UNCHANGED <<qr, minted, admitted>>
    /\ UNCHANGED <<clock, up, daemonized, pin, issued, revoked, refused>>

\* The reply of the handler counts the trusted browsers once more.
ReplyPaired(t) ==
    /\ thr[t].pc = "count"
    /\ \E now \in Readings, ok \in BOOLEAN : trust' = Prune(trust, now, ok)
    /\ thr' = [thr EXCEPT ![t] = Idle]
    /\ UNCHANGED <<clock, up, daemonized, pin, qr, issued, minted, history>>

-----------------------------------------------------------------------------
(* Requests with a cookie *)

\* A clock reading that is still in use would let the token in.
StillGood(token) == Matches(trust, token, clock - Lag) # {}

\* cs_server_cookie_is_valid, the first thing every protected route does.
CheckCookie(token, now, okPrune, okTouch, accepted) ==
    LET pruned == Prune(trust, now, okPrune) IN
    /\ accepted = (Matches(pruned, token, now) # {})
    /\ trust' = Touch(pruned, token, now, okTouch)
    /\ refused' = IF accepted \/ StillGood(token) THEN refused ELSE refused \cup {token}

Authorize(token) ==
    /\ up
    /\ \E now \in Readings, okPrune, okTouch, accepted \in BOOLEAN :
          CheckCookie(token, now, okPrune, okTouch, accepted)
    /\ UNCHANGED <<clock, up, daemonized, pin, qr, thr, issued, minted, admitted, revoked>>

\* POST /api/revoke: the cookie is checked under one lock ...
RevokeRequest(t, token) ==
    /\ up
    /\ thr[t] = Idle
    /\ \E now \in Readings, okPrune, okTouch, accepted \in BOOLEAN :
          /\ CheckCookie(token, now, okPrune, okTouch, accepted)
          /\ thr' = IF accepted
                    THEN [thr EXCEPT ![t] = Revoking(token)]
                    ELSE thr
    /\ UNCHANGED <<clock, up, daemonized, pin, qr, issued, minted, admitted, revoked>>

\* ... and cs_server_revoke_token_locked removes it under another.
RevokeToken(t) ==
    /\ thr[t].pc = "revoke"
    /\ \E okPrune, okCommit \in BOOLEAN :
        LET pruned == Prune(trust, clock, okPrune)
            next   == RemoveToken(pruned.mem, thr[t].token) IN
        IF next = pruned.mem
        THEN /\ trust' = pruned
             /\ revoked' = revoked \cup {thr[t].token}
        ELSE /\ trust' = CommitRemoval(pruned, next, clock, okCommit)
             /\ revoked' = IF okCommit THEN revoked \cup {thr[t].token} ELSE revoked
    /\ thr' = [thr EXCEPT ![t] = Idle]
    /\ UNCHANGED <<clock, up, daemonized, pin, qr, issued, minted, admitted, refused>>

-----------------------------------------------------------------------------

Request(t) ==
    \/ \E b \in Browsers : PairByCode(t, b) \/ PairByQr(t, b)
    \/ TrustBrowser(t)
    \/ ReplyPaired(t)
    \/ \E token \in 1..minted : RevokeRequest(t, token)
    \/ RevokeToken(t)

Next ==
    \/ Start \/ Stop \/ Die \/ Tick
    \/ CountTrusted \/ IssueQr \/ PollQr \/ RevokeAll
    \/ \E token \in 1..minted : Authorize(token)
    \/ \E t \in Threads : Request(t)

Spec == Init /\ [][Next]_vars

-----------------------------------------------------------------------------
(* Properties *)

\* "PINs and QR links are single-use": no two tokens are ever granted for one
\* issue of a code or of a QR token, whatever the two-step pair handlers of
\* several workers, new codes, new QR tokens and restarts do in between.
SingleUse == \A a, b \in admitted : a.issue = b.issue => a = b

\* Why it holds: an issue is live (shown on the handheld), or it is spent.  A
\* spent one is in the hands of one worker, or has become one token.
Spent(n) == n \in 1..issued /\ n # pin.issue /\ n # qr.issue

Holds(t) == thr[t].pc = "trust"

IssueInv ==
    /\ up => pin.issue # 0
    /\ pin.issue <= issued /\ qr.issue <= issued
    /\ pin.issue # 0 => pin.issue # qr.issue
    /\ \A t \in Threads : Holds(t) => Spent(thr[t].issue)
    /\ \A a \in admitted : Spent(a.issue)
    /\ \A t, u \in Threads : Holds(t) /\ Holds(u) /\ thr[t].issue = thr[u].issue => t = u
    /\ \A t \in Threads, a \in admitted : Holds(t) => thr[t].issue # a.issue
    /\ SingleUse

\* Once a revocation has been reported (the browser's own, or Revoke Trusted
\* Browsers), no copy of its item anywhere can be accepted again: not after a
\* failed save, not after a crash brings back the file.
RevokedStaysOut ==
    \A i \in trust.mem \cup trust.file : i.token \in revoked => ~Active(i, clock)

\* Every browser memory trusts is on disk, with the same token and lifetime
\* and a last use that is at most staler: a crash logs nobody out early
\* except by the uses not yet flushed.
TrustIsDurable == \A i \in trust.mem : \E j \in trust.file : Covers(i, j)

\* Why the two hold: the file keeps an active grant only if memory has it too,
\* so a token that is not in memory cannot come back from the file.
TrustInv ==
    /\ \A i \in trust.mem \cup trust.file : i.seen >= 1 /\ i.token <= minted
    /\ \A n \in revoked : n <= minted
    /\ \A t \in Threads : thr[t].pc = "revoke" => thr[t].token <= minted
    /\ \A t \in Threads : thr[t].pc # "idle" => up
    /\ TrustIsDurable
    /\ up => \A j \in trust.file : Active(j, clock) => \E i \in trust.mem : Covers(i, j)
    /\ TokensOf(trust.mem) \cap revoked = {}
    /\ RevokedStaysOut

\* A token that was once turned down (expired, idle, evicted, replaced or
\* revoked), and not only by a clock ahead of others', is never good again.
RefusedStaysOut ==
    \A i \in trust.mem \cup trust.file : i.token \in refused => ~Active(i, clock)

\* The lockout bounds guessing: every wrong answer beyond the first MaxFailures
\* has cost a whole Lockout, although workers read the clock before they take
\* the mutex.
GuessBudget ==
    /\ (pin.failures - MaxFailures) * Lockout <= clock - 1
    /\ (qr.failures - MaxFailures) * Lockout <= clock - 1

\* Why it holds: from MaxFailures on, the throttle is ahead of the answers
\* given, and an answer waits for it.
Throttled(p) ==
    p.failures >= MaxFailures => (p.failures - MaxFailures + 1) * Lockout <= p.until - 1

GuessInv == GuessBudget /\ Throttled(pin) /\ Throttled(qr)

\* What the server wrote it can read back: it can always be started again.
FileLoads == Loadable(trust.file)

=============================================================================
