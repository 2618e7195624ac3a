---------------------------- MODULE MCFullHouse ----------------------------
(* TrustServer at its real sizes: as many browsers as the table has rows, one *)
(* after the other.  Browsers are numbered and pair in that order, nobody is  *)
(* revoked and time stands still, so that the space stays a narrow line.      *)
EXTENDS TrustServer

InOrder ==
    /\ \A i \in trust.mem : i.browser = i.token
    /\ \A t \in Threads : thr[t].browser \in {NoBrowser, minted + 1}
    /\ Cardinality(trust.file) = minted
    /\ issued <= minted + 2
    /\ \A a \in admitted : a.issue = a.token
    /\ qr.issue = 0
    /\ pin.failures = 0

FillSpec == Init /\ [][Next /\ InOrder']_vars
=============================================================================
