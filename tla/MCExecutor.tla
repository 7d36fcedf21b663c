----------------------------- MODULE MCExecutor -----------------------------
(* Executor on a small instance.                                           *)
EXTENDS Executor, TLC

\* Request slots are interchangeable; no run with a liveness property uses it.
Symmetry == Permutations(Reqs)

\* What forwarding depends on, where every request is a call of Execute.  No
\* guard reads how the upstream stream ended, the numbers of requests and
\* conversations, which repair posts were accepted (they repeat items of their
\* turn), what an abandoned conversation was sent, item by item, or the answer to
\* a client that left.  So states that differ in these alone have the same
\* future, and ForwardedOnce, which only a post to the session's conversation can
\* break, and NothingSkipped hold in all of them or in none.
Matters(r) ==
    IF client.waiting = r THEN [req[r] EXCEPT !.cut = FALSE, !.id = 0]
    ELSE IF req[r].pc \in {"close", "done"} THEN [NoRequest EXCEPT !.pc = req[r].pc]
    ELSE [req[r] EXCEPT !.cut = FALSE, !.id = 0, !.out = <<>>, !.recv = <<>>]

SentHere ==
    LET turns == SelectSeq(posts, LAMBDA p : ~p.repair /\ p.conv = session.conversationID)
    IN  [n \in DOMAIN turns |-> turns[n].items]

View ==
    <<client, [session EXCEPT !.conversationID = IF @ = NoConv THEN 0 ELSE 1], losses,
      [r \in Reqs |-> Matters(r)], SentHere, Posted, gone>>
=============================================================================
