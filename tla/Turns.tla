-------------------------------- MODULE Turns --------------------------------
(***************************************************************************)
(* What the proxy promises about the requests that share one session key,  *)
(* with no tokens, uploads, channels, attempts or deferred calls:          *)
(*                                                                         *)
(*  - a request is open, and then completed or failed, once;               *)
(*  - it is turned away only while another one holds the conversation;     *)
(*  - only the holder speaks to the upstream, and only while it is open:   *)
(*    once for its turn, with nothing that the conversation has been sent  *)
(*    before, and then to repair it, with nothing new, a bounded number of *)
(*    times;                                                               *)
(*  - a turn the upstream was asked is completed, unless the asking        *)
(*    failed; one it was not asked fails;                                  *)
(*  - the conversation is replaced or forgotten only between two turns.    *)
(*                                                                         *)
(* Executor implements this specification.                                 *)
(***************************************************************************)
EXTENDS Integers, Sequences

CONSTANTS
    Reqs,       \* requests that may be open at once
    MaxRepairs  \* posts that repair a turn

VARIABLES
    reply,      \* reply[r]: "none" without a request, "open", "completed" or "failed"
    holders,    \* the requests that hold the conversation
    asked,      \* asked[r]: posts the upstream has accepted for r
    conv,       \* the conversation remembered, 0 if none
    made,       \* number of conversations made
    sent        \* what the upstream was sent, in order

vars == <<reply, holders, asked, conv, made, sent>>

Ended == {"completed", "failed"}

Init ==
    /\ reply = [r \in Reqs |-> "none"]
    /\ holders = {}
    /\ asked = [r \in Reqs |-> 0]
    /\ conv = 0
    /\ made = 0
    /\ sent = <<>>

Ask(r) ==
    /\ reply[r] = "none"
    /\ reply' = [reply EXCEPT ![r] = "open"]
    /\ UNCHANGED <<holders, asked, conv, made, sent>>

TurnAway(r) ==
    /\ reply[r] = "open"
    /\ r \notin holders /\ holders # {}
    /\ reply' = [reply EXCEPT ![r] = "failed"]
    /\ UNCHANGED <<holders, asked, conv, made, sent>>

\* A request that begins anew drops the conversation.
Take(r) ==
    /\ reply[r] = "open"
    /\ holders = {}
    /\ holders' = {r}
    /\ conv' \in {conv, 0}
    /\ UNCHANGED <<reply, asked, made, sent>>

Speaks(r) == r \in holders /\ reply[r] = "open"

Converse(r) ==
    /\ Speaks(r)
    /\ conv = 0
    /\ made' = made + 1
    /\ conv' = made'
    /\ UNCHANGED <<reply, holders, asked, sent>>

Told == UNION {sent[n].items : n \in {m \in DOMAIN sent : sent[m].conv = conv}}

Latest == sent[Len(sent)]

\* One post is added, to the conversation.
Adds(repair) ==
    /\ Len(sent') = Len(sent) + 1
    /\ \A n \in DOMAIN sent : sent'[n] = sent[n]
    /\ conv # 0
    /\ Latest'.conv = conv /\ Latest'.repair = repair

\* The turn itself; the request fails if its reply is lost.
Post(r) ==
    /\ Speaks(r)
    /\ asked[r] = 0
    /\ Adds(FALSE) /\ Latest'.items \cap Told = {}
    /\ asked' = [asked EXCEPT ![r] = 1]
    /\ \E outcome \in {"open", "failed"} : reply' = [reply EXCEPT ![r] = outcome]
    /\ UNCHANGED <<holders, conv, made>>

Repair(r) ==
    /\ Speaks(r)
    /\ asked[r] \in 1..MaxRepairs
    /\ Adds(TRUE) /\ Latest'.items \subseteq Told
    /\ asked' = [asked EXCEPT ![r] = @ + 1]
    /\ UNCHANGED <<reply, holders, conv, made>>

Complete(r) ==
    /\ Speaks(r)
    /\ asked[r] > 0
    /\ reply' = [reply EXCEPT ![r] = "completed"]
    /\ UNCHANGED <<holders, asked, conv, made, sent>>

\* The conversation may be released at once.
Fail(r) ==
    /\ Speaks(r)
    /\ asked[r] = 0
    /\ reply' = [reply EXCEPT ![r] = "failed"]
    /\ holders' \in {holders, holders \ {r}}
    /\ UNCHANGED <<asked, conv, made, sent>>

Release(r) ==
    /\ r \in holders
    /\ reply[r] \in Ended
    /\ holders' = holders \ {r}
    /\ UNCHANGED <<reply, asked, conv, made, sent>>

\* The answer has been read.
Leave(r) ==
    /\ reply[r] \in Ended
    /\ r \notin holders
    /\ reply' = [reply EXCEPT ![r] = "none"]
    /\ asked' = [asked EXCEPT ![r] = 0]
    /\ UNCHANGED <<holders, conv, made, sent>>

Forget ==
    /\ holders = {}
    /\ conv' = 0
    /\ UNCHANGED <<reply, holders, asked, made, sent>>

\* The proxy dies: nobody is answered any more.
Die ==
    /\ reply' = [r \in Reqs |-> "none"]
    /\ holders' = {}
    /\ asked' = [r \in Reqs |-> 0]
    /\ conv' = 0
    /\ UNCHANGED <<made, sent>>

Next ==
    \/ \E r \in Reqs : \/ Ask(r) \/ TurnAway(r) \/ Take(r) \/ Converse(r) \/ Post(r)
                       \/ Repair(r) \/ Complete(r) \/ Fail(r) \/ Release(r) \/ Leave(r)
    \/ Forget
    \/ Die

Spec == Init /\ [][Next]_vars
=============================================================================
