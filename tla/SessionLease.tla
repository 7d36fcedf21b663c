---------------------------- MODULE SessionLease ----------------------------
(***************************************************************************)
(* What the in-memory session store promises the rest of the proxy, with   *)
(* no pointers, no mutex and no sweep: every session key is an exclusive   *)
(* lease on the id of one upstream conversation.                           *)
(*                                                                         *)
(*  - at most one request holds the lease of a key;                        *)
(*  - only the holder writes the conversation id;                          *)
(*  - the conversation id is forgotten only while nobody holds the lease   *)
(*    and more than TTL after the key was last asked for or released.      *)
(*                                                                         *)
(* SessionStore implements this specification.                             *)
(***************************************************************************)
EXTENDS Integers

CONSTANTS
    Keys,       \* session keys: prompt_cache_key, or the response id without one
    Threads,    \* goroutines that serve requests
    Convs,      \* ids of upstream conversations
    NoConv,     \* the empty conversation id
    TTL         \* how long an unused session is kept

VARIABLES
    holders,    \* holders[k]: the requests that hold the lease of k
    conv,       \* conv[k]: the conversation remembered for k
    lastUse,    \* lastUse[k]: when k was last asked for or released, 0 if unknown
    now         \* the clock

vars == <<holders, conv, lastUse, now>>

Init ==
    /\ holders = [k \in Keys |-> {}]
    /\ conv = [k \in Keys |-> NoConv]
    /\ lastUse = [k \in Keys |-> 0]
    /\ now = 0

\* A request names k: granted or not, that counts as a use.
Ask(k) ==
    /\ lastUse' = [lastUse EXCEPT ![k] = now]
    /\ UNCHANGED <<holders, conv, now>>

Acquire(t, k) ==
    /\ holders[k] = {}
    /\ \A j \in Keys : t \notin holders[j]
    /\ holders' = [holders EXCEPT ![k] = {t}]
    /\ lastUse' = [lastUse EXCEPT ![k] = now]
    /\ UNCHANGED <<conv, now>>

Write(t, k, c) ==
    /\ t \in holders[k]
    /\ conv' = [conv EXCEPT ![k] = c]
    /\ UNCHANGED <<holders, lastUse, now>>

Release(t, k) ==
    /\ t \in holders[k]
    /\ holders' = [holders EXCEPT ![k] = @ \ {t}]
    /\ lastUse' = [lastUse EXCEPT ![k] = now]
    /\ UNCHANGED <<conv, now>>

\* Several sessions may be forgotten at once.
Forget(E) ==
    /\ \A k \in E : holders[k] = {} /\ now - lastUse[k] > TTL
    /\ conv' = [k \in Keys |-> IF k \in E THEN NoConv ELSE conv[k]]
    /\ lastUse' = [k \in Keys |-> IF k \in E THEN 0 ELSE lastUse[k]]
    /\ UNCHANGED <<holders, now>>

Advance ==
    /\ now' = now + 1
    /\ UNCHANGED <<holders, conv, lastUse>>

Next ==
    \/ \E k \in Keys : Ask(k)
    \/ \E t \in Threads, k \in Keys : Acquire(t, k) \/ Release(t, k)
    \/ \E t \in Threads, k \in Keys, c \in Convs \cup {NoConv} : Write(t, k, c)
    \/ \E E \in SUBSET Keys : Forget(E)
    \/ Advance

Spec == Init /\ [][Next]_vars
=============================================================================
