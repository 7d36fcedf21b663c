---------------------------- MODULE SessionStore ----------------------------
(***************************************************************************)
(* internal/provider/m365/session_store.go: the table that maps a session  *)
(* key to a heap object *sessionState, and the goroutines that use it.     *)
(*                                                                         *)
(* tryStart takes the mutex TWICE: getOrCreate looks the key up (or        *)
(* allocates a session) and unlocks; a second critical section then tests  *)
(* and sets inFlight on the object found by the first.  Between the two a  *)
(* sweep by another goroutine may delete the table entry.  gc in turn      *)
(* reads the clock before it waits for the mutex.  Each critical section   *)
(* is one atomic action here, the gaps between them are program points.    *)
(*                                                                         *)
(* Objects are members of Objs; an object no table entry and no goroutine  *)
(* refers to is free memory and may be allocated again.                    *)
(***************************************************************************)
EXTENDS Integers

CONSTANTS
    Keys,       \* session keys (trimmed and non-empty)
    Threads,    \* goroutines that serve requests
    Objs,       \* heap objects of type sessionState
    Nil,        \* the nil pointer, and "no key"
    Convs,      \* ids of upstream conversations
    NoConv,     \* the empty conversation id
    TTL,        \* sessionStore.ttl
    MaxStall,   \* longest time a goroutine spends between the two sections
    MaxTime     \* bound on the clock

ASSUME NilAssumption == Nil \notin Objs /\ Nil \notin Keys
ASSUME TimeAssumption == TTL \in Nat /\ MaxStall \in Nat /\ MaxTime \in Nat

VARIABLES
    sessions,   \* sessionStore.sessions: key -> object, Nil when absent
    heap,       \* the fields of every sessionState
    pc,         \* where each goroutine is
    key,        \* the session key of its request
    st,         \* the *sessionState it works on
    gcNow,      \* the clock value gc read before locking
    now         \* time.Now()

vars == <<sessions, heap, pc, key, st, gcNow, now>>

SessionState ==
    [conversationID : Convs \cup {NoConv}, lastUsedAt : Nat, inFlight : BOOLEAN]

\* Mutant of NewSession: the zero time of a sessionState nobody has stamped.
UnstampedSession(at) ==
    [conversationID |-> NoConv, lastUsedAt |-> -(TTL + 1), inFlight |-> FALSE]

\* &sessionState{} once getOrCreate has stamped it.
NewSession(at) ==
    [conversationID |-> NoConv, lastUsedAt |-> at, inFlight |-> FALSE]

\* "idle": no request; "gc": gc has read the clock and waits for the mutex;
\* "gap": between the two sections of tryStart; "running": tryStart succeeded
\* and end has not been called.
Points == {"idle", "gc", "gap", "running"}

TypeOK ==
    /\ sessions \in [Keys -> Objs \cup {Nil}]
    /\ heap \in [Objs -> SessionState]
    /\ pc \in [Threads -> Points]
    /\ key \in [Threads -> Keys \cup {Nil}]
    /\ st \in [Threads -> Objs \cup {Nil}]
    /\ gcNow \in [Threads -> Nat]
    /\ now \in Nat

Init ==
    /\ sessions = [k \in Keys |-> Nil]
    /\ heap = [o \in Objs |-> NewSession(0)]
    /\ pc = [t \in Threads |-> "idle"]
    /\ key = [t \in Threads |-> Nil]
    /\ st = [t \in Threads |-> Nil]
    /\ gcNow = [t \in Threads |-> 0]
    /\ now = 0

-----------------------------------------------------------------------------
Free(o) ==
    /\ \A k \in Keys : sessions[k] # o
    /\ \A t \in Threads : st[t] # o

\* getOrCreate finds the session of k and refreshes lastUsedAt ...
GetExisting(t, k) ==
    /\ pc[t] = "idle"
    /\ sessions[k] # Nil
    /\ heap' = [heap EXCEPT ![sessions[k]].lastUsedAt = now]
    /\ st' = [st EXCEPT ![t] = sessions[k]]
    /\ key' = [key EXCEPT ![t] = k]
    /\ pc' = [pc EXCEPT ![t] = "gap"]
    /\ UNCHANGED <<sessions, gcNow, now>>

\* ... or allocates a zero session and enters it in the table.
CreateNew(t, k, o) ==
    /\ pc[t] = "idle"
    /\ sessions[k] = Nil
    /\ Free(o)
    /\ heap' = [heap EXCEPT ![o] = NewSession(now)]
    /\ sessions' = [sessions EXCEPT ![k] = o]
    /\ st' = [st EXCEPT ![t] = o]
    /\ key' = [key EXCEPT ![t] = k]
    /\ pc' = [pc EXCEPT ![t] = "gap"]
    /\ UNCHANGED <<gcNow, now>>

\* The second critical section of tryStart: refused ...
StartRefused(t) ==
    /\ pc[t] = "gap"
    /\ heap[st[t]].inFlight
    /\ pc' = [pc EXCEPT ![t] = "idle"]
    /\ key' = [key EXCEPT ![t] = Nil]
    /\ st' = [st EXCEPT ![t] = Nil]
    /\ UNCHANGED <<sessions, heap, gcNow, now>>

\* Mutant of StartGranted: inFlight is not tested.
StartUnchecked(t) ==
    /\ pc[t] = "gap"
    /\ heap' = [heap EXCEPT ![st[t]].inFlight = TRUE, ![st[t]].lastUsedAt = now]
    /\ pc' = [pc EXCEPT ![t] = "running"]
    /\ UNCHANGED <<sessions, key, st, gcNow, now>>

\* ... or granted.
StartGranted(t) ==
    /\ pc[t] = "gap"
    /\ ~heap[st[t]].inFlight
    /\ heap' = [heap EXCEPT ![st[t]].inFlight = TRUE, ![st[t]].lastUsedAt = now]
    /\ pc' = [pc EXCEPT ![t] = "running"]
    /\ UNCHANGED <<sessions, key, st, gcNow, now>>

\* The executor stores or clears the conversation id, without the mutex.
SetConversation(t, c) ==
    /\ pc[t] = "running"
    /\ heap' = [heap EXCEPT ![st[t]].conversationID = c]
    /\ UNCHANGED <<sessions, pc, key, st, gcNow, now>>

\* Mutants of End: inFlight stays set; lastUsedAt is not refreshed.
EndStillInFlight(t) ==
    /\ pc[t] = "running"
    /\ heap' = [heap EXCEPT ![st[t]].lastUsedAt = now]
    /\ pc' = [pc EXCEPT ![t] = "idle"]
    /\ key' = [key EXCEPT ![t] = Nil]
    /\ st' = [st EXCEPT ![t] = Nil]
    /\ UNCHANGED <<sessions, gcNow, now>>

EndUnstamped(t) ==
    /\ pc[t] = "running"
    /\ heap' = [heap EXCEPT ![st[t]].inFlight = FALSE]
    /\ pc' = [pc EXCEPT ![t] = "idle"]
    /\ key' = [key EXCEPT ![t] = Nil]
    /\ st' = [st EXCEPT ![t] = Nil]
    /\ UNCHANGED <<sessions, gcNow, now>>

\* The end closure returned by tryStart.
End(t) ==
    /\ pc[t] = "running"
    /\ heap' = [heap EXCEPT ![st[t]].inFlight = FALSE, ![st[t]].lastUsedAt = now]
    /\ pc' = [pc EXCEPT ![t] = "idle"]
    /\ key' = [key EXCEPT ![t] = Nil]
    /\ st' = [st EXCEPT ![t] = Nil]
    /\ UNCHANGED <<sessions, gcNow, now>>

\* gc reads the clock before it locks (every 128th request calls it) ...
GcReadClock(t) ==
    /\ pc[t] = "idle"
    /\ gcNow' = [gcNow EXCEPT ![t] = now]
    /\ pc' = [pc EXCEPT ![t] = "gc"]
    /\ UNCHANGED <<sessions, heap, key, st, now>>

\* Mutants of Expired: a session in flight may expire; one TTL old is too old.
ExpiredInFlight(k, at) ==
    /\ sessions[k] # Nil
    /\ at - heap[sessions[k]].lastUsedAt > TTL

ExpiredAtTTL(k, at) ==
    /\ sessions[k] # Nil
    /\ ~heap[sessions[k]].inFlight
    /\ at - heap[sessions[k]].lastUsedAt >= TTL

Expired(k, at) ==
    /\ sessions[k] # Nil
    /\ ~heap[sessions[k]].inFlight
    /\ at - heap[sessions[k]].lastUsedAt > TTL

\* ... and sweeps the whole table in one critical section.
GcSweep(t) ==
    /\ pc[t] = "gc"
    /\ sessions' = [k \in Keys |-> IF Expired(k, gcNow[t]) THEN Nil ELSE sessions[k]]
    /\ gcNow' = [gcNow EXCEPT ![t] = 0]
    /\ pc' = [pc EXCEPT ![t] = "idle"]
    /\ UNCHANGED <<heap, key, st, now>>

\* Time passes, but no goroutine stays in the gap for longer than MaxStall.
Tick ==
    /\ now < MaxTime
    /\ \A t \in Threads : pc[t] = "gap" => now - heap[st[t]].lastUsedAt < MaxStall
    /\ now' = now + 1
    /\ UNCHANGED <<sessions, heap, pc, key, st, gcNow>>

Next ==
    \/ \E t \in Threads, k \in Keys : GetExisting(t, k)
    \/ \E t \in Threads, k \in Keys, o \in Objs : CreateNew(t, k, o)
    \/ \E t \in Threads : \/ StartRefused(t) \/ StartGranted(t) \/ End(t)
                          \/ GcReadClock(t) \/ GcSweep(t)
    \/ \E t \in Threads, c \in Convs \cup {NoConv} : SetConversation(t, c)
    \/ Tick

Spec == Init /\ [][Next]_vars

-----------------------------------------------------------------------------
Running(k) == {t \in Threads : pc[t] = "running" /\ key[t] = k}

(* Executor code reads and writes the fields of its sessionState without   *)
(* the mutex (executor.go:116-124, 202, 341), which is a data race unless  *)
(* no two requests in flight share an object, however long a goroutine is  *)
(* stalled between the two sections of tryStart.                           *)
ExclusiveObject ==
    \A t, u \in Threads :
        pc[t] = "running" /\ pc[u] = "running" /\ st[t] = st[u] => t = u

(* Two requests that carry the same session key are never in flight at     *)
(* once, although tryStart tests inFlight on an object it looked up in an  *)
(* earlier critical section (session_store.go:50-62).  Holds when no stall *)
(* between the two sections is longer than the TTL.                        *)
KeyMutex == \A k \in Keys : \A t, u \in Running(k) : t = u

(* The session a request works on stays reachable under its key until end: *)
(* the next turn with that key continues this one's conversation           *)
(* (session_store.go:40-46, 76-87), again when MaxStall <= TTL.             *)
HeldSessionReachable ==
    \A t \in Threads : pc[t] \in {"gap", "running"} => sessions[key[t]] = st[t]

(* A request is refused only while another request with the same key is    *)
(* really running: no stale inFlight flag, and no flag of another key,     *)
(* ever turns a request away (session_store.go:56-59, 64-69).              *)
RefusedOnlyIfBusy ==
    [][\A t \in Threads : pc[t] = "gap" /\ pc'[t] = "idle" =>
          \E u \in Threads \ {t} : pc[u] = "running" /\ key[u] = key[t]]_vars

(* The store implements the abstract lease: the mapping reads the          *)
(* conversation and the last use of a key through the table, so losing a   *)
(* held or recently used session, or reusing its object, is a step the     *)
(* lease does not allow.                                                   *)
Lease ==
    INSTANCE SessionLease WITH
        holders <- [k \in Keys |-> Running(k)],
        conv    <- [k \in Keys |-> IF sessions[k] = Nil THEN NoConv
                                   ELSE heap[sessions[k]].conversationID],
        lastUse <- [k \in Keys |-> IF sessions[k] = Nil THEN 0
                                   ELSE heap[sessions[k]].lastUsedAt],
        now     <- now

ImplementsLease == Lease!Spec
=============================================================================
