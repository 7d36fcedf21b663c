------------------------ MODULE SessionStore_proofs ------------------------
(***************************************************************************)
(* Theorems about SessionStore, for any number of keys, goroutines and     *)
(* objects and any TTL, in three layers:                                   *)
(*                                                                         *)
(*   1. BaseInv, which no stall can break: it gives TypeOK,                *)
(*      ExclusiveObject and RefusedOnlyIfBusy;                             *)
(*   2. FullInv, which needs MaxStall <= TTL: it gives HeldSessionReachable *)
(*      and KeyMutex;                                                      *)
(*   3. the refinement of SessionLease, from FullInv.                      *)
(***************************************************************************)
EXTENDS SessionStore, TLAPS

\* Clock readings are never in the future.
ClockInv ==
    /\ \A o \in Objs : heap[o].lastUsedAt <= now
    /\ \A t \in Threads : gcNow[t] <= now

\* A goroutine has a session exactly between getOrCreate and end.
PointerInv ==
    \A t \in Threads :
        IF pc[t] \in {"gap", "running"} THEN st[t] \in Objs /\ key[t] \in Keys
                                        ELSE st[t] = Nil

\* inFlight is set on exactly the objects of running requests.
FlagInv ==
    \A o \in Objs :
        heap[o].inFlight <=> \E t \in Threads : pc[t] = "running" /\ st[t] = o

\* An object serves one key only, in the table and in the goroutines.
OneKeyPerObject ==
    /\ \A k, j \in Keys : sessions[k] = sessions[j] /\ sessions[k] # Nil => k = j
    /\ \A k \in Keys, t \in Threads :
          sessions[k] = st[t] /\ st[t] # Nil => k = key[t]
    /\ \A t, u \in Threads : st[t] = st[u] /\ st[t] # Nil => key[t] = key[u]

BaseInv ==
    /\ TypeOK
    /\ ClockInv
    /\ PointerInv
    /\ FlagInv
    /\ OneKeyPerObject
    /\ ExclusiveObject

\* A goroutine in the gap asked for its session at most MaxStall ago.
GapRecent ==
    \A t \in Threads :
        pc[t] = "gap" => now - heap[st[t]].lastUsedAt <= MaxStall

FullInv == BaseInv /\ GapRecent /\ HeldSessionReachable

-----------------------------------------------------------------------------
LEMMA InitBase == Init => BaseInv
<1> SUFFICES ASSUME Init PROVE BaseInv
  OBVIOUS
<1> USE NilAssumption DEF Init, NewSession
<1>1. TypeOK
  BY DEF TypeOK, SessionState, Points
<1>2. ClockInv
  BY DEF ClockInv
<1>3. PointerInv /\ FlagInv /\ OneKeyPerObject /\ ExclusiveObject
  BY DEF PointerInv, FlagInv, OneKeyPerObject, ExclusiveObject
<1> QED
  BY <1>1, <1>2, <1>3 DEF BaseInv

LEMMA StepTypeOK == TypeOK /\ PointerInv /\ [Next]_vars => TypeOK'
<1> SUFFICES ASSUME TypeOK, PointerInv, [Next]_vars PROVE TypeOK'
  OBVIOUS
<1> USE NilAssumption, TimeAssumption DEF TypeOK, SessionState, Points
<1>1. ASSUME NEW t \in Threads, NEW k \in Keys, GetExisting(t, k) PROVE TypeOK'
  BY <1>1 DEF GetExisting
<1>2. ASSUME NEW t \in Threads, NEW k \in Keys, NEW o \in Objs, CreateNew(t, k, o)
      PROVE TypeOK'
  BY <1>2 DEF CreateNew, NewSession
<1>3. ASSUME NEW t \in Threads, StartRefused(t) PROVE TypeOK'
  BY <1>3 DEF StartRefused
<1>4. ASSUME NEW t \in Threads, StartGranted(t) PROVE TypeOK'
  BY <1>4 DEF StartGranted, PointerInv
<1>5. ASSUME NEW t \in Threads, End(t) PROVE TypeOK'
  BY <1>5 DEF End, PointerInv
<1>6. ASSUME NEW t \in Threads, GcReadClock(t) PROVE TypeOK'
  BY <1>6 DEF GcReadClock
<1>7. ASSUME NEW t \in Threads, GcSweep(t) PROVE TypeOK'
  BY <1>7 DEF GcSweep
<1>8. ASSUME NEW t \in Threads, NEW c \in Convs \cup {NoConv}, SetConversation(t, c)
      PROVE TypeOK'
  BY <1>8 DEF SetConversation, PointerInv
<1>9. CASE Tick
  BY <1>9 DEF Tick
<1>10. CASE UNCHANGED vars
  BY <1>10 DEF vars
<1> QED
  BY <1>1, <1>2, <1>3, <1>4, <1>5, <1>6, <1>7, <1>8, <1>9, <1>10 DEF Next

LEMMA StepBase == BaseInv /\ [Next]_vars => BaseInv'
<1> SUFFICES ASSUME BaseInv, [Next]_vars PROVE BaseInv'
  OBVIOUS
<1> USE NilAssumption DEF BaseInv
<1>0. TypeOK'
  BY StepTypeOK
<1> USE DEF TypeOK, SessionState, Points
<1>1. ASSUME NEW t \in Threads, NEW k \in Keys, GetExisting(t, k) PROVE BaseInv'
  <2> USE <1>1 DEF GetExisting
  <2>0. sessions[k] \in Objs
    OBVIOUS
  <2>1. ClockInv'
    BY <2>0 DEF ClockInv
  <2>2. PointerInv'
    BY <2>0 DEF PointerInv
  <2>3. FlagInv'
    BY <2>0 DEF FlagInv, PointerInv
  <2>4. OneKeyPerObject'
    BY <2>0 DEF OneKeyPerObject, PointerInv
  <2>5. ExclusiveObject'
    BY <2>0 DEF ExclusiveObject
  <2> QED
    BY <1>0, <2>1, <2>2, <2>3, <2>4, <2>5
<1>2. ASSUME NEW t \in Threads, NEW k \in Keys, NEW o \in Objs, CreateNew(t, k, o)
      PROVE BaseInv'
  <2> USE <1>2 DEF CreateNew, NewSession
  <2>1. ClockInv'
    BY DEF ClockInv
  <2>2. PointerInv'
    BY DEF PointerInv
  <2>3. FlagInv'
    BY DEF FlagInv, PointerInv, Free
  <2>4. OneKeyPerObject'
    BY DEF OneKeyPerObject, PointerInv, Free
  <2>5. ExclusiveObject'
    BY DEF ExclusiveObject
  <2> QED
    BY <1>0, <2>1, <2>2, <2>3, <2>4, <2>5
<1>3. ASSUME NEW t \in Threads, StartRefused(t) PROVE BaseInv'
  <2> USE <1>3 DEF StartRefused
  <2>1. ClockInv'
    BY DEF ClockInv
  <2>2. PointerInv' /\ FlagInv'
    BY DEF PointerInv, FlagInv
  <2>3. OneKeyPerObject'
    BY DEF OneKeyPerObject
  <2>4. ExclusiveObject'
    BY DEF ExclusiveObject
  <2> QED
    BY <1>0, <2>1, <2>2, <2>3, <2>4
<1>4. ASSUME NEW t \in Threads, StartGranted(t) PROVE BaseInv'
  <2> USE <1>4 DEF StartGranted
  <2>0. st[t] \in Objs
    BY DEF PointerInv
  <2>1. ClockInv'
    BY <2>0 DEF ClockInv
  <2>2. PointerInv'
    BY DEF PointerInv
  <2>3. FlagInv'
    BY <2>0 DEF FlagInv
  <2>4. OneKeyPerObject'
    BY DEF OneKeyPerObject
  <2>5. ExclusiveObject'
    BY <2>0 DEF ExclusiveObject, FlagInv
  <2> QED
    BY <1>0, <2>1, <2>2, <2>3, <2>4, <2>5
<1>5. ASSUME NEW t \in Threads, End(t) PROVE BaseInv'
  <2> USE <1>5 DEF End
  <2>0. st[t] \in Objs
    BY DEF PointerInv
  <2>1. ClockInv'
    BY <2>0 DEF ClockInv
  <2>2. PointerInv'
    BY DEF PointerInv
  <2>3. FlagInv'
    BY <2>0 DEF FlagInv, ExclusiveObject
  <2>4. OneKeyPerObject'
    BY DEF OneKeyPerObject
  <2>5. ExclusiveObject'
    BY DEF ExclusiveObject
  <2> QED
    BY <1>0, <2>1, <2>2, <2>3, <2>4, <2>5
<1>6. ASSUME NEW t \in Threads, GcReadClock(t) PROVE BaseInv'
  BY <1>0, <1>6
     DEF GcReadClock, ClockInv, PointerInv, FlagInv, OneKeyPerObject, ExclusiveObject
<1>7. ASSUME NEW t \in Threads, GcSweep(t) PROVE BaseInv'
  <2> USE <1>7 DEF GcSweep
  <2>1. \A k \in Keys : sessions'[k] = Nil \/ sessions'[k] = sessions[k]
    OBVIOUS
  <2>2. ClockInv' /\ PointerInv' /\ FlagInv' /\ ExclusiveObject'
    BY DEF ClockInv, PointerInv, FlagInv, ExclusiveObject
  <2>3. OneKeyPerObject'
    BY <2>1 DEF OneKeyPerObject
  <2> QED
    BY <1>0, <2>2, <2>3
<1>8. ASSUME NEW t \in Threads, NEW c \in Convs \cup {NoConv}, SetConversation(t, c)
      PROVE BaseInv'
  <2>0. st[t] \in Objs
    BY <1>8 DEF SetConversation, PointerInv
  <2> QED
    BY <1>0, <1>8, <2>0
       DEF SetConversation, ClockInv, PointerInv, FlagInv, OneKeyPerObject, ExclusiveObject
<1>9. CASE Tick
  BY <1>0, <1>9
     DEF Tick, ClockInv, PointerInv, FlagInv, OneKeyPerObject, ExclusiveObject
<1>10. CASE UNCHANGED vars
  BY <1>0, <1>10
     DEF vars, ClockInv, PointerInv, FlagInv, OneKeyPerObject, ExclusiveObject
<1> QED
  BY <1>1, <1>2, <1>3, <1>4, <1>5, <1>6, <1>7, <1>8, <1>9, <1>10 DEF Next

LEMMA BaseInvariant == Spec => []BaseInv
<1>1. BaseInv /\ [Next]_vars => BaseInv'
  BY StepBase
<1> QED
  BY InitBase, <1>1, PTL DEF Spec

(* Every variable of the store keeps the type its declaration gives it     *)
(* (session_store.go:10-21).                                               *)
THEOREM TypeCorrect == Spec => []TypeOK
<1>1. BaseInv => TypeOK
  BY DEF BaseInv
<1> QED
  BY BaseInvariant, <1>1, PTL

(* Whatever the scheduler does, two requests in flight never share a       *)
(* sessionState: the executor's unlocked accesses to it do not race.       *)
THEOREM ObjectMutex == Spec => []ExclusiveObject
<1>1. BaseInv => ExclusiveObject
  BY DEF BaseInv
<1> QED
  BY BaseInvariant, <1>1, PTL

(* tryStart refuses a request only while another one with the same session *)
(* key is running (session_store.go:56-59).                                *)
THEOREM RefusalJustified == Spec => RefusedOnlyIfBusy
<1> DEFINE Justified ==
      \A t \in Threads : pc[t] = "gap" /\ pc'[t] = "idle" =>
          \E u \in Threads \ {t} : pc[u] = "running" /\ key[u] = key[t]
<1>1. ASSUME BaseInv, [Next]_vars PROVE [Justified]_vars
  <2> SUFFICES ASSUME NEW t \in Threads, pc[t] = "gap", pc'[t] = "idle"
               PROVE  \E u \in Threads \ {t} : pc[u] = "running" /\ key[u] = key[t]
    OBVIOUS
  <2>1. StartRefused(t)
    BY <1>1 DEF Next, vars, BaseInv, TypeOK, GetExisting, CreateNew, StartRefused,
       StartGranted, End, GcReadClock, GcSweep, SetConversation, Tick
  <2>2. heap[st[t]].inFlight /\ st[t] \in Objs
    BY <1>1, <2>1 DEF StartRefused, BaseInv, PointerInv
  <2>3. PICK u \in Threads : pc[u] = "running" /\ st[u] = st[t]
    BY <1>1, <2>2 DEF BaseInv, FlagInv
  <2>4. key[u] = key[t]
    BY <1>1, <2>2, <2>3, NilAssumption DEF BaseInv, OneKeyPerObject
  <2> QED
    BY <2>3, <2>4
<1>2. Spec => [][Justified]_vars
  BY BaseInvariant, <1>1, PTL DEF Spec
<1> QED
  BY <1>2 DEF RefusedOnlyIfBusy

-----------------------------------------------------------------------------
\* From here on no goroutine stays in the gap for longer than the TTL.

LEMMA StepFull ==
  ASSUME MaxStall <= TTL, FullInv, [Next]_vars
  PROVE  FullInv'
<1> USE NilAssumption DEF FullInv
<1>0. BaseInv'
  BY StepBase
<1> USE TimeAssumption DEF BaseInv, TypeOK, SessionState, Points
<1>1. ASSUME NEW t \in Threads, NEW k \in Keys, GetExisting(t, k) PROVE FullInv'
  <2>0. sessions[k] \in Objs
    BY <1>1 DEF GetExisting
  <2>1. GapRecent'
    BY <1>1, <2>0 DEF GetExisting, GapRecent, PointerInv
  <2>2. HeldSessionReachable'
    BY <1>1, <2>0 DEF GetExisting, HeldSessionReachable
  <2> QED
    BY <1>0, <2>1, <2>2
<1>2. ASSUME NEW t \in Threads, NEW k \in Keys, NEW o \in Objs, CreateNew(t, k, o)
      PROVE FullInv'
  <2>1. GapRecent'
    BY <1>2 DEF CreateNew, NewSession, Free, GapRecent, PointerInv
  <2>2. HeldSessionReachable'
    BY <1>2 DEF CreateNew, HeldSessionReachable, PointerInv
  <2> QED
    BY <1>0, <2>1, <2>2
<1>3. ASSUME NEW t \in Threads, StartRefused(t) PROVE FullInv'
  BY <1>0, <1>3 DEF StartRefused, GapRecent, HeldSessionReachable
<1>4. ASSUME NEW t \in Threads, StartGranted(t) PROVE FullInv'
  <2>1. st[t] \in Objs
    BY <1>4 DEF StartGranted, PointerInv
  <2>2. GapRecent'
    BY <1>4, <2>1 DEF StartGranted, GapRecent, PointerInv
  <2>3. HeldSessionReachable'
    BY <1>4 DEF StartGranted, HeldSessionReachable
  <2> QED
    BY <1>0, <2>2, <2>3
<1>5. ASSUME NEW t \in Threads, End(t) PROVE FullInv'
  <2>1. st[t] \in Objs
    BY <1>5 DEF End, PointerInv
  <2>2. GapRecent'
    BY <1>5, <2>1 DEF End, GapRecent, PointerInv
  <2>3. HeldSessionReachable'
    BY <1>5 DEF End, HeldSessionReachable
  <2> QED
    BY <1>0, <2>2, <2>3
<1>6. ASSUME NEW t \in Threads, GcReadClock(t) PROVE FullInv'
  BY <1>0, <1>6 DEF GcReadClock, GapRecent, HeldSessionReachable
<1>7. ASSUME NEW t \in Threads, GcSweep(t) PROVE FullInv'
  <2>1. GapRecent'
    BY <1>7 DEF GcSweep, GapRecent
  <2>2. ASSUME NEW u \in Threads, pc'[u] \in {"gap", "running"}
        PROVE  sessions'[key'[u]] = st'[u]
    <3>1. /\ pc[u] \in {"gap", "running"} /\ st'[u] = st[u] /\ key'[u] = key[u]
          /\ st[u] \in Objs /\ key[u] \in Keys /\ sessions[key[u]] = st[u]
      BY <1>7, <2>2 DEF GcSweep, PointerInv, HeldSessionReachable
    <3>2. CASE pc[u] = "running"
      <4>1. heap[st[u]].inFlight
        BY <3>1, <3>2 DEF FlagInv
      <4> QED
        BY <1>7, <3>1, <4>1 DEF GcSweep, Expired
    <3>3. CASE pc[u] = "gap"
      <4>1. now - heap[st[u]].lastUsedAt <= MaxStall
        BY <3>3 DEF GapRecent
      <4>2. gcNow[t] <= now /\ gcNow[t] \in Nat /\ heap[st[u]].lastUsedAt \in Nat
        BY <3>1 DEF ClockInv
      <4>3. ~(gcNow[t] - heap[st[u]].lastUsedAt > TTL)
        BY <4>1, <4>2
      <4> QED
        BY <1>7, <3>1, <4>3 DEF GcSweep, Expired
    <3> QED
      BY <3>1, <3>2, <3>3
  <2> QED
    BY <1>0, <2>1, <2>2 DEF HeldSessionReachable
<1>8. ASSUME NEW t \in Threads, NEW c \in Convs \cup {NoConv}, SetConversation(t, c)
      PROVE FullInv'
  <2>1. st[t] \in Objs
    BY <1>8 DEF SetConversation, PointerInv
  <2> QED
    BY <1>0, <1>8, <2>1 DEF SetConversation, PointerInv, GapRecent, HeldSessionReachable
<1>9. CASE Tick
  <2>1. HeldSessionReachable'
    BY <1>9 DEF Tick, HeldSessionReachable
  <2>2. GapRecent'
    BY <1>9 DEF Tick, GapRecent, PointerInv
  <2> QED
    BY <1>0, <2>1, <2>2
<1>10. CASE UNCHANGED vars
  BY <1>0, <1>10 DEF vars, GapRecent, HeldSessionReachable
<1> QED
  BY <1>1, <1>2, <1>3, <1>4, <1>5, <1>6, <1>7, <1>8, <1>9, <1>10 DEF Next

LEMMA FullInvariant == ASSUME MaxStall <= TTL PROVE Spec => []FullInv
<1>1. Init => FullInv
  BY InitBase DEF Init, FullInv, GapRecent, HeldSessionReachable
<1>2. FullInv /\ [Next]_vars => FullInv'
  BY StepFull
<1> QED
  BY <1>1, <1>2, PTL DEF Spec

(* As long as no goroutine stalls between the two critical sections of     *)
(* tryStart for longer than the TTL, the table entry of a request's key is *)
(* the session the request works on.                                       *)
THEOREM HeldReachable == ASSUME MaxStall <= TTL PROVE Spec => []HeldSessionReachable
<1>1. FullInv => HeldSessionReachable
  BY DEF FullInv
<1> QED
  BY FullInvariant, <1>1, PTL

(* Under the same assumption two requests with one session key are never   *)
(* in flight together.                                                     *)
THEOREM Mutex == ASSUME MaxStall <= TTL PROVE Spec => []KeyMutex
<1>1. FullInv => KeyMutex
  BY DEF FullInv, BaseInv, HeldSessionReachable, ExclusiveObject, KeyMutex, Running
<1> QED
  BY FullInvariant, <1>1, PTL

-----------------------------------------------------------------------------
(* The refinement.  The three mapped functions, by name. *)
Holders == [k \in Keys |-> Running(k)]
Conv == [k \in Keys |-> IF sessions[k] = Nil THEN NoConv
                        ELSE heap[sessions[k]].conversationID]
LastUse == [k \in Keys |-> IF sessions[k] = Nil THEN 0
                           ELSE heap[sessions[k]].lastUsedAt]

\* A request that holds nothing yet appears in no lease, and a key whose
\* session is not in flight has no holder.
LEMMA HolderFacts ==
  ASSUME FullInv
  PROVE  /\ \A t \in Threads, k \in Keys : t \in Holders[k] <=> pc[t] = "running" /\ key[t] = k
         /\ \A k \in Keys : sessions[k] # Nil /\ ~heap[sessions[k]].inFlight => Holders[k] = {}
<1>1. \A t \in Threads, k \in Keys : t \in Holders[k] <=> pc[t] = "running" /\ key[t] = k
  BY DEF Holders, Running
<1>2. ASSUME NEW k \in Keys, sessions[k] # Nil, ~heap[sessions[k]].inFlight,
             NEW u \in Running(k)
      PROVE  FALSE
  <2>1. u \in Threads /\ pc[u] = "running" /\ key[u] = k
    BY DEF Running
  <2>2. st[u] = sessions[k] /\ st[u] \in Objs
    BY <2>1 DEF FullInv, BaseInv, HeldSessionReachable, PointerInv
  <2> QED
    BY <1>2, <2>1, <2>2 DEF FullInv, BaseInv, FlagInv
<1> QED
  BY <1>1, <1>2 DEF Holders

LEMMA InitLease == Init => Lease!Init
BY DEF Init, Lease!Init, Running

LEMMA StepLease ==
  ASSUME FullInv, FullInv', [Next]_vars
  PROVE  [Lease!Next]_(Lease!vars)
<1> USE NilAssumption DEF FullInv
<1> USE DEF BaseInv, TypeOK, SessionState, Points
<1>1. ASSUME NEW t \in Threads, NEW k \in Keys, GetExisting(t, k) PROVE Lease!Ask(k)
  <2> USE <1>1 DEF GetExisting
  <2>1. Holders' = Holders
    BY DEF Holders, Running
  <2>2. Conv' = Conv
    BY DEF Conv
  <2>3. LastUse' = [LastUse EXCEPT ![k] = now]
    <3>1. ASSUME NEW j \in Keys PROVE LastUse'[j] = IF j = k THEN now ELSE LastUse[j]
      <4>1. CASE j = k
        BY <4>1 DEF LastUse
      <4>2. CASE j # k
        <5>1. sessions[j] = Nil \/ sessions[j] # sessions[k]
          BY <4>2 DEF OneKeyPerObject
        <5> QED
          BY <4>2, <5>1 DEF LastUse
      <4> QED
        BY <4>1, <4>2
    <3>2. LastUse = [j \in Keys |-> LastUse[j]] /\ LastUse' = [j \in Keys |-> LastUse'[j]]
      BY DEF LastUse
    <3> QED
      BY ONLY <3>1, <3>2
  <2> QED
    BY <2>1, <2>2, <2>3 DEF Lease!Ask, Holders, Conv, LastUse
<1>2. ASSUME NEW t \in Threads, NEW k \in Keys, NEW o \in Objs, CreateNew(t, k, o)
      PROVE Lease!Ask(k)
  <2> USE <1>2 DEF CreateNew, NewSession, Free
  <2>1. Holders' = Holders
    BY DEF Holders, Running
  <2>2. Conv' = Conv
    BY DEF Conv
  <2>3. LastUse' = [LastUse EXCEPT ![k] = now]
    BY DEF LastUse
  <2> QED
    BY <2>1, <2>2, <2>3 DEF Lease!Ask, Holders, Conv, LastUse
<1>3. ASSUME NEW t \in Threads, StartRefused(t) PROVE UNCHANGED Lease!vars
  <2>1. Holders' = Holders
    BY <1>3 DEF StartRefused, Holders, Running
  <2> QED
    BY <1>3, <2>1 DEF StartRefused, Lease!vars, Holders
<1>4. ASSUME NEW t \in Threads, NEW k \in Keys, k = key[t], StartGranted(t)
      PROVE  Lease!Acquire(t, k)
  <2> USE <1>4 DEF StartGranted
  <2>0. st[t] \in Objs /\ sessions[k] = st[t]
    BY DEF PointerInv, HeldSessionReachable
  <2>1. Holders[k] = {} /\ \A j \in Keys : t \notin Holders[j]
    BY <2>0, HolderFacts
  <2>2. ASSUME NEW j \in Keys PROVE Running(j)' = IF j = k THEN Running(j) \cup {t} ELSE Running(j)
    BY DEF Running
  <2>3. Holders' = [Holders EXCEPT ![k] = {t}]
    BY <2>0, <2>1, <2>2 DEF Holders
  <2>4. Conv' = Conv
    BY <2>0 DEF Conv
  <2>5. LastUse' = [LastUse EXCEPT ![k] = now]
    <3>1. ASSUME NEW j \in Keys PROVE LastUse'[j] = IF j = k THEN now ELSE LastUse[j]
      <4>1. CASE j = k
        BY <2>0, <4>1 DEF LastUse
      <4>2. CASE j # k
        <5>1. sessions[j] = Nil \/ sessions[j] # sessions[k]
          BY <2>0, <4>2 DEF OneKeyPerObject
        <5> QED
          BY <2>0, <4>2, <5>1 DEF LastUse
      <4> QED
        BY <4>1, <4>2
    <3>2. LastUse = [j \in Keys |-> LastUse[j]] /\ LastUse' = [j \in Keys |-> LastUse'[j]]
      BY DEF LastUse
    <3> QED
      BY ONLY <3>1, <3>2
  <2> QED
    BY <2>1, <2>3, <2>4, <2>5 DEF Lease!Acquire, Holders, Conv, LastUse
<1>5. ASSUME NEW t \in Threads, NEW k \in Keys, k = key[t], End(t)
      PROVE  Lease!Release(t, k)
  <2> USE <1>5 DEF End
  <2>0. st[t] \in Objs /\ sessions[k] = st[t]
    BY DEF PointerInv, HeldSessionReachable
  <2>1. t \in Holders[k]
    BY <2>0, HolderFacts
  <2>2. ASSUME NEW j \in Keys PROVE Running(j)' = IF j = k THEN Running(j) \ {t} ELSE Running(j)
    BY <2>0 DEF Running
  <2>3. Holders' = [Holders EXCEPT ![k] = @ \ {t}]
    BY <2>0, <2>2 DEF Holders
  <2>4. Conv' = Conv
    BY <2>0 DEF Conv
  <2>5. LastUse' = [LastUse EXCEPT ![k] = now]
    <3>1. ASSUME NEW j \in Keys PROVE LastUse'[j] = IF j = k THEN now ELSE LastUse[j]
      <4>1. CASE j = k
        BY <2>0, <4>1 DEF LastUse
      <4>2. CASE j # k
        <5>1. sessions[j] = Nil \/ sessions[j] # sessions[k]
          BY <2>0, <4>2 DEF OneKeyPerObject
        <5> QED
          BY <2>0, <4>2, <5>1 DEF LastUse
      <4> QED
        BY <4>1, <4>2
    <3>2. LastUse = [j \in Keys |-> LastUse[j]] /\ LastUse' = [j \in Keys |-> LastUse'[j]]
      BY DEF LastUse
    <3> QED
      BY ONLY <3>1, <3>2
  <2> QED
    BY <2>1, <2>3, <2>4, <2>5 DEF Lease!Release, Holders, Conv, LastUse
<1>6. ASSUME NEW t \in Threads, GcReadClock(t) PROVE UNCHANGED Lease!vars
  <2>1. Holders' = Holders
    BY <1>6 DEF GcReadClock, Holders, Running
  <2> QED
    BY <1>6, <2>1 DEF GcReadClock, Lease!vars, Holders
<1>7. ASSUME NEW t \in Threads, GcSweep(t) PROVE \E E \in SUBSET Keys : Lease!Forget(E)
  <2>0. PICK Dead \in SUBSET Keys : Dead = {k \in Keys : Expired(k, gcNow[t])}
    OBVIOUS
  <2> USE <1>7, <2>0 DEF GcSweep
  <2>1. Holders' = Holders
    BY DEF Holders, Running
  <2>2. ASSUME NEW k \in Dead PROVE Holders[k] = {} /\ now - LastUse[k] > TTL
    <3>1. Holders[k] = {}
      BY HolderFacts DEF Expired
    <3>2. /\ gcNow[t] <= now /\ gcNow[t] \in Nat
          /\ LastUse[k] = heap[sessions[k]].lastUsedAt /\ LastUse[k] \in Nat
          /\ gcNow[t] - LastUse[k] > TTL
      BY DEF ClockInv, Expired, LastUse
    <3> QED
      BY <3>1, <3>2, TimeAssumption
  <2>3. Conv' = [k \in Keys |-> IF k \in Dead THEN NoConv ELSE Conv[k]]
    BY DEF Conv
  <2>4. LastUse' = [k \in Keys |-> IF k \in Dead THEN 0 ELSE LastUse[k]]
    BY DEF LastUse
  <2>5. Lease!Forget(Dead)
    <3>1. Dead \subseteq Keys /\ \A k \in Dead : Holders[k] = {} /\ now - LastUse[k] > TTL
      BY <2>2
    <3> QED
      BY <2>1, <2>3, <2>4, <3>1 DEF Lease!Forget, Holders, Conv, LastUse
  <2> QED
    BY <2>5
<1>8. ASSUME NEW t \in Threads, NEW k \in Keys, k = key[t],
             NEW c \in Convs \cup {NoConv}, SetConversation(t, c)
      PROVE  Lease!Write(t, k, c)
  <2> USE <1>8 DEF SetConversation
  <2>0. st[t] \in Objs /\ sessions[k] = st[t]
    BY DEF PointerInv, HeldSessionReachable
  <2>1. t \in Holders[k]
    BY <2>0, HolderFacts
  <2>2. Holders' = Holders
    BY DEF Holders, Running
  <2>3. Conv' = [Conv EXCEPT ![k] = c]
    <3>1. ASSUME NEW j \in Keys PROVE Conv'[j] = IF j = k THEN c ELSE Conv[j]
      <4>1. CASE j = k
        BY <2>0, <4>1 DEF Conv
      <4>2. CASE j # k
        <5>1. sessions[j] = Nil \/ sessions[j] # sessions[k]
          BY <2>0, <4>2 DEF OneKeyPerObject
        <5> QED
          BY <2>0, <4>2, <5>1 DEF Conv
      <4> QED
        BY <4>1, <4>2
    <3> QED
      BY <3>1 DEF Conv
  <2>4. LastUse' = LastUse
    BY <2>0 DEF LastUse
  <2> QED
    BY <2>1, <2>2, <2>3, <2>4 DEF Lease!Write, Holders, Conv, LastUse
<1>9. CASE Tick
  <2>1. Holders' = Holders
    BY <1>9 DEF Tick, Holders, Running
  <2>2. Lease!Advance
    BY <1>9, <2>1 DEF Tick, Lease!Advance, Holders
  <2> QED
    BY <2>2 DEF Lease!Next
<1>10. CASE UNCHANGED vars
  BY <1>10 DEF vars, Lease!vars, Running
<1> QED
  <2>1. \A t \in Threads : pc[t] \in {"gap", "running"} => key[t] \in Keys
    BY DEF PointerInv
  <2>2. ASSUME NEW t \in Threads, StartGranted(t) PROVE Lease!Next
    <3>1. PICK k \in Keys : k = key[t]
      BY <2>1, <2>2 DEF StartGranted
    <3>2. Lease!Acquire(t, k)
      BY <1>4, <2>2, <3>1
    <3> QED
      BY <3>2 DEF Lease!Next
  <2>3. ASSUME NEW t \in Threads, End(t) PROVE Lease!Next
    <3>1. PICK k \in Keys : k = key[t]
      BY <2>1, <2>3 DEF End
    <3>2. Lease!Release(t, k)
      BY <1>5, <2>3, <3>1
    <3> QED
      BY <3>2 DEF Lease!Next
  <2>4. ASSUME NEW t \in Threads, NEW c \in Convs \cup {NoConv}, SetConversation(t, c)
        PROVE  Lease!Next
    <3>1. PICK k \in Keys : k = key[t]
      BY <2>1, <2>4 DEF SetConversation
    <3>2. Lease!Write(t, k, c)
      BY <1>8, <2>4, <3>1
    <3> QED
      BY <3>2 DEF Lease!Next
  <2>5. ASSUME NEW t \in Threads, NEW k \in Keys, GetExisting(t, k) PROVE Lease!Next
    BY <1>1, <2>5 DEF Lease!Next
  <2>6. ASSUME NEW t \in Threads, NEW k \in Keys, NEW o \in Objs, CreateNew(t, k, o)
        PROVE  Lease!Next
    BY <1>2, <2>6 DEF Lease!Next
  <2>7. ASSUME NEW t \in Threads, GcSweep(t) PROVE Lease!Next
    BY <1>7, <2>7 DEF Lease!Next
  <2> QED
    BY <2>2, <2>3, <2>4, <2>5, <2>6, <2>7, <1>3, <1>6, <1>9, <1>10 DEF Next

(* Under the same assumption the store implements the abstract lease: each *)
(* key's conversation is exclusive, survives between turns, and is         *)
(* forgotten only when unused for longer than the TTL.                     *)
THEOREM Refinement == ASSUME MaxStall <= TTL PROVE Spec => ImplementsLease
<1>1. FullInv /\ FullInv' /\ [Next]_vars => [Lease!Next]_(Lease!vars)
  BY StepLease
<1> QED
  BY FullInvariant, InitLease, <1>1, PTL DEF Spec, ImplementsLease, Lease!Spec
=============================================================================
