------------------------- MODULE Credentials_proofs -------------------------
(***************************************************************************)
(* Theorems about Credentials, for any accounts, goroutines, sign-ins,     *)
(* faults, starts and times: type correctness, and on top of it            *)
(*                                                                         *)
(*   1. ServingInv gives ConfiguredAccountServes;                          *)
(*   2. PendingInv gives OneRedemption;                                    *)
(*   3. LoginInv gives LoginKept.                                          *)
(***************************************************************************)
EXTENDS Credentials, TLAPS

\* The half of TypeOK that Clone, Put and End are about.
MapsOK ==
    /\ tok \in [Holders -> Token]
    /\ same \in [Holders -> SUBSET Holders]
    /\ \A g, h \in Holders : g \in same[h] <=> same[g] = same[h]

\* The other half.
ProcessOK ==
    /\ now \in 0..MaxTime /\ shared \in BOOLEAN
    /\ phase \in {"down", "loaded", "registered", "serving"}
    /\ config \in Ids
    /\ account \in [Ids -> {"absent", "on", "off"}]
    /\ disk \in [Ids -> [status : {"absent", "on", "off"}, tok : Token]]
    /\ job \in [Workers -> Job \cup {Idle}]
    /\ pending \in [Flows -> 0..MaxTime \cup {Never}]
    /\ begun \in 0..MaxFlows /\ starts \in 0..MaxStarts /\ faults \in 0..MaxFaults
    /\ redeemed \in [Flows -> [times : Nat, put : 0..MaxTime, start : 0..MaxStarts]]
    /\ login \subseteq Ids /\ latest \in [Ids -> [flow : 0..MaxFlows, saved : BOOLEAN]]
    /\ stale \subseteq Workers /\ raced \in BOOLEAN

LEMMA TypeParts == TypeOK <=> MapsOK /\ ProcessOK
BY DEF TypeOK, MapsOK, ProcessOK

-----------------------------------------------------------------------------
(* The operators that move token maps.                                     *)

\* Holders of one map form a class.
LEMMA SameClasses ==
    ASSUME MapsOK
    PROVE  /\ \A h \in Holders : h \in same[h]
           /\ \A g, h \in Holders : g \in same[h] => same[g] = same[h]
BY DEF MapsOK

LEMMA ClassesAreEnough ==
    ASSUME NEW S, S \in [Holders -> SUBSET Holders],
           \A h \in Holders : h \in S[h],
           \A g, h \in Holders : g \in S[h] => S[g] = S[h]
    PROVE  \A g, h \in Holders : g \in S[h] <=> S[g] = S[h]
OBVIOUS

\* A clone has the tokens of its original, and nobody else's change.
LEMMA CloneTokens ==
    ASSUME MapsOK, NEW g \in Holders, NEW h \in Holders, Clone(g, h)
    PROVE  /\ tok' \in [Holders -> Token]
           /\ tok'[g] = tok[h]
           /\ \A k \in Holders \ {g} : tok'[k] = tok[k]
BY DEF MapsOK, Clone

LEMMA CloneMaps ==
    ASSUME MapsOK, NEW g \in Holders, NEW h \in Holders, Clone(g, h)
    PROVE  MapsOK'
<1> DEFINE group == IF shared /\ tok[h] # NoToken THEN same[h] \cup {g} ELSE {g}
           S == [k \in Holders |-> IF k \in group THEN group ELSE same[k] \ {g}]
<1> USE SameClasses
<1>1. same' = S /\ g \in group /\ group \subseteq Holders
  BY DEF Clone, MapsOK
<1>2. S \in [Holders -> SUBSET Holders]
  BY <1>1 DEF MapsOK
<1>3. \A k \in Holders : k \in S[k]
  BY <1>1
<1>4. ASSUME NEW a \in Holders, NEW b \in Holders, a \in S[b] PROVE S[a] = S[b]
  <2>1. CASE b \in group
    BY <1>4, <2>1, <1>1
  <2>2. CASE b \notin group
    <3>1. a \in same[b] /\ a # g /\ same[a] = same[b]
      BY <1>4, <2>2
    <3>2. a \notin group
      <4>1. SUFFICES ASSUME a \in group PROVE FALSE
        OBVIOUS
      <4>2. a \in same[h] /\ group = same[h] \cup {g}
        BY <4>1, <3>1
      <4>3. same[h] = same[b] /\ b \in same[b]
        BY <4>2, <3>1
      <4> QED
        BY <4>2, <4>3, <2>2
    <3> QED
      BY <3>1, <3>2, <2>2
  <2> QED
    BY <2>1, <2>2
<1>5. \A a, b \in Holders : a \in S[b] => S[a] = S[b]
  BY <1>4
<1> HIDE DEF S
<1>6. \A a, b \in Holders : a \in S[b] <=> S[a] = S[b]
  BY <1>2, <1>3, <1>5, ClassesAreEnough
<1> QED
  BY <1>1, <1>2, <1>6, CloneTokens DEF MapsOK

LEMMA PutMaps ==
    ASSUME MapsOK, NEW h \in Holders, NEW t \in Token, Put(h, t), UNCHANGED same
    PROVE  MapsOK' /\ tok'[h] = t /\ \A k \in Holders : tok'[k] \in {t, tok[k]}
BY SameClasses DEF MapsOK, Put

\* What a goroutine leaves behind.
LEMMA EndMaps ==
    ASSUME MapsOK, NEW w \in Workers, End(w)
    PROVE  MapsOK' /\ \A k \in Holders \ {w} : tok'[k] = tok[k]
<1> DEFINE S == [h \in Holders |-> IF h = w THEN {w} ELSE same[h] \ {w}]
<1> USE SameClasses, CredentialAssumption DEF Holders
<1>1. same' = S /\ S \in [Holders -> SUBSET Holders]
  BY DEF End, MapsOK
<1>2. \A k \in Holders : k \in S[k]
  OBVIOUS
<1>3. \A a, b \in Holders : a \in S[b] => S[a] = S[b]
  <2> SUFFICES ASSUME NEW a \in Holders, NEW b \in Holders, a \in S[b] PROVE S[a] = S[b]
    OBVIOUS
  <2>1. CASE b = w
    BY <2>1
  <2>2. CASE b # w
    BY <2>2
  <2> QED
    BY <2>1, <2>2
<1> HIDE DEF S
<1>4. \A a, b \in Holders : a \in S[b] <=> S[a] = S[b]
  BY <1>1, <1>2, <1>3, ClassesAreEnough
<1>5. NoToken \in Token
  BY DEF NoToken, Token, NoAccess, Access
<1>6. tok' \in [Holders -> Token] /\ \A k \in Holders \ {w} : tok'[k] = tok[k]
  BY <1>5 DEF End, MapsOK
<1> QED
  BY <1>1, <1>4, <1>6 DEF MapsOK

\* The times the program computes are in the range of its tokens.
LEMMA Issued ==
    ASSUME ProcessOK, NEW f
    PROVE  issued(f) \in Access /\ expiresAt \in 0..(MaxTime + Lifetime)
BY CredentialAssumption DEF ProcessOK, issued, expiresAt, Access

LEMMA Arrived ==
    ASSUME ProcessOK, NEW w \in Workers, job[w] # Idle
    PROVE  /\ arrived(w) \in Access
           /\ arrived(w).until = job[w].access.until /\ arrived(w).files = job[w].access.files
           /\ arrived(w).late <=> now > job[w].access.until - Lifetime + Margin
<1>1. job[w].access \in Access
  BY DEF ProcessOK, Job
<1>2. PICK a, l : a = job[w].access /\ l = (now > a.until - Lifetime + Margin)
  OBVIOUS
<1>3. arrived(w) = [a EXCEPT !.late = l] /\ l \in BOOLEAN
  BY <1>2 DEF arrived
<1>4. /\ [a EXCEPT !.late = l] \in Access /\ [a EXCEPT !.late = l].late = l
      /\ [a EXCEPT !.late = l].until = a.until /\ [a EXCEPT !.late = l].files = a.files
  BY <1>1, <1>2, <1>3, Zenon DEF Access
<1> QED
  BY <1>2, <1>3, <1>4

LEMMA GrantedForms ==
    ASSUME NEW w \in Workers, NEW r \in Granted(w)
    PROVE  /\ job[w].kind # "login" => r = job[w].flow \/ r = tok[w].refresh
           /\ job[w].kind = "login" /\ starts \in OfflineStarts => r = job[w].flow
           /\ job[w].kind = "login" /\ starts \notin OfflineStarts => r = tok[w].refresh
BY DEF Granted, KeptRefresh

LEMMA JobMoves ==
    ASSUME ProcessOK, NEW w \in Workers, job[w] # Idle
    PROVE  job[w] \in Job
BY DEF ProcessOK

-----------------------------------------------------------------------------
LEMMA InitTypeOK == Init => TypeOK
<1> SUFFICES ASSUME Init PROVE TypeOK
  OBVIOUS
<1> USE CredentialAssumption DEF Init
<1>1. NoToken \in Token
  BY DEF NoToken, Token, NoAccess, Access
<1>2. MapsOK
  <2>1. same \in [Holders -> SUBSET Holders] /\ tok \in [Holders -> Token]
    BY <1>1
  <2>2. \A g, h \in Holders : g \in same[h] <=> same[g] = same[h]
    OBVIOUS
  <2> QED
    BY <2>1, <2>2 DEF MapsOK
<1>3. ProcessOK
  <2>1. shared \in BOOLEAN /\ raced \in BOOLEAN /\ phase = "down" /\ config \in Ids
    OBVIOUS
  <2>2. account \in [Ids -> {"absent", "on", "off"}]
    OBVIOUS
  <2>3. disk \in [Ids -> [status : {"absent", "on", "off"}, tok : Token]]
    BY <1>1 DEF NoFile
  <2>4. job \in [Workers -> Job \cup {Idle}]
    OBVIOUS
  <2>5. pending \in [Flows -> 0..MaxTime \cup {Never}]
    OBVIOUS
  <2>6. redeemed \in [Flows -> [times : Nat, put : 0..MaxTime, start : 0..MaxStarts]]
    OBVIOUS
  <2>7. latest \in [Ids -> [flow : 0..MaxFlows, saved : BOOLEAN]]
    BY DEF Nobody
  <2>8. now \in 0..MaxTime /\ begun \in 0..MaxFlows /\ starts \in 0..MaxStarts
          /\ faults \in 0..MaxFaults /\ login \subseteq Ids /\ stale \subseteq Workers
    OBVIOUS
  <2> QED
    BY <2>1, <2>2, <2>3, <2>4, <2>5, <2>6, <2>7, <2>8 DEF ProcessOK
<1> QED
  BY <1>2, <1>3, TypeParts

-----------------------------------------------------------------------------
(* Every step keeps the types.                                             *)

LEMMA Typed ==
    ASSUME TypeOK, NEW w \in Workers
    PROVE  /\ w \in Holders /\ config \in Holders /\ config \in Ids
           /\ tok[w] \in Token
           /\ job[w] # Idle => job[w] \in Job /\ job[w].id \in Holders
BY DEF TypeOK, Holders, Job

LEMMA StepMapsOK == TypeOK /\ Next => MapsOK'
<1> SUFFICES ASSUME TypeOK, Next PROVE MapsOK'
  OBVIOUS
<1> USE TypeParts
<1>0. MapsOK /\ ProcessOK
  OBVIOUS
<1>1. UNCHANGED <<tok, same>> => MapsOK'
  BY <1>0 DEF MapsOK
<1>2. CASE Boot
  <2>1. CASE Load
    <3>1. \A h \in Ids : disk[h].tok \in Token
      BY <1>0 DEF ProcessOK
    <3>2. NoToken \in Token
      BY CredentialAssumption DEF NoToken, Token, NoAccess, Access, ProcessOK
    <3> QED
      BY <2>1, <3>1, <3>2, <1>0 DEF Load, MapsOK
  <2>2. CASE LoadFails
    BY <2>2, <1>1 DEF LoadFails
  <2>3. CASE EnsureStaticAuth
    <3>1. tok' = tok /\ same' = same
      BY <2>3, <1>0 DEF EnsureStaticAuth, upsert, MapsOK, ProcessOK, Holders
    <3> QED
      BY <3>1, <1>1
  <2>4. CASE \E i \in Ids : DisableOther(i)
    BY <2>4, <1>1 DEF DisableOther
  <2>5. CASE Serve
    BY <2>5, <1>1 DEF Serve, stores
  <2> QED
    BY <1>2, <2>1, <2>2, <2>3, <2>4, <2>5 DEF Boot
<1>3. CASE Crash
  <2>1. NoToken \in Token
    BY CredentialAssumption DEF NoToken, Token, NoAccess, Access
  <2> QED
    BY <1>3, <2>1 DEF Crash, MapsOK
<1>4. CASE Tick \/ OAuthStart \/ \E f \in Flows : OAuthCallbackLate(f)
  BY <1>4, <1>1 DEF Tick, OAuthStart, OAuthCallbackLate, stores
<1>5. ASSUME NEW w \in Workers, SignIn(w) PROVE MapsOK'
  <2>1. ASSUME NEW f \in Flows, OAuthCallback(w, f) PROVE MapsOK'
    BY <2>1, <1>0, Typed, CloneMaps DEF OAuthCallback, Exchange
  <2>2. CASE Install(w)
    <3>1. Clone(job[w].id, w) /\ job[w] # Idle
      BY <2>2 DEF Install, Update, Doing, Idle
    <3> QED
      BY <3>1, <1>0, Typed, CloneMaps
  <2>3. CASE SaveLogin(w)
    BY <2>3, <1>0, EndMaps DEF SaveLogin
  <2> QED
    BY <1>5, <2>1, <2>2, <2>3 DEF SignIn
<1>6. ASSUME NEW w \in Workers, Request(w) PROVE MapsOK'
  <2>1. ASSUME NEW k, NEW i \in Ids, Pick(w, k, i) PROVE MapsOK'
    BY <2>1, <1>0, CloneMaps DEF Pick, Holders
  <2>2. CASE Read(w) \/ Refresh(w)
    BY <2>2, <1>1 DEF Read, Refresh, stores
  <2>3. CASE ServeCached(w) \/ Leave(w) \/ Save(w)
    BY <2>3, <1>0, EndMaps DEF ServeCached, Leave, Save
  <2>4. CASE PersistTokens(w)
    <3>1. job[w] \in Job /\ job[w] # Idle
      BY <2>4, Typed DEF PersistTokens, Doing, Idle
    <3>2. PICK r \in Granted(w) : Put(w, [tok[w] EXCEPT !.access = arrived(w), !.refresh = r])
      BY <2>4 DEF PersistTokens
    <3>4. r \in 0..MaxFlows
      BY <3>1, GrantedForms, Typed DEF Job, Token
    <3>3. [tok[w] EXCEPT !.access = arrived(w), !.refresh = r] \in Token
      BY <1>0, <3>1, <3>4, Typed, Arrived DEF Token
    <3> QED
      BY <2>4, <3>2, <3>3, <1>0, Typed, PutMaps DEF PersistTokens
  <2>5. CASE PersistExpiry(w)
    <3>1. job[w] \in Job
      BY <2>5, Typed DEF PersistExpiry, Doing, Idle
    <3>2. [tok[w] EXCEPT !.files = job[w].access.files, !.exp = job[w].at] \in Token
      BY <3>1, Typed DEF Token, Job, Access
    <3> QED
      BY <2>5, <3>2, <1>0, Typed, PutMaps DEF PersistExpiry
  <2> QED
    BY <1>6, <2>1, <2>2, <2>3, <2>4, <2>5 DEF Request
<1> QED
  BY <1>2, <1>3, <1>4, <1>5, <1>6 DEF Next

\* A save, done or not, keeps the types of files and faults.
LEMMA SavedTyped ==
    ASSUME ProcessOK, NEW i \in Ids, NEW st \in {"on", "off"}, NEW t \in Token,
           Saved(i, [status |-> st, tok |-> t]) \/ NotSaved
    PROVE  /\ disk' \in [Ids -> [status : {"absent", "on", "off"}, tok : Token]]
           /\ faults' \in 0..MaxFaults
BY CredentialAssumption DEF ProcessOK, Saved, NotSaved

\* The histories of the sign-ins.
LEMMA HistoryTyped ==
    ASSUME ProcessOK, NEW w \in Workers
    PROVE  /\ job[w] # Idle /\ Overtakes(w) =>
                  /\ latest' \in [Ids -> [flow : 0..MaxFlows, saved : BOOLEAN]]
                  /\ stale' \subseteq Workers
           /\ \A i \in Ids : Loses(i) =>
                  /\ latest' \in [Ids -> [flow : 0..MaxFlows, saved : BOOLEAN]]
                  /\ stale' \subseteq Workers
           /\ job[w] # Idle /\ WritesBack(w) =>
                  /\ latest' \in [Ids -> [flow : 0..MaxFlows, saved : BOOLEAN]]
                  /\ stale' \subseteq Workers
           /\ \A pcs : Meets(w, pcs) => raced' \in BOOLEAN
<1> USE CredentialAssumption DEF ProcessOK
<1>1. job[w] # Idle => job[w].id \in Ids /\ job[w].flow \in 0..MaxFlows
  BY DEF Job
<1>2. Nobody \in [flow : 0..MaxFlows, saved : BOOLEAN]
  BY DEF Nobody
<1>3. \A i \in Ids : Loses(i) =>
          /\ latest' \in [Ids -> [flow : 0..MaxFlows, saved : BOOLEAN]]
          /\ stale' \subseteq Workers
  BY <1>2 DEF Loses
<1>4. job[w] # Idle /\ Overtakes(w) =>
          /\ latest' \in [Ids -> [flow : 0..MaxFlows, saved : BOOLEAN]]
          /\ stale' \subseteq Workers
  BY <1>1 DEF Overtakes
<1>5. \A pcs : Meets(w, pcs) => raced' \in BOOLEAN
  BY DEF Meets
<1> QED
  BY <1>1, <1>3, <1>4, <1>5 DEF WritesBack

LEMMA BootProcessOK == TypeOK /\ (Boot \/ Crash) => ProcessOK'
<1> SUFFICES ASSUME TypeOK, Boot \/ Crash PROVE ProcessOK'
  OBVIOUS
<1>0. MapsOK /\ ProcessOK /\ tok[config] \in Token /\ \A i \in Ids : tok[i] \in Token
  BY TypeParts DEF MapsOK, ProcessOK, Holders
<1> USE CredentialAssumption
<1>1. CASE Load
  BY <1>0, <1>1 DEF Load, ProcessOK, history
<1>2. CASE LoadFails
  <2>1. Nobody \in [flow : 0..MaxFlows, saved : BOOLEAN]
    BY DEF Nobody
  <2> QED
    BY <1>0, <1>2, <2>1 DEF LoadFails, NotSaved, ProcessOK
<1>3. CASE EnsureStaticAuth
  <2>1. /\ disk' \in [Ids -> [status : {"absent", "on", "off"}, tok : Token]]
        /\ faults' \in 0..MaxFaults
    BY <1>0, <1>3, SavedTyped DEF EnsureStaticAuth, upsert, ProcessOK
  <2> QED
    BY <1>0, <1>3, <2>1 DEF EnsureStaticAuth, ProcessOK, history
<1>4. ASSUME NEW i \in Ids, DisableOther(i) PROVE ProcessOK'
  <2>1. /\ disk' \in [Ids -> [status : {"absent", "on", "off"}, tok : Token]]
        /\ faults' \in 0..MaxFaults
    BY <1>0, <1>4, SavedTyped DEF DisableOther
  <2> QED
    BY <1>0, <1>4, <2>1 DEF DisableOther, ProcessOK, history, process
<1>5. CASE Serve
  BY <1>0, <1>5 DEF Serve, ProcessOK, history, stores
<1>6. CASE Crash
  <2>1. Nobody \in [flow : 0..MaxFlows, saved : BOOLEAN]
    BY DEF Nobody
  <2> QED
    BY <1>0, <1>6, <2>1 DEF Crash, ProcessOK
<1> QED
  BY <1>1, <1>2, <1>3, <1>4, <1>5, <1>6 DEF Boot

LEMMA SignInProcessOK ==
    TypeOK /\ (Tick \/ OAuthStart \/ (\E f \in Flows : OAuthCallbackLate(f))
               \/ \E w \in Workers : SignIn(w)) => ProcessOK'
<1> SUFFICES ASSUME TypeOK,
                    Tick \/ OAuthStart \/ (\E f \in Flows : OAuthCallbackLate(f))
                        \/ \E w \in Workers : SignIn(w)
             PROVE  ProcessOK'
  OBVIOUS
<1>0. ProcessOK
  BY TypeParts
<1> USE CredentialAssumption
<1>1. CASE Tick
  BY <1>0, <1>1 DEF Tick, ProcessOK, process, stores, history
<1>2. CASE OAuthStart
  <2>1. begun' \in Flows /\ begun' \in 0..MaxFlows
    BY <1>0, <1>2 DEF OAuthStart, ProcessOK, Flows
  <2> QED
    BY <1>0, <1>2, <2>1 DEF OAuthStart, Remember, ProcessOK, process, stores, history
<1>3. ASSUME NEW f \in Flows, OAuthCallbackLate(f) PROVE ProcessOK'
  BY <1>0, <1>3 DEF OAuthCallbackLate, Forget, ProcessOK, process, stores, history
<1>4. ASSUME NEW w \in Workers, NEW f \in Flows, OAuthCallback(w, f) PROVE ProcessOK'
  <2>1. [pc |-> "reply", kind |-> "login", id |-> config, flow |-> f,
         access |-> issued(f), at |-> 0] \in Job
    BY <1>0, Issued DEF ProcessOK, Job, Flows
  <2> QED
    BY <1>0, <1>4, <2>1 DEF OAuthCallback, Exchange, Forget, ProcessOK, process, history
<1>5. ASSUME NEW w \in Workers, Install(w) PROVE ProcessOK'
  <2>1. job[w] # Idle /\ job[w] \in Job /\ job[w].id \in Ids
    BY <1>0, <1>5, JobMoves DEF Install, Doing, Idle, Job
  <2>2. job' \in [Workers -> Job \cup {Idle}]
    BY <1>0, <1>5, <2>1 DEF Install, Goto, ProcessOK, Job
  <2>3. /\ latest' \in [Ids -> [flow : 0..MaxFlows, saved : BOOLEAN]]
        /\ stale' \subseteq Workers
    BY <1>0, <1>5, <2>1, HistoryTyped DEF Install
  <2> QED
    BY <1>0, <1>5, <2>2, <2>3 DEF Install, ProcessOK, process
<1>6. ASSUME NEW w \in Workers, SaveLogin(w) PROVE ProcessOK'
  <2>1. job[w] # Idle /\ job[w] \in Job /\ job[w].id \in Ids /\ tok[w] \in Token
    BY <1>0, <1>6, JobMoves, Typed DEF SaveLogin, Doing, Idle, Job
  <2>2. job' \in [Workers -> Job \cup {Idle}]
    BY <1>0, <1>6 DEF SaveLogin, End, ProcessOK
  <2>3. /\ disk' \in [Ids -> [status : {"absent", "on", "off"}, tok : Token]]
        /\ faults' \in 0..MaxFaults
    BY <1>0, <1>6, <2>1, SavedTyped DEF SaveLogin
  <2>4. /\ latest' \in [Ids -> [flow : 0..MaxFlows, saved : BOOLEAN]]
        /\ stale' \subseteq Workers /\ login' \subseteq Ids
    <3>1. latest' = [latest EXCEPT ![job[w].id].saved = TRUE]
             => latest' \in [Ids -> [flow : 0..MaxFlows, saved : BOOLEAN]]
      <4> DEFINE i == job[w].id
                 done == [latest[i] EXCEPT !.saved = TRUE]
      <4>1. i \in Ids /\ latest \in [Ids -> [flow : 0..MaxFlows, saved : BOOLEAN]]
        BY <1>0, <2>1 DEF ProcessOK
      <4>2. done \in [flow : 0..MaxFlows, saved : BOOLEAN]
        BY <4>1
      <4>3. [latest EXCEPT ![i].saved = TRUE] = [latest EXCEPT ![i] = done]
        OBVIOUS
      <4> HIDE DEF done, i
      <4>4. [latest EXCEPT ![i] = done] \in [Ids -> [flow : 0..MaxFlows, saved : BOOLEAN]]
        BY <4>1, <4>2
      <4> QED
        BY <4>3, <4>4 DEF i
    <3>2. login' \in {login, login \cup {job[w].id}}
      BY <1>6 DEF SaveLogin
    <3> QED
      BY <1>0, <1>6, <2>1, <3>1, <3>2, HistoryTyped DEF SaveLogin, ProcessOK
  <2>5. raced' \in BOOLEAN
    BY <1>0, <1>6, HistoryTyped DEF SaveLogin
  <2> QED
    BY <1>0, <1>6, <2>2, <2>3, <2>4, <2>5 DEF SaveLogin, ProcessOK, process
<1> QED
  BY <1>1, <1>2, <1>3, <1>4, <1>5, <1>6 DEF SignIn

LEMMA RequestProcessOK ==
    ASSUME TypeOK, NEW w \in Workers, Request(w) PROVE ProcessOK'
<1>0. ProcessOK
  BY TypeParts
<1> USE CredentialAssumption
<1>1. ASSUME NEW k \in {"text", "image"}, NEW i \in Ids, Pick(w, k, i) PROVE ProcessOK'
  <2>1. [pc |-> "read", kind |-> k, id |-> i, flow |-> 0, access |-> NoAccess, at |-> 0] \in Job
    BY DEF Job, NoAccess, Access
  <2> QED
    BY <1>0, <1>1, <2>1 DEF Pick, ProcessOK, process, history
<1>2. CASE Read(w)
  <2>1. job[w] \in Job /\ tok[w] \in Token
    BY <1>2, Typed DEF Read, Doing, Idle
  <2>2. [job[w] EXCEPT !.pc = "decide", !.access = tok[w].access, !.flow = tok[w].refresh] \in Job
    BY <2>1 DEF Job, Token
  <2>3. raced' \in BOOLEAN
    BY <1>0, <1>2, HistoryTyped DEF Read
  <2> QED
    BY <1>0, <1>2, <2>2, <2>3 DEF Read, ProcessOK, process, stores
<1>3. CASE ServeCached(w) \/ Leave(w)
  BY <1>0, <1>3 DEF ServeCached, Leave, End, ProcessOK, process
<1>4. CASE Refresh(w)
  <2>1. job[w] \in Job
    BY <1>4, Typed DEF Refresh, Doing, Idle
  <2>2. [job[w] EXCEPT !.pc = "reply", !.access = issued(job[w].flow)] \in Job
    BY <1>0, <2>1, Issued DEF Job
  <2> QED
    BY <1>0, <1>4, <2>2 DEF Refresh, ProcessOK, process, stores, history
<1>5. CASE PersistTokens(w)
  <2>1. job[w] \in Job /\ job[w] # Idle
    BY <1>5, Typed DEF PersistTokens, Doing, Idle
  <2>2. [job[w] EXCEPT !.pc = "expiry", !.access = arrived(w), !.at = expiresAt] \in Job
    BY <1>0, <2>1, Issued, Arrived DEF Job
  <2>3. /\ latest' \in [Ids -> [flow : 0..MaxFlows, saved : BOOLEAN]]
        /\ stale' \subseteq Workers /\ raced' \in BOOLEAN
    BY <1>0, <1>5, <2>1, HistoryTyped DEF PersistTokens
  <2> QED
    BY <1>0, <1>5, <2>2, <2>3 DEF PersistTokens, ProcessOK, process
<1>6. CASE PersistExpiry(w)
  <2>1. job[w] \in Job
    BY <1>6, Typed DEF PersistExpiry, Doing, Idle
  <2>2. \A p \in {"install", "save"} : [job[w] EXCEPT !.at = 0, !.pc = p] \in Job
    <3> TAKE p \in {"install", "save"}
    <3>1. [job[w] EXCEPT !.at = 0] \in Job
      BY <2>1 DEF Job
    <3>2. [[job[w] EXCEPT !.at = 0] EXCEPT !.pc = p] \in Job
      BY <3>1 DEF Job
    <3> QED
      BY <3>2
  <2>3. raced' \in BOOLEAN
    BY <1>0, <1>6, HistoryTyped DEF PersistExpiry
  <2> QED
    BY <1>0, <1>6, <2>2, <2>3 DEF PersistExpiry, ProcessOK, process
<1>7. CASE Save(w)
  <2>1. job[w] # Idle /\ job[w].id \in Ids /\ tok[w] \in Token
    BY <1>7, Typed DEF Save, Doing, Idle, Job
  <2>2. /\ disk' \in [Ids -> [status : {"absent", "on", "off"}, tok : Token]]
        /\ faults' \in 0..MaxFaults
    BY <1>0, <1>7, <2>1, SavedTyped DEF Save
  <2>3. /\ latest' \in [Ids -> [flow : 0..MaxFlows, saved : BOOLEAN]]
        /\ stale' \subseteq Workers /\ raced' \in BOOLEAN
    BY <1>0, <1>7, <2>1, HistoryTyped DEF Save, ProcessOK
  <2> QED
    BY <1>0, <1>7, <2>2, <2>3 DEF Save, End, ProcessOK, process
<1> QED
  BY <1>1, <1>2, <1>3, <1>4, <1>5, <1>6, <1>7 DEF Request

LEMMA StepTypeOK == TypeOK /\ [Next]_vars => TypeOK'
<1> SUFFICES ASSUME TypeOK, [Next]_vars PROVE TypeOK'
  OBVIOUS
<1>1. CASE UNCHANGED vars
  BY <1>1 DEF TypeOK, vars, process, stores, history
<1>2. CASE Next
  <2>1. MapsOK'
    BY <1>2, StepMapsOK
  <2>2. ProcessOK'
    BY <1>2, BootProcessOK, SignInProcessOK, RequestProcessOK DEF Next
  <2> QED
    BY <2>1, <2>2 DEF TypeOK, MapsOK, ProcessOK
<1> QED
  BY <1>1, <1>2

\* Every variable keeps its type, for any number of accounts and goroutines.
THEOREM TypeCorrect == Spec => []TypeOK
BY InitTypeOK, StepTypeOK, PTL DEF Spec

-----------------------------------------------------------------------------
(* Only the configured account serves.                                     *)

\* The routes are open once the other accounts are off, and nothing runs
\* before that; every goroutine works on the configured account.
ServingInv ==
    /\ phase = "serving" => OthersDisabled
    /\ \A w \in Workers : job[w] # Idle => phase = "serving" /\ job[w].id = config

LEMMA StepServing == TypeOK /\ ServingInv /\ [Next]_vars => ServingInv'
<1> SUFFICES ASSUME TypeOK, ServingInv, [Next]_vars PROVE ServingInv'
  OBVIOUS
<1>0. job \in [Workers -> Job \cup {Idle}] /\ config \in Ids
  BY DEF TypeOK
<1> USE DEF ServingInv, OthersDisabled
<1>1. CASE UNCHANGED vars
  BY <1>1 DEF vars, process, stores
<1>2. CASE Boot
  BY <1>2 DEF Boot, Load, LoadFails, EnsureStaticAuth, DisableOther, Serve, process, stores
<1>3. CASE Crash
  BY <1>3 DEF Crash
<1>4. CASE Tick \/ OAuthStart \/ \E f \in Flows : OAuthCallbackLate(f)
  BY <1>4 DEF Tick, OAuthStart, OAuthCallbackLate, process, stores
<1>5. ASSUME NEW w \in Workers, UNCHANGED <<process, account>>,
             NEW j \in Job, job' = [job EXCEPT ![w] = j],
             phase = "serving" /\ j.id = config
      PROVE  ServingInv'
  BY <1>0, <1>5 DEF process
<1>6. ASSUME NEW w \in Workers, UNCHANGED <<process, account>>, End(w)
      PROVE  ServingInv'
  BY <1>0, <1>6 DEF process, End
<1>7. ASSUME NEW w \in Workers, UNCHANGED <<process, account>>, job[w] # Idle,
             NEW j, job' = [job EXCEPT ![w] = j], j.id = job[w].id
      PROVE  ServingInv'
  BY <1>0, <1>7 DEF process
<1>8. ASSUME NEW w \in Workers, SignIn(w) PROVE ServingInv'
  <2>1. ASSUME NEW f \in Flows, OAuthCallback(w, f) PROVE ServingInv'
    BY <1>0, <2>1 DEF OAuthCallback, Exchange, process
  <2>2. CASE Install(w)
    <3>1. job[w] \in Job /\ job[w] # Idle
      BY <2>2, Typed DEF Install, Doing, Idle
    <3>2. job' = [job EXCEPT ![w] = [@ EXCEPT !.pc = "save"]]
      BY <2>2 DEF Install, Goto
    <3>3. [job[w] EXCEPT !.pc = "save"].id = job[w].id
      BY <3>1 DEF Job
    <3> QED
      BY <2>2, <3>1, <3>2, <3>3, <1>7 DEF Install
  <2>3. CASE SaveLogin(w)
    BY <2>3, <1>6 DEF SaveLogin
  <2> QED
    BY <1>8, <2>1, <2>2, <2>3 DEF SignIn
<1>9. ASSUME NEW w \in Workers, Request(w) PROVE ServingInv'
  <2>1. ASSUME NEW k, NEW i \in Ids, Pick(w, k, i) PROVE ServingInv'
    <3>1. i = config
      BY <2>1 DEF Pick
    <3> QED
      BY <1>0, <2>1, <3>1 DEF Pick, process
  <2>2. job[w] # Idle => job[w] \in Job
    BY Typed
  <2>3. CASE Read(w)
    <3>1. job[w] # Idle
      BY <2>3 DEF Read, Doing, Idle
    <3>2. [job[w] EXCEPT !.pc = "decide", !.access = tok[w].access,
                         !.flow = tok[w].refresh].id = job[w].id
      BY <2>2, <3>1 DEF Job
    <3> QED
      BY <2>3, <3>1, <3>2, <1>7 DEF Read, stores
  <2>4. CASE Refresh(w)
    <3>1. job[w] # Idle
      BY <2>4 DEF Refresh, Doing, Idle
    <3>2. [job[w] EXCEPT !.pc = "reply", !.access = issued(job[w].flow)].id = job[w].id
      BY <2>2, <3>1 DEF Job
    <3> QED
      BY <2>4, <3>1, <3>2, <1>7 DEF Refresh, stores
  <2>5. CASE PersistTokens(w)
    <3>1. job[w] # Idle
      BY <2>5 DEF PersistTokens, Doing, Idle
    <3>2. [job[w] EXCEPT !.pc = "expiry", !.access = arrived(w), !.at = expiresAt].id = job[w].id
      BY <2>2, <3>1 DEF Job
    <3> QED
      BY <2>5, <3>1, <3>2, <1>7 DEF PersistTokens
  <2>6. CASE PersistExpiry(w)
    <3>1. job[w] # Idle
      BY <2>6 DEF PersistExpiry, Doing, Idle
    <3>2. \A p : [job[w] EXCEPT !.at = 0, !.pc = p].id = job[w].id
      BY <2>2, <3>1 DEF Job
    <3> QED
      BY <2>6, <3>1, <3>2, <1>7 DEF PersistExpiry
  <2>7. CASE ServeCached(w) \/ Leave(w) \/ Save(w)
    BY <2>7, <1>6 DEF ServeCached, Leave, Save
  <2> QED
    BY <1>9, <2>1, <2>3, <2>4, <2>5, <2>6, <2>7 DEF Request
<1> QED
  BY <1>1, <1>2, <1>3, <1>4, <1>8, <1>9 DEF Next

\* Whatever accounts the files hold, and wherever an earlier start died, the
\* requests of a process are sent with the configured account.
THEOREM OnlyConfiguredServes == Spec => []ConfiguredAccountServes
<1>1. Init => ServingInv
  BY DEF Init, ServingInv
<1>2. ServingInv => ConfiguredAccountServes
  BY DEF ServingInv, ConfiguredAccountServes
<1> QED
  BY <1>1, <1>2, TypeCorrect, StepServing, PTL DEF Spec

-----------------------------------------------------------------------------
(* A sign-in is honoured once.                                             *)

\* What the store holds has not been redeemed, and was put by this process.
PendingInv ==
    \A f \in Flows :
        /\ pending[f] # Never =>
               /\ phase = "serving" /\ f =< begun
               /\ redeemed[f] = [times |-> 0, put |-> pending[f], start |-> starts]
        /\ f > begun => redeemed[f].times = 0

LEMMA StepPending == TypeOK /\ PendingInv /\ [Next]_vars => PendingInv'
<1> SUFFICES ASSUME TypeOK, PendingInv, [Next]_vars PROVE PendingInv'
  OBVIOUS
<1>0. /\ pending \in [Flows -> 0..MaxTime \cup {Never}] /\ begun \in 0..MaxFlows
      /\ redeemed \in [Flows -> [times : Nat, put : 0..MaxTime, start : 0..MaxStarts]]
  BY DEF TypeOK
<1> USE CredentialAssumption DEF PendingInv, Flows
<1>1. CASE UNCHANGED <<pending, redeemed, begun, phase, starts>>
  BY <1>1
<1>2. CASE Boot
  BY <1>2 DEF Boot, Load, LoadFails, EnsureStaticAuth, DisableOther, Serve, process
<1>3. CASE Crash
  BY <1>0, <1>3 DEF Crash
<1>4. CASE OAuthStart
  BY <1>0, <1>4 DEF OAuthStart, Remember, process
<1>5. ASSUME NEW f \in Flows, OAuthCallbackLate(f) PROVE PendingInv'
  BY <1>0, <1>5 DEF OAuthCallbackLate, Forget, process
<1>6. ASSUME NEW w \in Workers, NEW f \in Flows, OAuthCallback(w, f) PROVE PendingInv'
  <2>1. f =< begun
    BY <1>0, <1>6 DEF OAuthCallback
  <2> QED
    BY <1>0, <1>6, <2>1 DEF OAuthCallback, Forget, process
<1>7. ASSUME NEW w \in Workers, Install(w) \/ SaveLogin(w) \/ Request(w)
      PROVE  UNCHANGED <<pending, redeemed, begun, phase, starts>>
  BY <1>7 DEF Install, SaveLogin, Request, Pick, Read, ServeCached, Refresh, Leave,
              PersistTokens, PersistExpiry, Save, process
<1> QED
  BY <1>1, <1>2, <1>3, <1>4, <1>5, <1>6, <1>7 DEF Next, SignIn, Tick, vars, process

LEMMA HonouredOnce ==
    ASSUME TypeOK, PendingInv, [Next]_vars, NEW f \in Flows,
           redeemed'[f].times # redeemed[f].times
    PROVE  /\ redeemed[f].times = 0
           /\ now - redeemed[f].put =< TTL
           /\ redeemed[f].start = starts
<1>0. /\ pending \in [Flows -> 0..MaxTime \cup {Never}] /\ begun \in 0..MaxFlows
      /\ redeemed \in [Flows -> [times : Nat, put : 0..MaxTime, start : 0..MaxStarts]]
      /\ now \in 0..MaxTime
  BY DEF TypeOK
<1>1. redeemed' # redeemed
  OBVIOUS
<1>2. CASE OAuthStart
  <2>1. redeemed[begun'].times = 0
    BY <1>0, <1>2, CredentialAssumption DEF OAuthStart, PendingInv, Flows
  <2> QED
    BY <1>0, <1>2, <2>1 DEF OAuthStart
<1>3. CASE \E w \in Workers, g \in Flows : OAuthCallback(w, g)
  <2>1. PICK w \in Workers, g \in Flows : OAuthCallback(w, g)
    BY <1>3
  <2>2. g = f
    BY <1>0, <2>1 DEF OAuthCallback
  <2> QED
    BY <1>0, <2>1, <2>2, CredentialAssumption DEF OAuthCallback, expired, PendingInv, Never
<1>4. \/ OAuthStart
      \/ \E w \in Workers, g \in Flows : OAuthCallback(w, g)
      \/ UNCHANGED redeemed
  <2>1. CASE Boot \/ Crash \/ Tick \/ \E g \in Flows : OAuthCallbackLate(g)
    BY <2>1 DEF Boot, Load, LoadFails, EnsureStaticAuth, DisableOther, Serve, Crash, Tick,
                OAuthCallbackLate
  <2>2. ASSUME NEW w \in Workers, Install(w) \/ SaveLogin(w) \/ Request(w)
        PROVE  UNCHANGED redeemed
    BY <2>2 DEF Install, SaveLogin, Request, Pick, Read, ServeCached, Refresh, Leave,
                PersistTokens, PersistExpiry, Save
  <2> QED
    BY <2>1, <2>2 DEF Next, SignIn, vars
<1> QED
  BY <1>1, <1>2, <1>3, <1>4

\* However often and whenever its callback arrives, a sign-in is honoured at
\* most once, within its TTL, by the process that began it.
THEOREM RedeemedOnce == Spec => OneRedemption
<1> DEFINE Once == \A f \in Flows : redeemed'[f].times # redeemed[f].times =>
                       /\ redeemed[f].times = 0
                       /\ now - redeemed[f].put =< TTL
                       /\ redeemed[f].start = starts
<1>1. Init => PendingInv
  BY DEF Init, PendingInv
<1>2. TypeOK /\ PendingInv /\ [Next]_vars => [Once]_vars
  BY HonouredOnce
<1> HIDE DEF Once
<1>3. Spec => [][Once]_vars
  BY <1>1, <1>2, TypeCorrect, StepPending, PTL DEF Spec
<1> QED
  BY <1>3 DEF OneRedemption, Once

-----------------------------------------------------------------------------
(* Who shares a map.                                                       *)

\* Who holds one map sees one token; only the configured account's map is shared.
MapInv ==
    /\ \A g, h \in Holders : g \in same[h] => tok[g] = tok[h]
    /\ ~shared => \A h \in Holders : same[h] = {h}
    /\ \A h \in Holders : phase # "serving" \/ h \in Ids \ {config} => same[h] = {h}

LEMMA CloneMap ==
    ASSUME TypeOK, MapInv, phase = "serving", UNCHANGED <<shared, phase, config>>,
           NEW g \in Workers \cup {config}, NEW h \in Workers \cup {config}, Clone(g, h)
    PROVE  MapInv'
<1> DEFINE group == IF shared /\ tok[h] # NoToken THEN same[h] \cup {g} ELSE {g}
<1>0. g \in Holders /\ h \in Holders /\ MapsOK
  BY TypeParts DEF TypeOK, Holders
<1>1. /\ tok'[g] = tok[h] /\ \A k \in Holders \ {g} : tok'[k] = tok[k]
      /\ \A k \in Holders : same'[k] = IF k \in group THEN group ELSE same[k] \ {g}
      /\ g \in group
  BY <1>0, CloneTokens DEF Clone
<1>2. \A k \in Holders : k \in same[k] /\ \A a \in same[k] : a \in Holders /\ same[a] = same[k]
  BY <1>0, SameClasses DEF MapsOK
<1>3. \A k \in group : k \in Holders /\ tok'[k] = tok[h]
  BY <1>0, <1>1, <1>2 DEF MapInv
<1>4. \A a, b \in Holders : a \in same'[b] => tok'[a] = tok'[b]
  <2> SUFFICES ASSUME NEW a \in Holders, NEW b \in Holders, a \in same'[b] PROVE tok'[a] = tok'[b]
    OBVIOUS
  <2> HIDE DEF group
  <2>1. CASE b \in group
    BY <1>1, <1>3, <2>1
  <2>2. CASE b \notin group
    BY <1>1, <2>2 DEF MapInv
  <2> QED
    BY <2>1, <2>2
<1>5. ASSUME ~shared, NEW k \in Holders PROVE same'[k] = {k}
  BY <1>1, <1>5 DEF MapInv
<1>6. ASSUME NEW k \in Ids \ {config} PROVE same'[k] = {k}
  <2>1. k \in Holders /\ same[k] = {k} /\ k # g /\ k # h
    BY CredentialAssumption, <1>6 DEF MapInv, Holders
  <2>2. k \notin group
    BY <1>0, <1>2, <2>1
  <2> QED
    BY <1>1, <2>1, <2>2
<1> QED
  BY <1>4, <1>5, <1>6 DEF MapInv, Holders

LEMMA PutMap ==
    ASSUME TypeOK, MapInv, NEW h \in Holders, NEW t \in Token, Put(h, t),
           UNCHANGED <<same, shared, phase, config>>
    PROVE  MapInv'
<1>1. \A a, b \in Holders : a \in same[b] => same[a] = same[b]
  BY SameClasses, TypeParts
<1>2. \A k \in Holders : tok'[k] = IF k \in same[h] THEN t ELSE tok[k]
  BY DEF Put
<1>3. \A a, b \in Holders : a \in same[h] /\ b \in same[a] => b \in same[h]
  BY <1>1
<1>4. \A a, b \in Holders : a \in same[b] => b \in same[a]
  BY SameClasses, TypeParts
<1>5. \A a, b \in Holders : a \in same[b] => tok'[a] = tok'[b]
  BY <1>1, <1>2, <1>3, <1>4 DEF MapInv
<1> QED
  BY <1>5 DEF MapInv

LEMMA EndMap ==
    ASSUME TypeOK, MapInv, NEW w \in Workers, End(w), UNCHANGED <<shared, phase, config>>
    PROVE  MapInv'
<1>1. /\ \A k \in Holders \ {w} : tok'[k] = tok[k]
      /\ \A k \in Holders : same'[k] = IF k = w THEN {w} ELSE same[k] \ {w}
  BY EndMaps, TypeParts DEF End
<1> QED
  BY <1>1, CredentialAssumption DEF MapInv, Holders

LEMMA StepMap == TypeOK /\ ServingInv /\ MapInv /\ [Next]_vars => MapInv'
<1> SUFFICES ASSUME TypeOK, ServingInv, MapInv, [Next]_vars PROVE MapInv'
  OBVIOUS
<1>0. TypeOK /\ ServingInv /\ config \in Holders
  BY DEF TypeOK, Holders
<1>1. CASE UNCHANGED <<tok, same, shared, config>> /\ (phase' = phase \/ phase' = "serving")
  BY <1>1 DEF MapInv
<1>2. CASE Boot
  <2>1. CASE Load
    BY <2>1 DEF Load, MapInv
  <2>2. CASE LoadFails
    BY <2>2 DEF LoadFails, MapInv
  <2>3. CASE EnsureStaticAuth
    <3>1. tok' = tok /\ phase = "loaded" /\ phase' = "registered" /\ UNCHANGED <<same, shared, config>>
      BY <1>0, <2>3 DEF EnsureStaticAuth, upsert, TypeOK
    <3> QED
      BY <3>1 DEF MapInv
  <2>4. CASE \E i \in Ids : DisableOther(i)
    BY <1>1, <2>4 DEF DisableOther, process
  <2>5. CASE Serve
    BY <1>1, <2>5 DEF Serve, stores
  <2> QED
    BY <1>2, <2>1, <2>2, <2>3, <2>4, <2>5 DEF Boot
<1>3. CASE Crash
  <2>1. \A h \in Holders : tok'[h] = NoToken /\ same'[h] = {h}
    BY <1>3 DEF Crash
  <2> QED
    BY <2>1 DEF MapInv
<1>4. CASE Tick \/ OAuthStart \/ (\E f \in Flows : OAuthCallbackLate(f)) \/ UNCHANGED vars
  BY <1>1, <1>4 DEF Tick, OAuthStart, OAuthCallbackLate, stores, process, vars
<1>5. ASSUME NEW w \in Workers, SignIn(w) PROVE MapInv'
  <2>1. ASSUME NEW f \in Flows, OAuthCallback(w, f) PROVE MapInv'
    BY <1>0, <2>1, CloneMap DEF OAuthCallback, Exchange, process
  <2>2. CASE Install(w)
    BY <1>0, <2>2, CloneMap DEF Install, Update, Doing, Idle, ServingInv, process
  <2>3. CASE SaveLogin(w)
    BY <1>0, <2>3, EndMap DEF SaveLogin, process
  <2> QED
    BY <1>5, <2>1, <2>2, <2>3 DEF SignIn
<1>6. ASSUME NEW w \in Workers, Request(w) PROVE MapInv'
  <2>1. ASSUME NEW k, NEW i \in Ids, Pick(w, k, i) PROVE MapInv'
    <3>1. i = config
      BY <1>0, <2>1 DEF Pick, ServingInv, OthersDisabled
    <3> QED
      BY <1>0, <2>1, <3>1, CloneMap DEF Pick, process
  <2>2. CASE Read(w) \/ Refresh(w)
    BY <1>1, <2>2 DEF Read, Refresh, stores, process
  <2>3. CASE ServeCached(w) \/ Leave(w) \/ Save(w)
    BY <1>0, <2>3, EndMap DEF ServeCached, Leave, Save, process
  <2>4. CASE PersistTokens(w) \/ PersistExpiry(w)
    <3>1. PICK t \in Token : Put(w, t)
      <4>1. tok'[w] \in Token
        BY <1>0, <1>6, StepMapsOK DEF Next, MapsOK, Holders
      <4>2. \E t : Put(w, t)
        BY <2>4 DEF PersistTokens, PersistExpiry
      <4>3. \A t : Put(w, t) => tok'[w] = t
        BY <1>0, SameClasses, TypeParts DEF Put, Holders
      <4> QED
        BY <4>1, <4>2, <4>3
    <3> QED
      BY <1>0, <2>4, <3>1, PutMap DEF PersistTokens, PersistExpiry, process, Holders
  <2> QED
    BY <1>6, <2>1, <2>2, <2>3, <2>4 DEF Request
<1> QED
  BY <1>2, <1>3, <1>4, <1>5, <1>6 DEF Next

-----------------------------------------------------------------------------
(* Logins are kept.                                                        *)

\* A goroutine that is going to write has a refresh token in its map, and one
\* that read a refresh token still has one.  While sign-ins bring none, the
\* goroutines have one if the account has.
Writer(w) ==
    LET j == job[w] IN
    /\ j.pc \in {"expiry", "install", "save"} =>
           tok[w].refresh # 0 \/ (j.kind = "login" /\ starts \notin OfflineStarts)
    /\ j # Idle /\ j.kind = "login" =>
           /\ j.flow # 0 /\ j.pc # "read"
           /\ j.pc = "save" /\ starts \in OfflineStarts => tok[j.id].refresh # 0
    /\ j # Idle /\ starts \notin OfflineStarts =>
           (tok[w].refresh # 0 <=> tok[j.id].refresh # 0)
    /\ j # Idle /\ j.kind # "login" =>
           /\ j.pc = "decide" /\ j.flow # 0 => tok[w].refresh # 0
           /\ j.pc = "reply" => j.flow # 0 /\ tok[w].refresh # 0

WriterInv == \A w \in Workers : Writer(w)

\* LoginKept, with the tokens in memory also while the account is unknown.
LoginInv ==
    /\ phase = "down" => \A i \in Ids : account[i] = "absent"
    /\ \A i \in login : /\ disk[i].tok.refresh # 0
                        /\ phase # "down" => tok[i].refresh # 0

KeptInv == TypeOK /\ ServingInv /\ MapInv /\ WriterInv /\ LoginInv

\* Nobody but w may lose a refresh token in this step, or find one while
\* sign-ins bring none.
OthersKeep(w) ==
    \A k \in Holders \ {w} :
        /\ tok[k].refresh # 0 => tok'[k].refresh # 0
        /\ starts \notin OfflineStarts /\ tok'[k].refresh # 0 => tok[k].refresh # 0

LEMMA OtherWriters ==
    ASSUME TypeOK, WriterInv, NEW w \in Workers, NEW j, job' = [job EXCEPT ![w] = j],
           OthersKeep(w), Writer(w)', starts' = starts
    PROVE  WriterInv'
<1> SUFFICES ASSUME NEW v \in Workers, v # w PROVE Writer(v)'
  BY DEF WriterInv
<1>1. job'[v] = job[v] /\ v \in Holders \ {w}
  BY DEF TypeOK, Holders
<1>2. job[v] # Idle => job[v].id \in Holders \ {w}
  BY CredentialAssumption DEF TypeOK, Job, Holders
<1>3. Writer(v)
  BY DEF WriterInv
<1>4. job'[v].pc = "save" => job'[v] # Idle
  BY DEF Idle
<1> QED
  BY <1>1, <1>2, <1>3, <1>4 DEF Writer, OthersKeep

\* In a step of w that saves nothing or saves the map it holds, logins are
\* kept: job[w].id is the only account whose file changes.
LEMMA OthersLogins ==
    ASSUME TypeOK, LoginInv, NEW w \in Workers, OthersKeep(w),
           phase' = phase, account' = account, login' = login, disk' = disk
    PROVE  LoginInv'
<1>1. \A i \in Ids : i \in Holders \ {w}
  BY CredentialAssumption DEF Holders
<1> QED
  BY <1>1 DEF LoginInv, OthersKeep, TypeOK

LEMMA CloneKeeps ==
    ASSUME TypeOK, NEW w \in Workers, NEW h \in Holders, Clone(w, h)
    PROVE  OthersKeep(w) /\ tok'[w] = tok[h]
BY TypeParts, CloneTokens DEF OthersKeep, Holders

LEMMA EndKeeps ==
    ASSUME TypeOK, WriterInv, NEW w \in Workers, End(w), starts' = starts
    PROVE  OthersKeep(w) /\ WriterInv'
<1>1. OthersKeep(w)
  BY TypeParts, EndMaps DEF OthersKeep
<1>2. Writer(w)'
  BY DEF End, Writer, Idle, TypeOK
<1> QED
  BY <1>1, <1>2, OtherWriters DEF End

LEMMA PutKeeps ==
    ASSUME TypeOK, MapInv, NEW w \in Workers, NEW t \in Token, Put(w, t), UNCHANGED same,
           t.refresh = tok[w].refresh
           \/ (t.refresh # 0 /\ (starts \in OfflineStarts \/ tok[w].refresh # 0))
    PROVE  OthersKeep(w) /\ tok'[w] = t
<1>1. /\ w \in Holders /\ w \in same[w]
      /\ \A k \in Holders : tok'[k] = IF k \in same[w] THEN t ELSE tok[k]
  BY TypeParts, SameClasses DEF Put, Holders
<1>2. \A k \in Holders : k \in same[w] => tok[k] = tok[w]
  BY <1>1 DEF MapInv
<1> QED
  BY <1>1, <1>2 DEF OthersKeep

-----------------------------------------------------------------------------
\* What a save may change.
LEMMA SavedTokens ==
    ASSUME TypeOK, NEW i \in Ids, NEW st, NEW t,
           Saved(i, [status |-> st, tok |-> t]) \/ NotSaved
    PROVE  /\ \A k \in Ids : k # i => disk'[k] = disk[k]
           /\ disk' = disk \/ disk'[i].tok = t
BY DEF Saved, NotSaved, TypeOK

LEMMA BootKept == KeptInv /\ (Boot \/ Crash) => WriterInv' /\ LoginInv'
<1> SUFFICES ASSUME KeptInv, Boot \/ Crash PROVE WriterInv' /\ LoginInv'
  OBVIOUS
<1> USE DEF KeptInv
<1>1. ASSUME job' = [w \in Workers |-> Idle] PROVE WriterInv'
  BY <1>1 DEF WriterInv, Writer, Idle
<1>2. phase # "serving" => job = [w \in Workers |-> Idle]
  BY DEF ServingInv, TypeOK
<1>3. CASE Load
  <2>1. LoginInv'
    BY <1>3 DEF Load, LoginInv, TypeOK, history, Holders
  <2> QED
    BY <1>1, <1>2, <1>3, <2>1 DEF Load
<1>4. CASE LoadFails
  BY <1>1, <1>2, <1>4 DEF LoadFails, LoginInv
<1>5. CASE EnsureStaticAuth
  <2>1. tok' = tok
    BY <1>5 DEF EnsureStaticAuth, upsert, TypeOK, Holders
  <2>2. \A i \in Ids : disk'[i].tok \in {disk[i].tok, tok[i]}
    <3>1. config \in Ids
      BY DEF TypeOK
    <3>2. Saved(config, [status |-> "on", tok |-> tok[config]]) \/ NotSaved
      BY <1>5 DEF EnsureStaticAuth, upsert
    <3> QED
      BY <3>1, <3>2, SavedTokens
  <2>3. LoginInv'
    BY <1>5, <2>1, <2>2 DEF EnsureStaticAuth, LoginInv, TypeOK, history
  <2> QED
    BY <1>1, <1>2, <1>5, <2>3 DEF EnsureStaticAuth
<1>6. ASSUME NEW i \in Ids, DisableOther(i) PROVE WriterInv' /\ LoginInv'
  <2>1. \A k \in Ids : disk'[k].tok \in {disk[k].tok, tok[k]}
    <3>1. Saved(i, [status |-> "off", tok |-> tok[i]]) \/ NotSaved
      BY <1>6 DEF DisableOther
    <3> QED
      BY <3>1, SavedTokens
  <2>2. LoginInv'
    BY <1>6, <2>1 DEF DisableOther, LoginInv, TypeOK, history, process
  <2> QED
    BY <1>1, <1>2, <1>6, <2>2 DEF DisableOther, process
<1>7. CASE Serve
  BY <1>1, <1>2, <1>7 DEF Serve, LoginInv, stores, history
<1>8. CASE Crash
  BY <1>1, <1>8 DEF Crash, LoginInv
<1> QED
  BY <1>3, <1>4, <1>5, <1>6, <1>7, <1>8 DEF Boot

LEMMA SignInKept ==
    ASSUME KeptInv, NEW w \in Workers, SignIn(w) PROVE WriterInv' /\ LoginInv'
<1> USE DEF KeptInv
<1>1. ASSUME NEW f \in Flows, OAuthCallback(w, f) PROVE WriterInv' /\ LoginInv'
  <2>1. OthersKeep(w)
    BY <1>1, Typed, CloneKeeps DEF OAuthCallback, Exchange
  <2>0. tok'[w] = tok[config] /\ tok'[config] = tok[config]
    BY <1>1, Typed, TypeParts, CloneTokens, CredentialAssumption DEF OAuthCallback, Exchange, Holders
  <2>2. Writer(w)'
    <3>1. job'[w] = [pc |-> "reply", kind |-> "login", id |-> config,
                     flow |-> f, access |-> issued(f), at |-> 0]
      BY <1>1 DEF OAuthCallback, Exchange, TypeOK
    <3>2. f # 0
      BY CredentialAssumption DEF Flows
    <3> QED
      BY <2>0, <3>1, <3>2 DEF Writer
  <2>3. WriterInv'
    BY <1>1, <2>1, <2>2, OtherWriters DEF OAuthCallback, Exchange, process
  <2> QED
    BY <1>1, <2>1, <2>3, OthersLogins DEF OAuthCallback, process, history
<1>2. CASE Install(w)
  <2> DEFINE i == job[w].id
  <2>1. job[w] # Idle /\ job[w] \in Job /\ i \in Ids /\ i \in Holders
    BY <1>2, Typed DEF Install, Doing, Idle, Job
  <2>2. /\ tok[w].refresh # 0 \/ (job[w].kind = "login" /\ starts \notin OfflineStarts)
        /\ starts \notin OfflineStarts => (tok[w].refresh # 0 <=> tok[i].refresh # 0)
    BY <1>2, <2>1 DEF Install, Doing, WriterInv, Writer
  <2>3. tok'[i] = tok[w] /\ \A k \in Holders \ {i} : tok'[k] = tok[k]
    BY <1>2, <2>1, Typed, TypeParts, CloneTokens DEF Install, Update
  <2>4. OthersKeep(w) /\ tok'[w] = tok[w]
    BY <2>1, <2>2, <2>3, CredentialAssumption DEF OthersKeep, Holders
  <2>5. job' = [job EXCEPT ![w] = [job[w] EXCEPT !.pc = "save"]]
    BY <1>2 DEF Install, Goto
  <2>6. Writer(w)'
    <3>1. /\ job'[w].pc = "save" /\ job'[w].kind = job[w].kind /\ job'[w].flow = job[w].flow
          /\ job'[w].id = i /\ job'[w] # Idle
      BY <2>1, <2>5 DEF TypeOK, Job, Idle
    <3>2. Writer(w) /\ job[w].pc = "install" /\ starts' = starts
      BY <1>2 DEF Install, Doing, WriterInv, process
    <3> QED
      BY <2>1, <2>2, <2>3, <2>4, <3>1, <3>2 DEF Writer
  <2>7. WriterInv'
    BY <1>2, <2>4, <2>5, <2>6, OtherWriters DEF Install, process
  <2> QED
    BY <1>2, <2>4, <2>7, OthersLogins DEF Install, process
<1>3. CASE SaveLogin(w)
  <2> DEFINE i == job[w].id
  <2>1. job[w] # Idle /\ i \in Ids /\ i \in Holders \ {w}
    BY <1>3, Typed, CredentialAssumption DEF SaveLogin, Doing, Idle, Job, Holders
  <2>2. (tok[w].refresh # 0 => tok[i].refresh # 0) /\ (i \in login => tok[w].refresh # 0)
    <3>1. phase # "down"
      BY <2>1 DEF ServingInv
    <3>2. i \in login => tok[i].refresh # 0
      BY <3>1 DEF LoginInv
    <3>3. Writer(w) /\ job[w].pc = "save" /\ job[w].kind = "login"
      BY <1>3 DEF SaveLogin, Doing, WriterInv
    <3> QED
      BY <2>1, <3>2, <3>3 DEF Writer
  <2>3. OthersKeep(w) /\ WriterInv'
    BY <1>3, EndKeeps DEF SaveLogin, process
  <2>4. /\ login' \subseteq login \cup {i} /\ (i \in login' => tok[w].refresh # 0)
        /\ \A k \in Ids : k # i => disk'[k] = disk[k]
        /\ (disk' = disk /\ login' = login) \/ disk'[i].tok = tok[w]
    <3> USE <2>1, <2>2 DEF SaveLogin
    <3>1. CASE /\ Saved(i, [status |-> "on", tok |-> tok[w]])
               /\ login' = IF tok[w].refresh # 0 THEN login \cup {i} ELSE login
      BY <3>1 DEF Saved, TypeOK
    <3>2. CASE NotSaved /\ login' = login
      BY <3>2 DEF NotSaved
    <3> QED
      BY <1>3, <3>1, <3>2
  <2>5. \A k \in Ids : k \in Holders \ {w}
    BY CredentialAssumption DEF Holders
  <2> HIDE DEF i
  <2>6. \A k \in login' : disk'[k].tok.refresh # 0 /\ (phase # "down" => tok'[k].refresh # 0)
    BY <2>1, <2>2, <2>3, <2>4, <2>5 DEF LoginInv, OthersKeep, TypeOK
  <2> QED
    BY <1>3, <2>3, <2>6 DEF SaveLogin, LoginInv, process
<1> QED
  BY <1>1, <1>2, <1>3 DEF SignIn

LEMMA RequestKept ==
    ASSUME KeptInv, NEW w \in Workers, Request(w) PROVE WriterInv' /\ LoginInv'
<1> USE DEF KeptInv
<1>0. job[w] # Idle => job[w] \in Job /\ Writer(w)
  BY Typed DEF WriterInv
<1>1. UNCHANGED tok => OthersKeep(w)
  BY DEF OthersKeep
<1>2. ASSUME NEW k \in {"text", "image"}, NEW i \in Ids, Pick(w, k, i)
      PROVE  WriterInv' /\ LoginInv'
  <2>1. OthersKeep(w)
    BY <1>2, CloneKeeps DEF Pick, Holders
  <2>2. Writer(w)'
    <3>1. job'[w] = [pc |-> "read", kind |-> k, id |-> i, flow |-> 0,
                     access |-> NoAccess, at |-> 0]
      BY <1>2 DEF Pick, TypeOK
    <3>2. tok'[w] = tok[i] /\ tok'[i] = tok[i]
      BY <1>2, TypeParts, CloneTokens, CredentialAssumption DEF Pick, Holders
    <3> QED
      BY <3>1, <3>2 DEF Writer
  <2>3. WriterInv'
    BY <1>2, <2>1, <2>2, OtherWriters DEF Pick, process
  <2> QED
    BY <1>2, <2>1, <2>3, OthersLogins DEF Pick, process, history
<1>3. CASE Read(w)
  <2> DEFINE j == [job[w] EXCEPT !.pc = "decide", !.access = tok[w].access,
                                 !.flow = tok[w].refresh]
  <2>1. job' = [job EXCEPT ![w] = j] /\ UNCHANGED tok
    BY <1>3 DEF Read, stores
  <2>2. job[w] # Idle /\ job[w].pc = "read"
    BY <1>3 DEF Read, Doing, Idle
  <2>3. j.pc = "decide" /\ j.flow = tok[w].refresh /\ j.kind = job[w].kind /\ j.id = job[w].id
    BY <1>0, <2>2 DEF Job
  <2>4. job'[w] = j
    BY <2>1 DEF TypeOK
  <2> HIDE DEF j
  <2>5. Writer(w)'
    BY <1>0, <1>3, <2>1, <2>2, <2>3, <2>4 DEF Writer, Read, process
  <2>6. WriterInv'
    BY <1>1, <1>3, <2>1, <2>5, OtherWriters DEF Read, process
  <2> QED
    BY <1>1, <1>3, <2>1, <2>6, OthersLogins DEF Read, process, stores
<1>4. CASE Refresh(w)
  <2> DEFINE j == [job[w] EXCEPT !.pc = "reply", !.access = issued(job[w].flow)]
  <2>1. job' = [job EXCEPT ![w] = j] /\ UNCHANGED tok
    BY <1>4 DEF Refresh, stores
  <2>2. job[w] # Idle /\ job[w].pc = "decide" /\ job[w].flow # 0
    BY <1>4 DEF Refresh, Doing, Idle
  <2>3. j.pc = "reply" /\ j.flow = job[w].flow /\ j.kind = job[w].kind /\ j.id = job[w].id
    BY <1>0, <2>2 DEF Job
  <2>4. job'[w] = j
    BY <2>1 DEF TypeOK
  <2> HIDE DEF j
  <2>5. Writer(w)'
    BY <1>0, <1>4, <2>1, <2>2, <2>3, <2>4 DEF Writer, Refresh, process
  <2>6. WriterInv'
    BY <1>1, <1>4, <2>1, <2>5, OtherWriters DEF Refresh, process
  <2> QED
    BY <1>1, <1>4, <2>1, <2>6, OthersLogins DEF Refresh, process, stores, history
<1>5. CASE PersistTokens(w)
  <2> DEFINE j == [job[w] EXCEPT !.pc = "expiry", !.access = arrived(w), !.at = expiresAt]
  <2>1. /\ job[w] # Idle /\ job[w].pc = "reply" /\ job[w] \in Job /\ Writer(w)
        /\ job' = [job EXCEPT ![w] = j] /\ starts' = starts
    BY <1>0, <1>5 DEF PersistTokens, Doing, Idle, process
  <2>2. PICK r \in Granted(w) : Put(w, [tok[w] EXCEPT !.access = arrived(w), !.refresh = r])
    BY <1>5 DEF PersistTokens
  <2> DEFINE t == [tok[w] EXCEPT !.access = arrived(w), !.refresh = r]
  <2>3. /\ r \in 0..MaxFlows
        /\ r = tok[w].refresh \/ (r # 0 /\ (starts \in OfflineStarts \/ tok[w].refresh # 0))
        /\ r # 0 \/ (job[w].kind = "login" /\ starts \notin OfflineStarts)
    BY <2>1, <2>2, GrantedForms, Typed DEF Writer, Job, Token
  <2>4. t \in Token /\ t.refresh = r
    BY <2>1, <2>3, Typed, TypeParts, Arrived DEF Token
  <2>5. j.pc = "expiry" /\ j.flow = job[w].flow /\ j.kind = job[w].kind /\ job'[w] = j /\ j.id = job[w].id
    BY <2>1 DEF Job, TypeOK
  <2>6. Put(w, t) /\ UNCHANGED same
    BY <1>5, <2>2 DEF PersistTokens
  <2> HIDE DEF j, t
  <2>7. OthersKeep(w) /\ tok'[w] = t
    BY <2>3, <2>4, <2>6, PutKeeps
  <2>a. job[w].id \in Holders \ {w}
    BY <2>1, CredentialAssumption DEF Job, Holders
  <2>8. Writer(w)'
    BY <2>1, <2>3, <2>4, <2>5, <2>7, <2>a DEF Writer, OthersKeep
  <2>9. WriterInv'
    BY <2>1, <2>7, <2>8, OtherWriters
  <2> QED
    BY <1>5, <2>7, <2>9, OthersLogins DEF PersistTokens, process
<1>6. CASE PersistExpiry(w)
  <2> DEFINE t == [tok[w] EXCEPT !.files = job[w].access.files, !.exp = job[w].at]
             j == [job[w] EXCEPT !.at = 0,
                       !.pc = IF job[w].kind = "login" THEN "install" ELSE "save"]
  <2>1. job[w] # Idle /\ job[w].pc = "expiry" /\ job' = [job EXCEPT ![w] = j]
    BY <1>6 DEF PersistExpiry, Doing, Idle
  <2>2. t \in Token /\ t.refresh = tok[w].refresh
    BY <1>0, <2>1, Typed DEF Job, Token, Access
  <2>3. /\ j.pc = IF job[w].kind = "login" THEN "install" ELSE "save"
        /\ j.flow = job[w].flow /\ j.kind = job[w].kind /\ j.id = job[w].id /\ job'[w] = j
    BY <1>0, <2>1 DEF Job, TypeOK
  <2>4. Put(w, t) /\ UNCHANGED same
    BY <1>6 DEF PersistExpiry
  <2> HIDE DEF j, t
  <2>5. OthersKeep(w) /\ tok'[w] = t
    BY <2>2, <2>4, PutKeeps
  <2>a. job[w].id \in Holders \ {w} /\ starts' = starts
    BY <1>0, <1>6, <2>1, CredentialAssumption DEF Job, Holders, PersistExpiry, process
  <2>6. Writer(w)'
    BY <1>0, <2>1, <2>2, <2>3, <2>5, <2>a DEF Writer, OthersKeep
  <2>7. WriterInv'
    BY <2>1, <2>5, <2>6, <2>a, OtherWriters
  <2> QED
    BY <1>6, <2>5, <2>7, OthersLogins DEF PersistExpiry, process
<1>7. CASE ServeCached(w) \/ Leave(w)
  <2>1. OthersKeep(w) /\ WriterInv'
    BY <1>7, EndKeeps DEF ServeCached, Leave, process
  <2> QED
    BY <1>7, <2>1, OthersLogins DEF ServeCached, Leave, process
<1>8. CASE Save(w)
  <2> DEFINE i == job[w].id
  <2>1. job[w] # Idle /\ i \in Ids /\ tok[w].refresh # 0
    BY <1>0, <1>8 DEF Save, Doing, Idle, Job, Writer
  <2>2. OthersKeep(w) /\ WriterInv'
    BY <1>8, EndKeeps DEF Save, process
  <2>3. \A k \in Ids : disk'[k] = disk[k] \/ disk'[k].tok = tok[w]
    <3> HIDE DEF i
    <3>1. Saved(i, [status |-> "on", tok |-> tok[w]]) \/ NotSaved
      BY <1>8 DEF Save, i
    <3> QED
      BY <2>1, <3>1, SavedTokens
  <2>4. \A k \in Ids : k \in Holders \ {w}
    BY CredentialAssumption DEF Holders
  <2> QED
    BY <1>8, <2>1, <2>2, <2>3, <2>4 DEF Save, LoginInv, OthersKeep, TypeOK, process
<1> QED
  BY <1>2, <1>3, <1>4, <1>5, <1>6, <1>7, <1>8 DEF Request

LEMMA StepKept == KeptInv /\ [Next]_vars => KeptInv'
<1> SUFFICES ASSUME KeptInv, [Next]_vars PROVE KeptInv'
  OBVIOUS
<1>1. TypeOK' /\ ServingInv' /\ MapInv'
  BY StepTypeOK, StepServing, StepMap DEF KeptInv
<1>2. CASE UNCHANGED <<job, tok, phase, account, login, disk, starts>>
  <2>1. WriterInv' /\ LoginInv'
    BY <1>2 DEF KeptInv, WriterInv, Writer, LoginInv
  <2> QED
    BY <1>1, <2>1 DEF KeptInv
<1>3. CASE Tick \/ OAuthStart \/ \E f \in Flows : OAuthCallbackLate(f)
  BY <1>2, <1>3 DEF Tick, OAuthStart, OAuthCallbackLate, process, stores, history
<1>4. CASE UNCHANGED vars
  BY <1>2, <1>4 DEF vars, process, stores, history
<1>5. CASE Boot \/ Crash \/ \E w \in Workers : SignIn(w) \/ Request(w)
  <2>1. WriterInv' /\ LoginInv'
    BY <1>5, BootKept, SignInKept, RequestKept
  <2> QED
    BY <1>1, <2>1 DEF KeptInv
<1> QED
  BY <1>3, <1>4, <1>5 DEF Next

\* A signed-in account keeps a refresh token through refreshes, races,
\* sign-ins, failed saves, changes of the configuration and restarts.
THEOREM LoginsKept == Spec => []LoginKept
<1>1. Init => KeptInv
  <2>1. Init => ServingInv /\ WriterInv /\ LoginInv
    BY DEF Init, ServingInv, WriterInv, Writer, LoginInv, Idle
  <2>2. Init => MapInv
    BY DEF Init, MapInv
  <2> QED
    BY <2>1, <2>2, InitTypeOK DEF KeptInv
<1>2. KeptInv => LoginKept
  BY DEF KeptInv, LoginInv, LoginKept, TypeOK
<1> QED
  BY <1>1, <1>2, StepKept, PTL DEF Spec
=============================================================================
