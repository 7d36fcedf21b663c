---------------------- MODULE CredentialsTokens_proofs ----------------------
(***************************************************************************)
(* Theorems about the tokens of Credentials, for any accounts, goroutines, *)
(* sign-ins, faults, starts and times: a token that is handed out is       *)
(* valid, and a complete sign-in stays the account's login.                *)
(* SoundInv is about what a map and its readers hold, FlowInv about who     *)
(* carries a sign-in, StickInv about who has its refresh token.             *)
(***************************************************************************)
EXTENDS Credentials_proofs

\* The map of h is half-written.
Writing(h) == \E v \in same[h] \cap Workers : Doing(v, {"expiry"})

\* Expiry and scope are those of the access token; an expiry that is more
\* than the margin off is that of a late reply.
Sound(t) ==
    /\ ~t.access.late => t.exp <= t.access.until + Margin
    /\ t.files => t.access.files
    /\ t.access # NoAccess => t.exp > 0

\* What a goroutine has been given has the scope, and the expiry to write.
InTime(w) ==
    LET j == job[w]
    IN  /\ j.pc \in {"expiry", "install", "save"} /\ j.kind = "image" => j.access.files
        /\ j.pc = "expiry" =>
               j.at > 0 /\ (~j.access.late => j.at <= j.access.until + Margin)

\* The map of w is as w read it, or is writing it.
Undisturbed(w) ==
    Doing(w, {"decide", "expiry"}) =>
        tok[w].access = job[w].access /\ \A v \in Others(w) : ~Doing(v, {"expiry"})

TokensSound ==
    /\ \A h \in Holders : Writing(h) \/ Sound(tok[h])
    /\ \A i \in Ids : Sound(disk[i].tok)
    /\ \A w \in Workers : Undisturbed(w)

SoundInv == (\A w \in Workers : InTime(w)) /\ (~raced => TokensSound)

Login(w) == job[w] # Idle /\ job[w].kind = "login"

\* A sign-in is one goroutine's, from its callback on.
FlowInv ==
    /\ \A w \in Workers : Login(w) =>
          /\ job[w].pc \notin {"read", "decide"}
          /\ job[w].flow \in 1..begun /\ pending[job[w].flow] = Never
          /\ \A v \in Workers : Login(v) /\ job[v].flow = job[w].flow => v = w
          /\ job[w].pc = "reply" => latest[config].flow # job[w].flow
    /\ \A i \in Ids : latest[i].flow # 0 =>
          latest[i].flow <= begun /\ pending[latest[i].flow] = Never
    /\ \A w \in Workers : Doing(w, {"install"}) => Login(w)

\* A request that is not stale works with the tokens of sign-in f.
Agrees(v, f) ==
    job[v] # Idle /\ job[v].kind # "login" /\ v \notin stale =>
        tok[v].refresh = f /\ (job[v].pc \in {"decide", "reply"} => job[v].flow = f)

Newest(w) == Login(w) /\ job[w].flow = latest[config].flow

\* The last sign-in is in memory, and its goroutine may be about to save it.
Installed == latest[config].saved \/ \E w \in Workers : Newest(w) /\ job[w].pc = "save"

StickInv ==
    /\ \A i \in Ids : latest[i].saved =>
          /\ disk[i].tok.refresh = latest[i].flow
          /\ phase # "down" => tok[i].refresh = latest[i].flow
    /\ \A w \in Workers : Newest(w) =>
          /\ tok[w].refresh = job[w].flow
          /\ \A v \in Others(w) : Agrees(v, job[w].flow)
    /\ Installed =>
          /\ phase # "down" => tok[config].refresh = latest[config].flow
          /\ \A v \in Workers : Agrees(v, latest[config].flow)

-----------------------------------------------------------------------------
(* Tokens that are handed out *)

\* What holders of one map have in common.
LEMMA Classes ==
    ASSUME TypeOK
    PROVE  /\ \A h \in Holders : h \in same[h] /\ same[h] \subseteq Holders
           /\ \A g, h \in Holders : g \in same[h] => same[g] = same[h] /\ h \in same[g]
BY SameClasses, TypeParts DEF MapsOK

LEMMA BlankSound == Sound(NoToken)
BY CredentialAssumption DEF Sound, NoToken, NoAccess

LEMMA CloneSound ==
    ASSUME TypeOK, MapInv, TokensSound, NEW w \in Workers, NEW j, job' = [job EXCEPT ![w] = j],
           ~Doing(w, {"expiry"}), j.pc \notin {"decide", "expiry"},
           NEW g, NEW h, (g = w /\ h = config) \/ (g = config /\ h = w), Clone(g, h),
           UNCHANGED disk
    PROVE  TokensSound'
<1> DEFINE group == IF shared /\ tok[h] # NoToken THEN same[h] \cup {g} ELSE {g}
<1>0. g \in Holders /\ h \in Holders /\ MapsOK /\ w \in Holders /\ config \notin Workers
  BY TypeParts, CredentialAssumption DEF TypeOK, Holders
<1>1. /\ tok'[g] = tok[h] /\ \A k \in Holders \ {g} : tok'[k] = tok[k]
      /\ \A k \in Holders : same'[k] = IF k \in group THEN group ELSE same[k] \ {g}
      /\ g \in group
  BY <1>0, CloneTokens DEF Clone
<1>2. job'[w] = j /\ \A v \in Workers \ {w} : job'[v] = job[v]
  BY DEF TypeOK
<1>3. \A v \in Workers : Doing(v, {"expiry"}) => v # w /\ v # g /\ Doing(v, {"expiry"})'
  BY <1>0, <1>2 DEF Doing
<1>4. \A k \in group : k \in Holders /\ tok'[k] = tok[h]
  BY <1>0, <1>1, Classes DEF MapInv
<1>5. Sound(tok[h]) \/ (Writing(h) /\ group = same[h] \cup {g})
  <2>1. CASE shared /\ tok[h] # NoToken
    BY <1>0, <2>1 DEF TokensSound
  <2>2. CASE tok[h] = NoToken
    BY <2>2, BlankSound
  <2>3. CASE ~shared
    <3>1. ~Writing(h)
      BY <1>0, <2>3 DEF MapInv, Writing
    <3> QED
      BY <1>0, <3>1 DEF TokensSound
  <2> QED
    BY <2>1, <2>2, <2>3
<1> HIDE DEF group
<1>6. ASSUME NEW k \in Holders PROVE Writing(k)' \/ Sound(tok'[k])
  <2>1. CASE k \in group /\ Sound(tok[h])
    BY <1>4, <2>1
  <2>2. CASE k \in group /\ Writing(h) /\ group = same[h] \cup {g}
    <3>1. PICK v \in same[h] \cap Workers : Doing(v, {"expiry"})
      BY <2>2 DEF Writing
    <3>2. v \in same'[k]
      BY <1>1, <1>6, <2>2
    <3> QED
      BY <1>3, <3>1, <3>2 DEF Writing
  <2>3. CASE k \notin group /\ Writing(k)
    <3>1. PICK v \in same[k] \cap Workers : Doing(v, {"expiry"})
      BY <2>3 DEF Writing
    <3>2. v \in same'[k]
      BY <1>1, <1>3, <1>6, <2>3, <3>1
    <3> QED
      BY <1>3, <3>1, <3>2 DEF Writing
  <2>4. CASE k \notin group /\ ~Writing(k)
    BY <1>1, <2>4 DEF TokensSound
  <2> QED
    BY <1>5, <2>1, <2>2, <2>3, <2>4
<1>7. ASSUME NEW v \in Workers, Doing(v, {"decide", "expiry"})' PROVE Undisturbed(v)'
  <2>1. v # w /\ v # g /\ v \in Holders /\ Doing(v, {"decide", "expiry"}) /\ job'[v] = job[v]
    BY <1>0, <1>2, <1>7 DEF Doing, Holders
  <2>2. tok'[v].access = job'[v].access
    BY <1>1, <2>1 DEF TokensSound, Undisturbed
  <2>3. ASSUME NEW u \in Others(v)' PROVE ~Doing(u, {"expiry"})'
    <3>1. SUFFICES ASSUME u # w PROVE ~Doing(u, {"expiry"})'
      BY <1>2 DEF Doing
    <3>2. u \in Workers /\ u # v /\ u \in same'[v] /\ u # g
      BY <1>0, <3>1, <2>3 DEF Others
    <3>3. u \in same[v]
      <4>1. CASE v \in group
        <5>1. u \in group
          BY <1>1, <2>1, <3>2, <4>1
        <5>2. u \in same[h] /\ v \in same[h]
          BY <2>1, <3>2, <4>1, <5>1 DEF group
        <5> QED
          BY <1>0, <2>1, <5>2, Classes
      <4>2. CASE v \notin group
        BY <1>1, <2>1, <3>2, <4>2
      <4> QED
        BY <4>1, <4>2
    <3>4. u \in Others(v)
      BY <3>2, <3>3 DEF Others
    <3> QED
      BY <1>2, <2>1, <3>1, <3>2, <3>4 DEF TokensSound, Undisturbed, Doing
  <2> QED
    BY <2>2, <2>3 DEF Undisturbed
<1> QED
  BY <1>6, <1>7 DEF TokensSound, Undisturbed

LEMMA EndSound ==
    ASSUME TypeOK, MapInv, TokensSound, NEW w \in Workers, ~Doing(w, {"expiry"}), End(w),
           \A i \in Ids : disk'[i] = disk[i] \/ Sound(disk'[i].tok)
    PROVE  TokensSound'
<1>0. MapsOK /\ w \in Holders
  BY TypeParts DEF Holders
<1>1. /\ tok'[w] = NoToken /\ \A k \in Holders \ {w} : tok'[k] = tok[k]
      /\ \A k \in Holders : same'[k] = IF k = w THEN {w} ELSE same[k] \ {w}
      /\ job'[w] = Idle /\ \A v \in Workers \ {w} : job'[v] = job[v]
  BY <1>0, EndMaps DEF End, TypeOK
<1>2. ASSUME NEW k \in Holders PROVE Writing(k)' \/ Sound(tok'[k])
  <2>1. CASE k = w
    BY <1>1, <2>1, BlankSound
  <2>2. CASE k # w /\ Writing(k)
    <3>1. PICK v \in same[k] \cap Workers : Doing(v, {"expiry"})
      BY <2>2 DEF Writing
    <3>2. v # w /\ v \in same'[k] /\ Doing(v, {"expiry"})'
      BY <1>1, <2>2, <3>1 DEF Doing
    <3> QED
      BY <3>1, <3>2 DEF Writing
  <2>3. CASE k # w /\ ~Writing(k)
    BY <1>1, <2>3 DEF TokensSound
  <2> QED
    BY <2>1, <2>2, <2>3
<1>3. ASSUME NEW v \in Workers, Doing(v, {"decide", "expiry"})' PROVE Undisturbed(v)'
  <2>1. v # w /\ v \in Holders /\ job'[v] = job[v] /\ Doing(v, {"decide", "expiry"})
    BY <1>1, <1>3 DEF Doing, Idle, Holders
  <2>2. Others(v)' \subseteq Others(v) \ {w}
    BY <1>1, <2>1 DEF Others
  <2>3. tok'[v].access = job'[v].access /\ \A u \in Others(v) : ~Doing(u, {"expiry"})
    BY <1>1, <2>1 DEF TokensSound, Undisturbed
  <2>4. \A u \in Others(v)' : ~Doing(u, {"expiry"})'
    BY <1>1, <2>2, <2>3 DEF Doing, Others
  <2> QED
    BY <2>3, <2>4 DEF Undisturbed
<1> QED
  BY <1>2, <1>3 DEF TokensSound, Undisturbed

\* The goroutine in the two steps of persistTokenMetadata.
LEMMA Persisting ==
    ASSUME TypeOK, NEW w \in Workers
    PROVE  /\ PersistTokens(w) \/ PersistExpiry(w) =>
                /\ job[w] \in Job /\ job[w] # Idle
                /\ \A v \in Workers \ {w} : job'[v] = job[v]
                /\ job'[w] # Idle
                /\ job'[w].kind = job[w].kind /\ job'[w].flow = job[w].flow
           /\ PersistTokens(w) =>
                /\ job[w].pc = "reply" /\ job'[w].pc = "expiry"
                /\ job'[w].at = expiresAt /\ job'[w].access = arrived(w)
           /\ PersistExpiry(w) =>
                /\ job[w].pc = "expiry" /\ job'[w].access = job[w].access
                /\ job'[w].pc = IF job[w].kind = "login" THEN "install" ELSE "save"
<1>1. job \in [Workers -> Job \cup {Idle}]
  BY DEF TypeOK
<1>2. CASE PersistTokens(w)
  <2> DEFINE j == [job[w] EXCEPT !.pc = "expiry", !.access = arrived(w), !.at = expiresAt]
  <2>1. job[w].pc = "reply" /\ job' = [job EXCEPT ![w] = j]
    BY <1>2 DEF PersistTokens, Doing
  <2>2. job[w] \in Job /\ job[w] # Idle
    BY <1>1, <2>1 DEF Idle
  <2>3. /\ j.pc = "expiry" /\ j.at = expiresAt /\ j.access = arrived(w)
        /\ j.kind = job[w].kind /\ j.flow = job[w].flow /\ j # Idle
    BY <2>2 DEF Job, Idle
  <2> HIDE DEF j
  <2> QED
    BY <1>1, <2>1, <2>2, <2>3 DEF PersistExpiry, Doing
<1>3. CASE PersistExpiry(w)
  <2> DEFINE p == IF job[w].kind = "login" THEN "install" ELSE "save"
             j == [job[w] EXCEPT !.at = 0, !.pc = p]
  <2>1. job[w].pc = "expiry" /\ job' = [job EXCEPT ![w] = j]
    BY <1>3 DEF PersistExpiry, Doing
  <2>2. job[w] \in Job /\ job[w] # Idle
    BY <1>1, <2>1 DEF Idle
  <2>3. /\ j.pc = p /\ j.access = job[w].access
        /\ j.kind = job[w].kind /\ j.flow = job[w].flow /\ j # Idle
    BY <2>2 DEF Job, Idle
  <2> HIDE DEF j
  <2> QED
    BY <1>1, <2>1, <2>2, <2>3 DEF PersistTokens, Doing
<1> QED
  BY <1>2, <1>3

\* A write without a race: nobody else reads the map, or writes it.
LEMMA PutSound ==
    ASSUME TypeOK, MapInv, TokensSound, NEW w \in Workers, PersistTokens(w) \/ PersistExpiry(w),
           InTime(w), ~raced'
    PROVE  TokensSound'
<1>0. w \in Holders /\ job[w] \in Job /\ tok[w] \in Token
  BY Persisting, Typed
<1>1. PICK t : /\ Put(w, t)
               /\ PersistTokens(w) => \E r : t = [tok[w] EXCEPT !.access = arrived(w), !.refresh = r]
               /\ PersistExpiry(w) => t = [tok[w] EXCEPT !.files = job[w].access.files,
                                                         !.exp = job[w].at]
  <2>1. PersistTokens(w) => ~PersistExpiry(w)
    BY DEF PersistTokens, PersistExpiry, Doing
  <2> QED
    BY <2>1 DEF PersistTokens, PersistExpiry
<1>2. /\ \A k \in Holders : tok'[k] = IF k \in same[w] THEN t ELSE tok[k]
      /\ same' = same /\ disk' = disk
      /\ \A v \in Workers \ {w} : job'[v] = job[v]
      /\ PersistTokens(w) => job'[w].pc = "expiry" /\ job'[w].access = arrived(w)
      /\ PersistExpiry(w) => job'[w].access = job[w].access /\ job'[w].pc \in {"install", "save"}
      /\ \A v \in Others(w) : ~Doing(v, {"decide", "expiry"})
  <2>1. \A k \in Holders : tok'[k] = IF k \in same[w] THEN t ELSE tok[k]
    BY <1>1 DEF Put
  <2>2. same' = same /\ disk' = disk /\ \A v \in Others(w) : ~Doing(v, {"decide", "expiry"})
    BY DEF PersistTokens, PersistExpiry, Meets
  <2>3. /\ \A v \in Workers \ {w} : job'[v] = job[v]
        /\ PersistTokens(w) => job'[w].pc = "expiry" /\ job'[w].access = arrived(w)
        /\ PersistExpiry(w) => job'[w].access = job[w].access /\ job'[w].pc \in {"install", "save"}
    BY Persisting
  <2> QED
    BY <2>1, <2>2, <2>3
<1>3. t.access = job'[w].access /\ (PersistExpiry(w) => Sound(t))
  <2>1. CASE PersistTokens(w)
    <3>1. ~PersistExpiry(w)
      BY <2>1 DEF PersistTokens, PersistExpiry, Doing
    <3> QED
      BY <1>0, <1>1, <1>2, <2>1, <3>1 DEF Token
  <2>2. CASE PersistExpiry(w)
    <3>1. tok[w].access = job[w].access /\ job[w].pc = "expiry"
      BY <2>2 DEF PersistExpiry, TokensSound, Undisturbed, Doing
    <3>2. t.access = job[w].access /\ t.files = job[w].access.files /\ t.exp = job[w].at
      BY <1>0, <1>1, <2>2, <3>1 DEF Token
    <3> QED
      BY <1>2, <2>2, <3>1, <3>2 DEF InTime, Sound
  <2> QED
    BY <2>1, <2>2
<1>4. ASSUME NEW k \in Holders PROVE Writing(k)' \/ Sound(tok'[k])
  <2>1. CASE k \in same[w] /\ PersistTokens(w)
    <3>1. w \in same'[k] \cap Workers /\ Doing(w, {"expiry"})'
      BY <1>0, <1>2, <2>1, Classes DEF Doing
    <3> QED
      BY <3>1 DEF Writing
  <2>2. CASE k \in same[w] /\ PersistExpiry(w)
    BY <1>2, <1>3, <2>2
  <2>3. CASE k \notin same[w] /\ Writing(k)
    <3>1. PICK v \in same[k] \cap Workers : Doing(v, {"expiry"})
      BY <2>3 DEF Writing
    <3>2. v # w
      BY <1>0, <2>3, <3>1, Classes
    <3>3. v \in same'[k] \cap Workers /\ Doing(v, {"expiry"})'
      BY <1>2, <3>1, <3>2 DEF Doing
    <3> QED
      BY <3>3 DEF Writing
  <2>4. CASE k \notin same[w] /\ ~Writing(k)
    BY <1>2, <2>4 DEF TokensSound
  <2> QED
    BY <2>1, <2>2, <2>3, <2>4
<1>5. ASSUME NEW v \in Workers, Doing(v, {"decide", "expiry"})' PROVE Undisturbed(v)'
  <2>0. v \in Holders
    BY DEF Holders
  <2>1. CASE v = w
    <3>1. tok'[w] = t /\ Others(w)' = Others(w)
      BY <1>0, <1>2, Classes DEF Others
    <3>2. \A u \in Others(w) : ~Doing(u, {"expiry"})'
      BY <1>2 DEF Doing, Others
    <3> QED
      BY <1>2, <1>3, <2>1, <3>1, <3>2 DEF Undisturbed
  <2>2. CASE v # w
    <3>1. job'[v] = job[v] /\ Doing(v, {"decide", "expiry"})
      BY <1>2, <1>5, <2>2 DEF Doing
    <3>2. v \notin same[w] /\ w \notin same[v]
      BY <1>0, <1>2, <2>0, <2>2, <3>1, Classes DEF Others
    <3>3. tok'[v].access = job'[v].access /\ \A u \in Others(v) : ~Doing(u, {"expiry"})
      BY <1>2, <2>0, <3>1, <3>2 DEF TokensSound, Undisturbed
    <3>4. \A u \in Others(v)' : u # w /\ ~Doing(u, {"expiry"})'
      BY <1>2, <3>2, <3>3 DEF Others, Doing
    <3> QED
      BY <3>3, <3>4 DEF Undisturbed
  <2> QED
    BY <2>1, <2>2
<1> QED
  BY <1>2, <1>4, <1>5 DEF TokensSound, Undisturbed

LEMMA OthersInTime ==
    ASSUME TypeOK, SoundInv, NEW w \in Workers, NEW j, job' = [job EXCEPT ![w] = j],
           InTime(w)'
    PROVE  \A v \in Workers : InTime(v)'
<1>1. \A v \in Workers \ {w} : job'[v] = job[v]
  BY DEF TypeOK
<1> QED
  BY <1>1 DEF SoundInv, InTime

\* Steps outside of goroutines.
LEMMA ProcessSound ==
    ASSUME KeptInv, SoundInv,
           \/ Boot \/ Crash \/ Tick \/ OAuthStart
           \/ \E f \in Flows : OAuthCallbackLate(f)
           \/ UNCHANGED vars
    PROVE  SoundInv'
<1>0. TypeOK /\ ServingInv
  BY DEF KeptInv
<1>1. CASE UNCHANGED <<job, tok, same, disk, raced>>
  BY <1>1 DEF SoundInv, TokensSound, InTime, Undisturbed, Others, Writing, Doing, Sound
<1>2. ASSUME phase # "serving" PROVE \A w \in Workers : job[w] = Idle
  BY <1>0, <1>2 DEF ServingInv
<1>3. ASSUME \A w \in Workers : job'[w] = Idle
      PROVE  /\ \A w \in Workers : InTime(w)' /\ Undisturbed(w)'
             /\ \A h \in Holders : ~Writing(h)'
  BY <1>3 DEF Idle, InTime, Undisturbed, Doing, Writing
<1>4. ASSUME \A w \in Workers : job'[w] = Idle, ~raced => ~raced',
             TokensSound => /\ \A h \in Holders : Sound(tok'[h])
                            /\ \A i \in Ids : Sound(disk'[i].tok),
             raced' = raced
      PROVE  SoundInv'
  BY <1>3, <1>4 DEF SoundInv, TokensSound
<1>5. ASSUME TokensSound, phase # "serving" PROVE \A h \in Holders : Sound(tok[h])
  <2>1. \A h \in Holders : ~Writing(h)
    BY <1>2, <1>5 DEF Writing, Doing, Idle
  <2> QED
    BY <1>5, <2>1 DEF TokensSound
<1>6. CASE Boot
  <2>1. CASE Load
    <3>1. (\A h \in Holders : tok'[h] = IF h \in Ids THEN disk[h].tok ELSE NoToken)
          /\ phase # "serving" /\ disk' = disk /\ job' = job /\ raced' = raced
      BY <2>1 DEF Load, history
    <3> QED
      BY <1>2, <1>4, <3>1, BlankSound DEF TokensSound
  <2>2. CASE LoadFails
    BY <1>1, <2>2 DEF LoadFails, NotSaved
  <2>3. CASE EnsureStaticAuth
    <3>1. tok' = tok /\ phase # "serving" /\ job' = job /\ raced' = raced
      BY <1>0, <2>3 DEF EnsureStaticAuth, upsert, TypeOK, history
    <3>2. config \in Ids /\ config \in Holders
          /\ (Saved(config, [status |-> "on", tok |-> tok[config]]) \/ NotSaved)
      BY <1>0, <2>3 DEF EnsureStaticAuth, upsert, TypeOK, Holders
    <3>3. \A i \in Ids : disk'[i] = disk[i] \/ (i = config /\ disk'[i].tok = tok[config])
      BY <1>0, <3>2, SavedTokens
    <3> QED
      BY <1>2, <1>4, <1>5, <3>1, <3>2, <3>3 DEF TokensSound
  <2>4. ASSUME NEW i \in Ids, DisableOther(i) PROVE SoundInv'
    <3>1. tok' = tok /\ phase # "serving" /\ job' = job /\ raced' = raced /\ i \in Holders
          /\ (Saved(i, [status |-> "off", tok |-> tok[i]]) \/ NotSaved)
      BY <2>4 DEF DisableOther, history, Holders
    <3>2. \A k \in Ids : disk'[k] = disk[k] \/ (k = i /\ disk'[k].tok = tok[i])
      BY <1>0, <3>1, SavedTokens
    <3> QED
      BY <1>2, <1>4, <1>5, <3>1, <3>2 DEF TokensSound
  <2>5. CASE Serve
    BY <1>1, <2>5 DEF Serve, stores, history
  <2> QED
    BY <1>6, <2>1, <2>2, <2>3, <2>4, <2>5 DEF Boot
<1>7. CASE Crash
  <2>1. /\ \A h \in Holders : tok'[h] = NoToken
        /\ disk' = disk /\ raced' = raced /\ \A w \in Workers : job'[w] = Idle
    BY <1>7 DEF Crash
  <2> QED
    BY <1>4, <2>1, BlankSound DEF TokensSound
<1>8. CASE Tick \/ OAuthStart \/ (\E f \in Flows : OAuthCallbackLate(f)) \/ UNCHANGED vars
  BY <1>1, <1>8 DEF Tick, OAuthStart, OAuthCallbackLate, vars, stores, history
<1> QED
  BY <1>6, <1>7, <1>8

LEMMA GoroutineSound ==
    ASSUME KeptInv, SoundInv, NEW w \in Workers, SignIn(w) \/ Request(w)
    PROVE  SoundInv'
<1>0. TypeOK /\ ServingInv /\ MapInv /\ w \in Holders /\ InTime(w)
      /\ (job[w] # Idle => job[w] \in Job /\ job[w].id = config)
  BY Typed DEF KeptInv, Holders, SoundInv, ServingInv
<1>1. ASSUME NEW j, job' = [job EXCEPT ![w] = j], now' = now, raced' = raced, UNCHANGED disk,
             ~Doing(w, {"expiry"}), j.pc \notin {"decide", "expiry"}, InTime(w)',
             Clone(w, config) \/ Clone(config, w)
      PROVE  SoundInv'
  <2>1. TokensSound => TokensSound'
    BY <1>0, <1>1, CloneSound
  <2> QED
    BY <1>0, <1>1, <2>1, OthersInTime DEF SoundInv
<1>2. ASSUME End(w), now' = now, ~Doing(w, {"expiry"}), ~raced' => ~raced,
             ~raced' /\ TokensSound => \A i \in Ids : disk'[i] = disk[i] \/ Sound(disk'[i].tok)
      PROVE  SoundInv'
  <2>1. TokensSound /\ ~raced' => TokensSound'
    BY <1>0, <1>2, EndSound
  <2>2. job'[w] = Idle /\ InTime(w)'
    BY <1>0, <1>2 DEF End, TypeOK, InTime, Idle
  <2>3. \A v \in Workers : InTime(v)'
    BY <1>0, <1>2, <2>2, OthersInTime DEF End
  <2> QED
    BY <1>2, <2>1, <2>3 DEF SoundInv
<1>3. ASSUME Doing(w, {"save"}), Meets(w, {"expiry"}), ~raced', TokensSound,
             NEW i \in Ids, NEW st, Saved(i, [status |-> st, tok |-> tok[w]]) \/ NotSaved
      PROVE  \A k \in Ids : disk'[k] = disk[k] \/ Sound(disk'[k].tok)
  <2>1. ~Writing(w)
    BY <1>3 DEF Meets, Others, Writing, Doing
  <2>2. Sound(tok[w])
    BY <1>0, <1>3, <2>1 DEF TokensSound
  <2> QED
    BY <1>0, <1>3, <2>2, SavedTokens
<1>4. CASE SignIn(w)
  <2>1. ASSUME NEW f \in Flows, OAuthCallback(w, f) PROVE SoundInv'
    <3> DEFINE j == [pc |-> "reply", kind |-> "login", id |-> config,
                     flow |-> f, access |-> issued(f), at |-> 0]
    <3>1. /\ job' = [job EXCEPT ![w] = j] /\ Clone(w, config) /\ now' = now /\ raced' = raced
          /\ disk' = disk /\ job[w] = Idle
      BY <2>1 DEF OAuthCallback, Exchange, history
    <3>2. j.pc = "reply" /\ j.access = issued(f) /\ job'[w] = j
      BY <1>0, <3>1 DEF TypeOK
    <3> HIDE DEF j
    <3>3. InTime(w)' /\ ~Doing(w, {"expiry"})
      BY <1>0, <3>1, <3>2 DEF InTime, Doing, Idle
    <3> QED
      BY <1>1, <3>1, <3>2, <3>3
  <2>2. CASE Install(w)
    <3> DEFINE j == [job[w] EXCEPT !.pc = "save"]
    <3>1. /\ job' = [job EXCEPT ![w] = j] /\ now' = now /\ raced' = raced /\ disk' = disk
          /\ job[w].pc = "install" /\ job[w] # Idle
      BY <2>2 DEF Install, Goto, Doing, Idle
    <3>2. Clone(config, w) /\ job[w] \in Job
      BY <1>0, <2>2, <3>1 DEF Install, Update
    <3>3. j.pc = "save" /\ j.access = job[w].access /\ j.kind = job[w].kind /\ job'[w] = j
      BY <1>0, <3>1, <3>2 DEF TypeOK, Job
    <3> HIDE DEF j
    <3>4. InTime(w)' /\ ~Doing(w, {"expiry"})
      BY <1>0, <3>1, <3>3 DEF InTime, Doing
    <3> QED
      BY <1>1, <3>1, <3>2, <3>3, <3>4
  <2>3. CASE SaveLogin(w)
    <3> DEFINE i == job[w].id
    <3>1. /\ Doing(w, {"save"}) /\ Meets(w, {"expiry"}) /\ End(w) /\ now' = now
          /\ Saved(i, [status |-> "on", tok |-> tok[w]]) \/ NotSaved
      BY <2>3 DEF SaveLogin
    <3>2. i \in Ids
      BY <1>0, <3>1 DEF Doing, Idle, Job
    <3>3. ~Doing(w, {"expiry"}) /\ (~raced' => ~raced)
      BY <3>1 DEF Doing, Meets
    <3> HIDE DEF i
    <3> QED
      BY <1>2, <1>3, <3>1, <3>2, <3>3
  <2> QED
    BY <1>4, <2>1, <2>2, <2>3 DEF SignIn
<1>5. CASE Request(w)
  <2>1. ASSUME NEW k \in {"text", "image"}, NEW i \in Ids, Pick(w, k, i) PROVE SoundInv'
    <3> DEFINE j == [pc |-> "read", kind |-> k, id |-> i, flow |-> 0,
                     access |-> NoAccess, at |-> 0]
    <3>1. /\ job' = [job EXCEPT ![w] = j] /\ Clone(w, i) /\ now' = now /\ raced' = raced
          /\ disk' = disk /\ job[w] = Idle /\ i = config
      BY <1>0, <2>1 DEF Pick, history, ServingInv, OthersDisabled
    <3>2. j.pc = "read" /\ job'[w] = j
      BY <1>0, <3>1 DEF TypeOK
    <3> HIDE DEF j
    <3>3. InTime(w)' /\ ~Doing(w, {"expiry"})
      BY <3>1, <3>2 DEF InTime, Doing, Idle
    <3> QED
      BY <1>1, <3>1, <3>2, <3>3
  <2>2. CASE Read(w)
    <3> DEFINE j == [job[w] EXCEPT !.pc = "decide", !.access = tok[w].access,
                                   !.flow = tok[w].refresh]
    <3>1. /\ job' = [job EXCEPT ![w] = j] /\ now' = now /\ UNCHANGED <<tok, same, disk>>
          /\ Meets(w, {"expiry"}) /\ job[w].pc = "read" /\ job[w] # Idle
      BY <2>2 DEF Read, stores, Doing, Idle
    <3>2. j.pc = "decide" /\ j.access = tok[w].access /\ job'[w] = j
      BY <1>0, <3>1 DEF TypeOK, Job
    <3>3. \A v \in Workers \ {w} : job'[v] = job[v]
      BY <1>0, <3>1 DEF TypeOK
    <3> HIDE DEF j
    <3>4. InTime(w)'
      BY <3>2 DEF InTime
    <3>5. ASSUME TokensSound, ~raced' PROVE TokensSound'
      <4>1. \A v \in Workers : Doing(v, {"expiry"})' <=> Doing(v, {"expiry"})
        BY <3>1, <3>2, <3>3 DEF Doing
      <4>2. \A h \in Holders : Writing(h)' <=> Writing(h)
        BY <3>1, <4>1 DEF Writing
      <4>3. Undisturbed(w)'
        BY <3>1, <3>2, <3>5, <4>1 DEF Meets, Undisturbed, Others
      <4>4. \A v \in Workers \ {w} : Undisturbed(v)'
        BY <3>1, <3>3, <3>5, <4>1 DEF TokensSound, Undisturbed, Others, Doing
      <4> QED
        BY <3>1, <3>5, <4>2, <4>3, <4>4 DEF TokensSound
    <3> QED
      BY <1>0, <3>1, <3>4, <3>5, OthersInTime DEF SoundInv, Meets
  <2>3. CASE Refresh(w)
    <3> DEFINE j == [job[w] EXCEPT !.pc = "reply", !.access = issued(job[w].flow)]
    <3>1. /\ job' = [job EXCEPT ![w] = j] /\ now' = now /\ UNCHANGED <<tok, same, disk, raced>>
          /\ job[w].pc = "decide" /\ job[w] # Idle
      BY <2>3 DEF Refresh, stores, history, Doing, Idle
    <3>2. j.pc = "reply" /\ j.access = issued(job[w].flow) /\ job'[w] = j
      BY <1>0, <3>1 DEF TypeOK, Job
    <3>3. \A v \in Workers \ {w} : job'[v] = job[v]
      BY <1>0, <3>1 DEF TypeOK
    <3> HIDE DEF j
    <3>4. InTime(w)'
      BY <1>0, <3>1, <3>2 DEF InTime
    <3>5. ASSUME TokensSound PROVE TokensSound'
      <4>1. \A v \in Workers : Doing(v, {"expiry"})' <=> Doing(v, {"expiry"})
        BY <3>1, <3>2, <3>3 DEF Doing
      <4>2. \A h \in Holders : Writing(h)' <=> Writing(h)
        BY <3>1, <4>1 DEF Writing
      <4>3. Undisturbed(w)'
        BY <3>2 DEF Undisturbed, Doing
      <4>4. \A v \in Workers \ {w} : Undisturbed(v)'
        BY <3>1, <3>3, <3>5, <4>1 DEF TokensSound, Undisturbed, Others, Doing
      <4> QED
        BY <3>1, <3>5, <4>2, <4>3, <4>4 DEF TokensSound
    <3> QED
      BY <1>0, <3>1, <3>4, <3>5, OthersInTime DEF SoundInv
  <2>4. CASE PersistTokens(w) \/ PersistExpiry(w)
    <3>1. TokensSound /\ ~raced' => TokensSound'
      BY <1>0, <2>4, PutSound
    <3>2. now' = now /\ (raced => raced') /\ \E j : job' = [job EXCEPT ![w] = j]
      BY <2>4 DEF PersistTokens, PersistExpiry, Meets
    <3>3. InTime(w)'
      <4>1. CASE PersistTokens(w)
        <5>1. /\ job[w].pc = "reply" /\ job'[w].pc = "expiry" /\ job'[w].at = now + Lifetime
              /\ job'[w].access = arrived(w) /\ job'[w].kind = job[w].kind
              /\ job[w] \in Job /\ job[w] # Idle
          BY <1>0, <4>1, Persisting DEF expiresAt
        <5>2. job[w].kind = "image" => job[w].access.files
          BY <4>1 DEF PersistTokens
        <5>3. /\ arrived(w).until = job[w].access.until /\ arrived(w).files = job[w].access.files
              /\ arrived(w).late <=> now > job[w].access.until - Lifetime + Margin
          BY <1>0, <5>1, Arrived, TypeParts
        <5>4. job[w].access.until \in Nat /\ now \in Nat
          BY <1>0, <5>1, CredentialAssumption DEF TypeOK, Job, Access
        <5>5. /\ now + Lifetime > 0
              /\ ~arrived(w).late => now + Lifetime <= job[w].access.until + Margin
          BY <5>3, <5>4, CredentialAssumption
        <5> QED
          BY <5>1, <5>2, <5>3, <5>5 DEF InTime
      <4>2. CASE PersistExpiry(w)
        <5>1. /\ job[w].pc = "expiry" /\ job'[w].pc \in {"install", "save"}
              /\ job'[w].access = job[w].access /\ job'[w].kind = job[w].kind
          BY <1>0, <4>2, Persisting
        <5> QED
          BY <1>0, <5>1 DEF InTime
      <4> QED
        BY <2>4, <4>1, <4>2
    <3> QED
      BY <1>0, <3>1, <3>2, <3>3, OthersInTime DEF SoundInv
  <2>5. CASE ServeCached(w) \/ Leave(w)
    <3>1. /\ End(w) /\ now' = now /\ raced' = raced /\ disk' = disk /\ ~Doing(w, {"expiry"})
      BY <2>5 DEF ServeCached, Leave, Doing
    <3> QED
      BY <1>2, <3>1
  <2>6. CASE Save(w)
    <3> DEFINE i == job[w].id
    <3>1. /\ Doing(w, {"save"}) /\ Meets(w, {"expiry"}) /\ End(w) /\ now' = now
          /\ Saved(i, [status |-> "on", tok |-> tok[w]]) \/ NotSaved
      BY <2>6 DEF Save
    <3>2. i \in Ids
      BY <1>0, <3>1 DEF Doing, Idle, Job
    <3>3. ~Doing(w, {"expiry"}) /\ (~raced' => ~raced)
      BY <3>1 DEF Doing, Meets
    <3> HIDE DEF i
    <3> QED
      BY <1>2, <1>3, <3>1, <3>2, <3>3
  <2> QED
    BY <1>5, <2>1, <2>2, <2>3, <2>4, <2>5, <2>6 DEF Request
<1> QED
  BY <1>4, <1>5

LEMMA StepSound == KeptInv /\ SoundInv /\ [Next]_vars => SoundInv'
BY ProcessSound, GoroutineSound DEF Next

LEMMA InitTokens == Init => KeptInv /\ SoundInv
<1> SUFFICES ASSUME Init PROVE KeptInv /\ SoundInv
  OBVIOUS
<1>1. TypeOK /\ \A w \in Workers : job[w] = Idle
  BY InitTypeOK DEF Init
<1>2. MapInv
  BY DEF Init, MapInv, Holders
<1>3. KeptInv
  BY <1>1, <1>2 DEF Init, KeptInv, ServingInv, WriterInv, Writer, LoginInv, Idle
<1>4. \A h \in Holders : Sound(tok[h])
  BY BlankSound DEF Init
<1>5. \A i \in Ids : Sound(disk[i].tok)
  BY BlankSound DEF Init, NoFile
<1>6. \A w \in Workers : InTime(w) /\ Undisturbed(w)
  BY <1>1 DEF InTime, Undisturbed, Doing, Idle
<1> QED
  BY <1>3, <1>4, <1>5, <1>6 DEF SoundInv, TokensSound

\* A cached token that is handed out has not expired, unless the reply that
\* brought it took longer than the margin; a token handed out to upload images
\* has the file scope; both unless accesses to a shared map overlapped.
THEOREM TokensValid == Spec => []ServedTokenValid
<1>1. KeptInv /\ SoundInv => ServedTokenValid
  <2> SUFFICES ASSUME KeptInv, SoundInv, NEW w \in Workers, ~raced,
                      (Doing(w, {"decide"}) /\ Usable(w)) \/ Doing(w, {"save"})
               PROVE  /\ Doing(w, {"decide"}) /\ ~job[w].access.late => now < job[w].access.until
                      /\ job[w].kind = "image" => job[w].access.files
    BY DEF ServedTokenValid
  <2>0. /\ TypeOK /\ TokensSound /\ InTime(w) /\ w \in Holders
        /\ job[w] \in Job /\ tok[w] \in Token /\ w \in same[w]
    BY Typed, Classes DEF KeptInv, SoundInv, Doing, Idle
  <2>1. /\ now \in Nat /\ job[w].access.until \in Nat
        /\ tok[w].exp \in Nat
    BY <2>0, CredentialAssumption DEF TypeOK, Job, Access, Token
  <2>2. CASE Doing(w, {"decide"}) /\ Usable(w)
    <3>1. tok[w].access = job[w].access /\ \A v \in Others(w) : ~Doing(v, {"expiry"})
      BY <2>0, <2>2 DEF TokensSound, Undisturbed, Doing
    <3>2. Sound(tok[w])
      <4>1. ~Writing(w)
        BY <2>2, <3>1 DEF Writing, Others, Doing
      <4> QED
        BY <2>0, <4>1 DEF TokensSound
    <3>3. now < tok[w].exp - Margin
      BY <2>1, <2>2, <3>1, <3>2 DEF Usable, Sound
    <3>4. ASSUME ~job[w].access.late PROVE now < job[w].access.until
      <4>1. tok[w].exp <= job[w].access.until + Margin
        BY <3>1, <3>2, <3>4 DEF Sound
      <4> QED
        BY <2>1, <3>3, <4>1, CredentialAssumption
    <3> QED
      BY <2>2, <3>1, <3>2, <3>4 DEF Usable, Sound
  <2>3. CASE Doing(w, {"save"})
    BY <2>0, <2>3 DEF InTime, Doing
  <2> QED
    BY <2>2, <2>3
<1> QED
  BY <1>1, InitTokens, StepKept, StepSound, PTL DEF Spec

-----------------------------------------------------------------------------
(* Sign-ins                                                                *)

\* A step that begins no new goroutine of a sign-in.
LEMMA FlowsKept ==
    ASSUME TypeOK, TypeOK', FlowInv, begun <= begun',
           config' = config \/ \A w \in Workers : job'[w] = Idle,
           \A f \in 1..begun : pending[f] = Never => pending'[f] = Never,
           \A w \in Workers : Login(w)' =>
              /\ Login(w) /\ job'[w].flow = job[w].flow
              /\ job'[w].pc \notin {"read", "decide"}
              /\ job'[w].pc = "reply" => job[w].pc = "reply",
           \A w \in Workers : Doing(w, {"install"})' => Login(w)',
           \A i \in Ids :
              \/ latest'[i].flow = latest[i].flow \/ latest'[i].flow = 0
              \/ \E w \in Workers : /\ Login(w) /\ job[w].flow = latest'[i].flow
                                    /\ job'[w].pc # "reply"
    PROVE  FlowInv'
<1>0. begun \in Nat /\ begun' \in Nat /\ config \in Ids
  BY CredentialAssumption DEF TypeOK
<1>1. ASSUME NEW w \in Workers, Login(w)'
      PROVE  /\ job'[w].pc \notin {"read", "decide"}
             /\ job'[w].flow \in 1..begun' /\ pending'[job'[w].flow] = Never
             /\ \A v \in Workers : Login(v)' /\ job'[v].flow = job'[w].flow => v = w
             /\ job'[w].pc = "reply" => latest'[config'].flow # job'[w].flow
  <2>1. /\ Login(w) /\ job'[w].flow = job[w].flow /\ job[w].flow \in 1..begun
        /\ pending[job[w].flow] = Never /\ config' = config
    BY <1>1 DEF FlowInv, Login
  <2>2. job'[w].flow \in 1..begun' /\ pending'[job'[w].flow] = Never
    BY <1>0, <2>1
  <2>3. \A v \in Workers : Login(v)' /\ job'[v].flow = job'[w].flow => v = w
    BY <2>1 DEF FlowInv
  <2>4. ASSUME job'[w].pc = "reply" PROVE latest'[config'].flow # job'[w].flow
    <3>1. job[w].pc = "reply" /\ latest[config].flow # job[w].flow /\ job[w].flow # 0
      BY <1>1, <2>1, <2>4 DEF FlowInv
    <3>2. ASSUME NEW v \in Workers, Login(v), job[v].flow = latest'[config].flow,
                 job'[v].pc # "reply"
          PROVE  latest'[config].flow # job[w].flow
      BY <2>1, <2>4, <3>2 DEF FlowInv
    <3> QED
      BY <1>0, <2>1, <3>1, <3>2
  <2> QED
    BY <1>1, <2>2, <2>3, <2>4
<1>2. ASSUME NEW i \in Ids, latest'[i].flow # 0
      PROVE  latest'[i].flow <= begun' /\ pending'[latest'[i].flow] = Never
  <2>1. latest'[i].flow \in 0..MaxFlows
    BY DEF TypeOK
  <2>2. latest'[i].flow \in 1..begun /\ pending[latest'[i].flow] = Never
    <3>1. CASE latest'[i].flow = latest[i].flow
      BY <1>0, <1>2, <2>1, <3>1, CredentialAssumption DEF FlowInv
    <3>2. CASE \E w \in Workers : Login(w) /\ job[w].flow = latest'[i].flow
      BY <3>2 DEF FlowInv
    <3> QED
      BY <1>2, <3>1, <3>2
  <2> QED
    BY <1>0, <2>2
<1> QED
  BY <1>1, <1>2 DEF FlowInv

\* What a step of w does to the histories.
LEMMA HistoryFlows ==
    ASSUME TypeOK, NEW w \in Workers
    PROVE  /\ job[w] # Idle /\ Overtakes(w) =>
                /\ \A i \in Ids \ {job[w].id} : latest'[i] = latest[i]
                /\ job[w].id \in Ids
                /\ latest'[job[w].id].flow = job[w].flow /\ ~latest'[job[w].id].saved
           /\ \A i \in Ids : Loses(i) =>
                /\ \A k \in Ids \ {i} : latest'[k] = latest[k]
                /\ latest'[i].flow = 0 /\ ~latest'[i].saved
<1>1. latest \in [Ids -> [flow : 0..MaxFlows, saved : BOOLEAN]]
  BY DEF TypeOK
<1>2. ASSUME job[w] # Idle PROVE job[w].id \in Ids
  BY <1>2, Typed DEF Job
<1> QED
  BY <1>1, <1>2 DEF Overtakes, Loses, Nobody

LEMMA StepFlow == KeptInv /\ PendingInv /\ FlowInv /\ [Next]_vars => FlowInv'
<1> SUFFICES ASSUME KeptInv, PendingInv, FlowInv, [Next]_vars PROVE FlowInv'
  OBVIOUS
<1>0. TypeOK /\ TypeOK' /\ ServingInv /\ begun \in Nat /\ Idle.pc = "idle" /\ Nobody.flow = 0
  BY StepTypeOK, CredentialAssumption DEF KeptInv, TypeOK, Idle, Nobody
<1>1. ASSUME job' = job, config' = config \/ \A w \in Workers : job[w] = Idle,
             begun <= begun',
             \A f \in 1..begun : pending[f] = Never => pending'[f] = Never,
             \A i \in Ids : latest'[i] = latest[i] \/ latest'[i].flow = 0
      PROVE  FlowInv'
  <2>1. \A w \in Workers : Login(w)' => /\ Login(w) /\ job'[w].flow = job[w].flow
                                        /\ job'[w].pc \notin {"read", "decide"}
    BY <1>1 DEF Login, FlowInv
  <2>2. \A w \in Workers : Doing(w, {"install"})' => Login(w)'
    BY <1>1 DEF Login, FlowInv, Doing
  <2> QED
    BY <1>0, <1>1, <2>1, <2>2, FlowsKept
<1>2. CASE UNCHANGED <<job, config, begun, pending, latest>>
  BY <1>0, <1>1, <1>2
<1>3. CASE Boot
  <2>1. phase # "serving" => \A w \in Workers : job[w] = Idle
    BY <1>0 DEF ServingInv
  <2>2. CASE Load
    BY <1>0, <1>1, <2>1, <2>2 DEF Load, history
  <2>3. CASE LoadFails
    BY <1>0, <1>1, <2>1, <2>3 DEF LoadFails
  <2> QED
    BY <1>2, <1>3, <2>2, <2>3 DEF Boot, EnsureStaticAuth, DisableOther, Serve, process, stores,
       history
<1>4. CASE Crash
  <2>1. /\ begun' = begun /\ \A w \in Workers : job'[w] = Idle /\ ~Login(w)'
        /\ \A f \in Flows : pending'[f] = Never
        /\ \A i \in Ids : latest'[i] = latest[i] \/ latest'[i].flow = 0
    BY <1>0, <1>4 DEF Crash, Login
  <2>2. 1..begun \subseteq Flows
    BY <1>0, CredentialAssumption DEF TypeOK, Flows
  <2>3. \A w \in Workers : ~Doing(w, {"install"})'
    BY <2>1 DEF Doing, Idle
  <2> QED
    BY <1>0, <2>1, <2>2, <2>3, FlowsKept
<1>5. CASE Tick
  BY <1>2, <1>5 DEF Tick, process, stores, history
<1>6. CASE OAuthStart
  <2>1. begun' = begun + 1 /\ pending' = [pending EXCEPT ![begun'] = now]
    BY <1>6 DEF OAuthStart, Remember
  <2>2. \A f \in 1..begun : pending'[f] = pending[f]
    BY <1>0, <2>1, CredentialAssumption DEF TypeOK, Flows
  <2> QED
    BY <1>0, <1>1, <1>6, <2>1, <2>2 DEF OAuthStart, process, history
<1>7. ASSUME NEW g \in Flows, OAuthCallbackLate(g) PROVE FlowInv'
  <2>1. \A f \in 1..begun : pending[f] = Never => pending'[f] = Never
    BY <1>0, <1>7, CredentialAssumption DEF OAuthCallbackLate, Forget, TypeOK, Flows
  <2> QED
    BY <1>0, <1>1, <1>7, <2>1 DEF OAuthCallbackLate, process, history
<1>8. CASE UNCHANGED vars
  BY <1>2, <1>8 DEF vars, process, history
<1>9. ASSUME NEW w \in Workers, NEW j, job' = [job EXCEPT ![w] = j],
             j # Idle /\ j.kind = "login" =>
                /\ Login(w) /\ j.flow = job[w].flow /\ j.pc \notin {"read", "decide"}
                /\ j.pc = "reply" => job[w].pc = "reply",
             j.pc = "install" => Login(w) /\ j # Idle /\ j.kind = "login",
             UNCHANGED <<config, begun, pending>>,
             \A i \in Ids : \/ latest'[i].flow = latest[i].flow \/ latest'[i].flow = 0
                            \/ Login(w) /\ job[w].flow = latest'[i].flow /\ j.pc # "reply"
      PROVE  FlowInv'
  <2>1. job'[w] = j /\ \A v \in Workers \ {w} : job'[v] = job[v]
    BY <1>0, <1>9 DEF TypeOK
  <2>2. \A v \in Workers : Login(v)' =>
            /\ Login(v) /\ job'[v].flow = job[v].flow
            /\ job'[v].pc \notin {"read", "decide"}
            /\ job'[v].pc = "reply" => job[v].pc = "reply"
    BY <1>9, <2>1 DEF Login, FlowInv
  <2>3. \A i \in Ids :
              \/ latest'[i].flow = latest[i].flow \/ latest'[i].flow = 0
              \/ \E v \in Workers : /\ Login(v) /\ job[v].flow = latest'[i].flow
                                    /\ job'[v].pc # "reply"
    BY <1>9, <2>1
  <2>4. \A v \in Workers : Doing(v, {"install"})' => Login(v)'
    BY <1>9, <2>1 DEF Login, FlowInv, Doing
  <2> QED
    BY <1>0, <1>9, <2>2, <2>3, <2>4, FlowsKept
<1>10. ASSUME NEW w \in Workers, SignIn(w) PROVE FlowInv'
  <2>0. job[w] # Idle => job[w] \in Job
    BY <1>0, Typed
  <2>1. ASSUME NEW f \in Flows, OAuthCallback(w, f) PROVE FlowInv'
    <3>1. /\ job' = [job EXCEPT ![w] = [pc |-> "reply", kind |-> "login", id |-> config,
                                        flow |-> f, access |-> issued(f), at |-> 0]]
          /\ pending[f] # Never /\ pending' = [pending EXCEPT ![f] = Never]
          /\ UNCHANGED <<config, begun, latest>>
      BY <2>1 DEF OAuthCallback, Exchange, Forget, process, history
    <3>2. /\ job'[w].pc = "reply" /\ job'[w].flow = f
          /\ \A v \in Workers \ {w} : job'[v] = job[v]
      BY <1>0, <3>1 DEF TypeOK
    <3>3. f \in 1..begun /\ config \in Ids
      BY <1>0, <3>1 DEF PendingInv, Flows, TypeOK
    <3>4. /\ \A g \in Flows : pending[g] = Never => pending'[g] = Never
          /\ pending'[f] = Never /\ 1..begun \subseteq Flows
      BY <1>0, <3>1, CredentialAssumption DEF TypeOK, Flows
    <3>5. ASSUME NEW v \in Workers \ {w}, Login(v)'
          PROVE  /\ job'[v].pc \notin {"read", "decide"}
                 /\ job'[v].flow \in 1..begun /\ pending'[job'[v].flow] = Never
                 /\ job'[v].flow # f
                 /\ job'[v].pc = "reply" => latest[config].flow # job'[v].flow
      BY <3>1, <3>2, <3>4, <3>5 DEF FlowInv, Login
    <3>6. \A v, u \in Workers \ {w} : Login(v)' /\ Login(u)' /\ job'[v].flow = job'[u].flow => v = u
      BY <3>2 DEF FlowInv, Login
    <3>7. \A i \in Ids : latest[i].flow # 0 =>
              latest[i].flow <= begun /\ pending'[latest[i].flow] = Never
      <4>1. \A i \in Ids : latest[i].flow # 0 => latest[i].flow \in Flows
        BY <1>0 DEF TypeOK, Flows
      <4> QED
        BY <3>4, <4>1 DEF FlowInv
    <3>8. latest[config].flow # f
      BY <3>1, <3>3 DEF FlowInv
    <3>9. \A v \in Workers : Doing(v, {"install"})' => Login(v)'
      BY <3>2 DEF FlowInv, Login, Doing
    <3> QED
      BY <3>1, <3>2, <3>3, <3>4, <3>5, <3>6, <3>7, <3>8, <3>9 DEF FlowInv
  <2>2. CASE Install(w)
    <3> DEFINE j == [job[w] EXCEPT !.pc = "save"]
    <3>1. /\ job' = [job EXCEPT ![w] = j] /\ UNCHANGED <<config, begun, pending>>
          /\ job[w].pc = "install" /\ job[w] # Idle
      BY <2>2 DEF Install, Goto, Doing, Idle, process
    <3>2. j.pc = "save" /\ j.flow = job[w].flow /\ j.kind = job[w].kind /\ job[w].id \in Ids
      BY <2>0, <3>1 DEF Job
    <3>3. job[w].kind = "login"
      BY <2>2 DEF Install, FlowInv, Login
    <3>4. \A i \in Ids : \/ latest'[i].flow = latest[i].flow \/ latest'[i].flow = 0
                         \/ job[w].flow = latest'[i].flow
      <4>1. Overtakes(w) \/ Loses(job[w].id)
        BY <2>2 DEF Install
      <4> QED
        BY <1>0, <3>1, <3>2, <4>1, HistoryFlows
    <3> HIDE DEF j
    <3> QED
      BY <1>9, <3>1, <3>2, <3>3, <3>4 DEF Login
  <2>3. CASE SaveLogin(w)
    <3> DEFINE i == job[w].id
    <3>1. /\ job' = [job EXCEPT ![w] = Idle] /\ UNCHANGED <<config, begun, pending>> /\ job[w] # Idle
      BY <2>3 DEF SaveLogin, End, Doing, Idle, process
    <3>2. latest' = [latest EXCEPT ![i].saved = TRUE] \/ Loses(i)
      BY <2>3 DEF SaveLogin
    <3>3. \A k \in Ids : latest'[k].flow = latest[k].flow \/ latest'[k].flow = 0
      <4>1. i \in Ids /\ latest \in [Ids -> [flow : 0..MaxFlows, saved : BOOLEAN]]
        BY <1>0, <2>0, <3>1 DEF TypeOK, Job
      <4> HIDE DEF i
      <4>2. CASE latest' = [latest EXCEPT ![i].saved = TRUE]
        BY <4>1, <4>2
      <4>3. CASE Loses(i)
        BY <1>0, <4>1, <4>3, HistoryFlows
      <4> QED
        BY <3>2, <4>2, <4>3
    <3> QED
      BY <1>0, <1>9, <3>1, <3>3
  <2> QED
    BY <1>10, <2>1, <2>2, <2>3 DEF SignIn
<1>11. ASSUME NEW w \in Workers, Request(w) PROVE FlowInv'
  <2>0. /\ job[w] # Idle => job[w] \in Job /\ job[w].id \in Ids
        /\ \A pc : job[w].pc = pc /\ pc # "idle" => job[w] # Idle
        /\ Login(w) => job[w].pc \notin {"read", "decide"}
    BY <1>0, Typed DEF Job, FlowInv, Idle
  <2>1. ASSUME NEW k \in {"text", "image"}, NEW i \in Ids, Pick(w, k, i) PROVE FlowInv'
    BY <1>9, <2>1 DEF Pick, process, history, Login
  <2>2. CASE Read(w)
    <3> DEFINE j == [job[w] EXCEPT !.pc = "decide", !.access = tok[w].access,
                                   !.flow = tok[w].refresh]
    <3>1. /\ job' = [job EXCEPT ![w] = j] /\ UNCHANGED <<config, begun, pending, latest>>
          /\ job[w].pc = "read"
      BY <2>2 DEF Read, Doing, process
    <3>2. j.kind = job[w].kind /\ j.pc = "decide" /\ job[w] # Idle
      BY <2>0, <3>1 DEF Job
    <3> HIDE DEF j
    <3> QED
      BY <1>9, <2>0, <3>1, <3>2 DEF Login
  <2>3. CASE Refresh(w)
    <3> DEFINE j == [job[w] EXCEPT !.pc = "reply", !.access = issued(job[w].flow)]
    <3>1. /\ job' = [job EXCEPT ![w] = j] /\ UNCHANGED <<config, begun, pending, latest>>
          /\ job[w].pc = "decide"
      BY <2>3 DEF Refresh, Doing, process, history
    <3>2. j.kind = job[w].kind /\ j.pc = "reply" /\ job[w] # Idle
      BY <2>0, <3>1 DEF Job
    <3> HIDE DEF j
    <3> QED
      BY <1>9, <2>0, <3>1, <3>2 DEF Login
  <2>4. CASE PersistTokens(w) \/ PersistExpiry(w)
    <3>1. PICK j : job' = [job EXCEPT ![w] = j]
      BY <2>4 DEF PersistTokens, PersistExpiry
    <3>2. job'[w] = j /\ UNCHANGED <<config, begun, pending>>
      BY <1>0, <2>4, <3>1 DEF PersistTokens, PersistExpiry, TypeOK, process
    <3>3. /\ job[w] # Idle /\ j # Idle /\ j.kind = job[w].kind /\ j.flow = job[w].flow
          /\ j.pc = "install" => job[w].kind = "login"
          /\ j.pc \in {"expiry", "install", "save"}
      BY <1>0, <2>4, <3>2, Persisting
    <3>4. \A i \in Ids : \/ latest'[i].flow = latest[i].flow \/ latest'[i].flow = 0
                         \/ Login(w) /\ job[w].flow = latest'[i].flow
      <4>1. (Login(w) /\ Overtakes(w)) \/ Loses(job[w].id) \/ latest' = latest
        BY <2>4, <3>3 DEF PersistTokens, PersistExpiry, WritesBack, Login
      <4> QED
        BY <1>0, <2>0, <3>3, <4>1, HistoryFlows
    <3> QED
      BY <1>9, <3>1, <3>2, <3>3, <3>4 DEF Login
  <2>5. CASE ServeCached(w) \/ Leave(w)
    BY <1>0, <1>9, <2>5 DEF ServeCached, Leave, End, process
  <2>6. CASE Save(w)
    <3>1. /\ job' = [job EXCEPT ![w] = Idle] /\ UNCHANGED <<config, begun, pending>>
          /\ Loses(job[w].id) \/ latest' = latest
          /\ job[w] # Idle
      BY <2>6 DEF Save, End, Doing, Idle, process
    <3>2. \A i \in Ids : latest'[i].flow = latest[i].flow \/ latest'[i].flow = 0
      BY <1>0, <2>0, <3>1, HistoryFlows
    <3> QED
      BY <1>0, <1>9, <3>1, <3>2
  <2> QED
    BY <1>11, <2>1, <2>2, <2>3, <2>4, <2>5, <2>6 DEF Request
<1> QED
  BY <1>3, <1>4, <1>5, <1>6, <1>7, <1>8, <1>10, <1>11 DEF Next

\* The goroutine of w is over: nobody else's token, job or staleness changes.
LEMMA EndStick ==
    ASSUME TypeOK, StickInv, NEW w \in Workers, End(w), UNCHANGED <<config, phase>>,
           stale \ {w} \subseteq stale',
           \A i \in Ids : latest'[i].flow = latest[i].flow,
           \A i \in Ids : latest'[i].saved =>
              /\ latest[i].saved \/ (i = config /\ Installed)
              /\ disk'[i].tok.refresh = latest[i].flow
    PROVE  StickInv'
<1>0. MapsOK /\ config \in Ids /\ \A i \in Ids : i \in Holders \ {w}
  BY TypeParts, CredentialAssumption DEF TypeOK, Holders
<1>1. /\ \A k \in Holders \ {w} : tok'[k] = tok[k] /\ same'[k] = same[k] \ {w}
      /\ job'[w] = Idle /\ \A v \in Workers \ {w} : job'[v] = job[v]
  BY <1>0, EndMaps DEF End, TypeOK
<1>2. ASSUME NEW f, NEW v \in Workers, v # w => Agrees(v, f) PROVE Agrees(v, f)'
  <2>1. v # w => v \in Holders \ {w}
    BY DEF Holders
  <2> QED
    BY <1>1, <1>2, <2>1 DEF Agrees
<1>3. ASSUME NEW v \in Workers, Newest(v)'
      PROVE  v # w /\ Newest(v) /\ job'[v] = job[v] /\ v \in Holders \ {w}
  BY <1>0, <1>1, <1>3 DEF Newest, Login, Holders
<1>4. ASSUME NEW i \in Ids, latest'[i].saved
      PROVE  /\ disk'[i].tok.refresh = latest'[i].flow
             /\ phase' # "down" => tok'[i].refresh = latest'[i].flow
  BY <1>0, <1>1, <1>4 DEF StickInv
<1>5. ASSUME NEW v \in Workers, Newest(v)'
      PROVE  /\ tok'[v].refresh = job'[v].flow
             /\ \A u \in Others(v)' : Agrees(u, job[v].flow)'
  <2>1. Newest(v) /\ job'[v] = job[v] /\ tok'[v] = tok[v] /\ Others(v)' \subseteq Others(v)
    BY <1>1, <1>3, <1>5 DEF Others
  <2>2. \A u \in Others(v)' : u \in Workers /\ u \in Others(v)
    BY <2>1 DEF Others
  <2>3. ASSUME NEW f, f = job[v].flow, NEW u \in Others(v)' PROVE Agrees(u, f)'
    <3>1. Agrees(u, f)
      BY <2>1, <2>2, <2>3 DEF StickInv
    <3> QED
      BY <1>2, <2>2, <3>1
  <2>4. tok'[v].refresh = job'[v].flow
    BY <2>1 DEF StickInv
  <2> QED
    BY <2>1, <2>3, <2>4 DEF Agrees
<1>6. ASSUME Installed'
      PROVE  /\ phase' # "down" => tok'[config'].refresh = latest'[config'].flow
             /\ \A v \in Workers : Agrees(v, latest[config].flow)'
  <2>1. Installed
    BY <1>0, <1>3, <1>6 DEF Installed
  <2>2. ASSUME NEW f, f = latest[config].flow, NEW v \in Workers PROVE Agrees(v, f)'
    <3>1. Agrees(v, f)
      BY <2>1, <2>2 DEF StickInv
    <3> QED
      BY <1>2, <3>1
  <2>3. phase' # "down" => tok'[config'].refresh = latest'[config'].flow
    BY <1>0, <1>1, <2>1 DEF StickInv
  <2>4. latest'[config'].flow = latest[config].flow
    BY <1>0
  <2> QED
    BY <2>2, <2>3, <2>4 DEF Agrees
<1> QED
  BY <1>4, <1>5, <1>6 DEF StickInv

\* Nothing is promised of a login that was overtaken or written over.
LEMMA LosesStick ==
    ASSUME TypeOK, TypeOK', StickInv, FlowInv', Loses(config), UNCHANGED <<config, phase>>,
           \A i \in Ids \ {config} : tok'[i] = tok[i] /\ disk'[i] = disk[i]
    PROVE  StickInv'
<1>0. config \in Ids
  BY DEF TypeOK
<1>1. /\ \A k \in Ids \ {config} : latest'[k] = latest[k]
      /\ latest'[config].flow = 0 /\ ~latest'[config].saved
  BY <1>0 DEF Loses, Nobody, TypeOK
<1>2. \A v \in Workers : ~Newest(v)'
  BY <1>1 DEF FlowInv, Newest
<1>3. ~Installed'
  BY <1>1, <1>2 DEF Installed
<1> QED
  BY <1>1, <1>2, <1>3 DEF StickInv

\* A sign-in that has its tokens: everybody else at work is stale.
LEMMA OvertakesStick ==
    ASSUME TypeOK, TypeOK', StickInv, FlowInv', NEW w \in Workers, Login(w)',
           Overtakes(w), job[w] # Idle, job[w].id = config, job'[w].flow = job[w].flow,
           \A v \in Workers \ {w} : job'[v] = job[v],
           tok'[w].refresh = job[w].flow,
           job'[w].pc = "save" => tok'[config].refresh = job[w].flow,
           \A i \in Ids \ {config} : tok'[i] = tok[i],
           UNCHANGED <<config, phase, disk>>
    PROVE  StickInv'
<1>0. config \in Ids
  BY DEF TypeOK
<1>1. /\ \A k \in Ids \ {config} : latest'[k] = latest[k]
      /\ latest'[config].flow = job[w].flow /\ ~latest'[config].saved
  BY HistoryFlows
<1>2. \A v \in Workers : Newest(v)' => v = w
  BY <1>1 DEF FlowInv, Newest
<1>3. ASSUME NEW f, NEW v \in Workers PROVE Agrees(v, f)'
  <2>1. CASE v = w
    BY <2>1 DEF Agrees, Login
  <2>2. CASE v # w
    <3>1. job[v] # Idle => v \in stale'
      BY <2>2 DEF Overtakes
    <3> QED
      BY <2>2, <3>1 DEF Agrees
  <2> QED
    BY <2>1, <2>2
<1>4. \A v \in Workers : Others(v)' \subseteq Workers
  BY DEF Others
<1>5. ASSUME Installed' PROVE tok'[config'].refresh = latest'[config'].flow
  BY <1>1, <1>2, <1>5 DEF Installed
<1> QED
  BY <1>0, <1>1, <1>2, <1>3, <1>4, <1>5 DEF StickInv

\* A write that leaves every agreeing map with the sign-in's refresh token.
LEMMA PutStick ==
    ASSUME TypeOK, TypeOK', MapInv, StickInv, NEW w \in Workers, NEW t, Put(w, t),
           UNCHANGED <<same, config, phase, disk, latest, stale>>,
           job[w] # Idle, job[w].id = config, phase = "serving",
           job'[w] # Idle, job'[w].kind = job[w].kind, job'[w].flow = job[w].flow,
           job'[w].pc \in {"expiry", "install"} \/ (job'[w].pc = "save" /\ ~Login(w)),
           \A v \in Workers \ {w} : job'[v] = job[v],
           \/ t.refresh = tok[w].refresh
           \/ ~Login(w) /\ \A f : Agrees(w, f) => t.refresh = f
    PROVE  StickInv'
<1>0. /\ config \in Ids /\ config \in Holders /\ w \in Holders /\ w \notin Ids
      /\ \A k \in Holders : tok'[k] = IF k \in same[w] THEN t ELSE tok[k]
  BY CredentialAssumption DEF Put, TypeOK, Holders
<1>1. \A i \in Ids \ {config} : tok'[i] = tok[i]
  <2> SUFFICES ASSUME NEW i \in Ids \ {config} PROVE i \notin same[w]
    BY <1>0 DEF Holders
  <2>1. i \in Holders /\ same[i] = {i}
    BY DEF MapInv, Holders
  <2> QED
    BY <1>0, <2>1, Classes
<1>2. /\ \A v \in Workers : Login(v)' <=> Login(v)
      /\ \A v \in Workers : Newest(v)' <=> Newest(v)
      /\ Installed' => Installed
  BY DEF Newest, Login, Installed
<1>3. ASSUME NEW f, NEW k \in Holders, tok[k].refresh = f, k \in same[w],
             ~Login(w) => Agrees(w, f)
      PROVE  t.refresh = f
  <2>1. tok[k] = tok[w]
    BY <1>0, <1>3 DEF MapInv
  <2> QED
    BY <1>3, <2>1
<1>4. ASSUME NEW f, NEW v \in Workers, Agrees(v, f), v \in same[w] /\ ~Login(w) => Agrees(w, f)
      PROVE  Agrees(v, f)'
  <2>0. v \in Holders
    BY DEF Holders
  <2>1. CASE v = w
    <3>1. SUFFICES ASSUME ~Login(w), w \notin stale PROVE t.refresh = f
      BY <1>0, <1>4, <2>1, Classes DEF Agrees, Login
    <3>2. tok[w].refresh = f
      BY <1>4, <2>1, <3>1 DEF Agrees, Login
    <3> QED
      BY <1>0, <1>4, <2>1, <3>1, <3>2
  <2>2. CASE v # w /\ v \notin same[w]
    BY <1>0, <1>4, <2>0, <2>2 DEF Agrees
  <2>3. CASE v # w /\ v \in same[w]
    <3>1. SUFFICES ASSUME job[v] # Idle, job[v].kind # "login", v \notin stale PROVE t.refresh = f
      BY <1>0, <1>4, <2>0, <2>3 DEF Agrees
    <3>2. tok[v].refresh = f
      BY <1>4, <3>1 DEF Agrees
    <3> QED
      BY <1>3, <1>4, <2>0, <2>3, <3>2
  <2> QED
    BY <2>1, <2>2, <2>3
<1>5. ASSUME NEW v \in Workers, Newest(v)'
      PROVE  /\ tok'[v].refresh = job'[v].flow
             /\ \A u \in Others(v)' : Agrees(u, job[v].flow)'
  <2> DEFINE f == job[v].flow
  <2>1. /\ Newest(v) /\ job'[v].flow = f /\ Others(v)' = Others(v) /\ v \in Holders
        /\ tok[v].refresh = f /\ \A u \in Others(v) : u \in Workers /\ Agrees(u, f)
    BY <1>2, <1>5 DEF StickInv, Others, Holders
  <2>2. v \in same[w] /\ ~Login(w) => Agrees(w, f)
    <3>1. ASSUME v \in same[w], ~Login(w) PROVE w \in Others(v)
      BY <1>0, <2>1, <3>1, Classes DEF Others, Newest
    <3> QED
      BY <2>1, <3>1
  <2>3. \A u \in Others(v) : u \in same[w] => v \in same[w]
    BY <1>0, <2>1, Classes DEF Others
  <2> HIDE DEF f
  <2>4. tok'[v].refresh = f
    BY <1>0, <1>3, <2>1, <2>2
  <2> QED
    BY <1>4, <2>1, <2>2, <2>3, <2>4 DEF Agrees
<1>6. ASSUME Installed'
      PROVE  /\ tok'[config].refresh = latest[config].flow
             /\ \A v \in Workers : Agrees(v, latest[config].flow)'
  <2>1. /\ Installed /\ tok[config].refresh = latest[config].flow
        /\ \A v \in Workers : Agrees(v, latest[config].flow)
    BY <1>2, <1>6 DEF StickInv
  <2>2. tok'[config].refresh = latest[config].flow
    BY <1>0, <1>3, <2>1
  <2>3. ASSUME NEW f, f = latest[config].flow, NEW v \in Workers PROVE Agrees(v, f)'
    BY <1>4, <2>1, <2>3
  <2> QED
    BY <2>2, <2>3 DEF Agrees
<1>7. ASSUME NEW i \in Ids, latest[i].saved
      PROVE  disk[i].tok.refresh = latest[i].flow /\ tok'[i].refresh = latest[i].flow
  <2>1. CASE i = config
    BY <1>2, <1>6, <1>7, <2>1 DEF StickInv, Installed
  <2>2. CASE i # config
    BY <1>1, <1>7, <2>2 DEF StickInv
  <2> QED
    BY <2>1, <2>2
<1> QED
  BY <1>5, <1>6, <1>7 DEF StickInv

\* A step of w in which only w takes another map, and it agrees with those
\* that count.
LEMMA MoveStick ==
    ASSUME TypeOK, StickInv, NEW w \in Workers,
           UNCHANGED <<config, phase, disk, latest, stale>>,
           \A v \in Workers \ {w} : job'[v] = job[v],
           \A k \in Holders \ {w} : tok'[k] = tok[k],
           \A v \in Workers \ {w} : Others(v)' \subseteq Others(v) \cup {w},
           ~Newest(w)',
           \A f : Installed /\ f = latest[config].flow => Agrees(w, f)',
           \A f : \A v \in Workers \ {w} :
              Newest(v) /\ w \in Others(v)' /\ f = job[v].flow => Agrees(w, f)'
    PROVE  StickInv'
<1>0. config \in Ids /\ \A i \in Ids : i \in Holders \ {w}
  BY CredentialAssumption DEF TypeOK, Holders
<1>1. ASSUME NEW f, NEW v \in Workers \ {w}, Agrees(v, f) PROVE Agrees(v, f)'
  <2>1. v \in Holders \ {w}
    BY DEF Holders
  <2> QED
    BY <1>1, <2>1 DEF Agrees
<1>2. ASSUME NEW i \in Ids, latest'[i].saved
      PROVE  /\ disk'[i].tok.refresh = latest'[i].flow
             /\ phase' # "down" => tok'[i].refresh = latest'[i].flow
  BY <1>0, <1>2 DEF StickInv
<1>3. ASSUME NEW v \in Workers, Newest(v)'
      PROVE  v \in Workers \ {w} /\ Newest(v) /\ job'[v] = job[v] /\ v \in Holders \ {w}
  BY <1>3 DEF Newest, Login, Holders
<1>4. ASSUME NEW v \in Workers, Newest(v)'
      PROVE  /\ tok'[v].refresh = job'[v].flow
             /\ \A u \in Others(v)' : Agrees(u, job[v].flow)'
  <2>1. /\ Newest(v) /\ v \in Workers \ {w} /\ job'[v] = job[v] /\ tok'[v] = tok[v]
        /\ Others(v)' \subseteq Others(v) \cup {w} /\ Others(v)' \subseteq Workers
    BY <1>3, <1>4 DEF Others
  <2>2. ASSUME NEW f, f = job[v].flow, NEW u \in Others(v)' PROVE Agrees(u, f)'
    <3>1. u # w => Agrees(u, f)
      BY <2>1, <2>2 DEF StickInv
    <3> QED
      BY <1>1, <2>1, <2>2, <3>1
  <2>3. tok'[v].refresh = job'[v].flow
    BY <2>1 DEF StickInv
  <2> QED
    BY <2>1, <2>2, <2>3 DEF Agrees
<1>5. ASSUME Installed'
      PROVE  /\ phase' # "down" => tok'[config].refresh = latest[config].flow
             /\ \A v \in Workers : Agrees(v, latest[config].flow)'
  <2>1. Installed
    BY <1>0, <1>3, <1>5 DEF Installed
  <2>2. ASSUME NEW f, f = latest[config].flow, NEW v \in Workers PROVE Agrees(v, f)'
    <3>1. Agrees(v, f)
      BY <2>1, <2>2 DEF StickInv
    <3> QED
      BY <1>1, <2>1, <2>2, <3>1
  <2>3. phase' # "down" => tok'[config].refresh = latest[config].flow
    BY <1>0, <2>1 DEF StickInv
  <2> QED
    BY <2>2, <2>3 DEF Agrees
<1> QED
  BY <1>2, <1>4, <1>5 DEF StickInv

\* A clone joins at most the holders of its original.
LEMMA CloneOthers ==
    ASSUME TypeOK, NEW w \in Workers, Clone(w, config)
    PROVE  /\ tok'[w] = tok[config] /\ \A k \in Holders \ {w} : tok'[k] = tok[k]
           /\ \A v \in Workers \ {w} :
                 /\ Others(v)' \subseteq Others(v) \cup {w}
                 /\ w \in Others(v)' => v \in same[config]
<1> DEFINE group == IF shared /\ tok[config] # NoToken THEN same[config] \cup {w} ELSE {w}
<1>0. MapsOK /\ w \in Holders /\ config \in Holders
  BY TypeParts DEF TypeOK, Holders
<1>1. tok'[w] = tok[config] /\ \A k \in Holders \ {w} : tok'[k] = tok[k]
  BY <1>0, CloneTokens
<1>2. \A k \in Holders : same'[k] = IF k \in group THEN group ELSE same[k] \ {w}
  BY DEF Clone
<1>3. ASSUME NEW v \in Workers \ {w}
      PROVE  same'[v] \subseteq same[v] \cup {w} /\ (w \in same'[v] => v \in same[config])
  <2>0. v \in Holders
    BY DEF Holders
  <2>1. CASE v \in group
    <3>1. v \in same[config] /\ group = same[config] \cup {w}
      BY <2>1
    <3>2. same[v] = same[config]
      BY <1>0, <2>0, <3>1, Classes
    <3>3. same'[v] = group
      BY <1>2, <2>0, <2>1
    <3> QED
      BY <3>1, <3>2, <3>3
  <2>2. CASE v \notin group
    BY <1>2, <2>0, <2>2
  <2> QED
    BY <2>1, <2>2
<1> QED
  BY <1>1, <1>3 DEF Others

LEMMA ProcessStick ==
    ASSUME KeptInv, StickInv,
           \/ Boot \/ Crash \/ Tick \/ OAuthStart
           \/ \E f \in Flows : OAuthCallbackLate(f)
           \/ UNCHANGED vars
    PROVE  StickInv'
<1>0. TypeOK /\ ServingInv /\ \A i \in Ids : i \in Holders
  BY DEF KeptInv, Holders
<1>1. CASE UNCHANGED <<job, tok, same, disk, latest, stale, config>>
           /\ (phase' = "down" <=> phase = "down")
  BY <1>1 DEF StickInv, Newest, Login, Installed, Agrees, Others
<1>2. phase # "serving" => \A w \in Workers : job[w] = Idle
  BY <1>0 DEF ServingInv
<1>3. ASSUME \A w \in Workers : job'[w] = Idle, config' \in Ids,
             \A i \in Ids : latest'[i].saved =>
                /\ disk'[i].tok.refresh = latest'[i].flow
                /\ phase' # "down" => tok'[i].refresh = latest'[i].flow
      PROVE  StickInv'
  <2>1. \A v \in Workers : ~Newest(v)'
    BY <1>3 DEF Newest, Login
  <2>2. Installed' => latest'[config'].saved
    BY <2>1 DEF Installed
  <2>3. \A v \in Workers : Agrees(v, latest[config].flow)'
    BY <1>3 DEF Agrees
  <2> QED
    BY <1>3, <2>1, <2>2, <2>3 DEF StickInv
<1>4. CASE Boot
  <2>1. CASE Load
    <3>1. \A i \in Ids : tok'[i] = disk[i].tok
      BY <1>0, <2>1 DEF Load
    <3> QED
      BY <1>2, <1>3, <2>1, <3>1 DEF Load, history, StickInv
  <2>2. CASE LoadFails
    BY <1>2, <1>3, <2>2 DEF LoadFails, Nobody
  <2>3. CASE EnsureStaticAuth
    <3>1. /\ tok' = tok /\ phase = "loaded" /\ phase' = "registered"
          /\ UNCHANGED <<job, latest, config>> /\ config \in Ids
          /\ Saved(config, [status |-> "on", tok |-> tok[config]]) \/ NotSaved
      BY <1>0, <2>3 DEF EnsureStaticAuth, upsert, TypeOK, history
    <3>2. \A i \in Ids : disk'[i] = disk[i] \/ (i = config /\ disk'[i].tok = tok[i])
      BY <1>0, <3>1, SavedTokens
    <3> QED
      BY <1>2, <1>3, <3>1, <3>2 DEF StickInv
  <2>4. ASSUME NEW k \in Ids, DisableOther(k) PROVE StickInv'
    <3>1. /\ tok' = tok /\ phase = "registered" /\ phase' = "registered"
          /\ UNCHANGED <<job, latest, config>> /\ config \in Ids
          /\ Saved(k, [status |-> "off", tok |-> tok[k]]) \/ NotSaved
      BY <1>0, <2>4 DEF DisableOther, TypeOK, process, history
    <3>2. \A i \in Ids : disk'[i] = disk[i] \/ (i = k /\ disk'[i].tok = tok[i])
      BY <1>0, <3>1, SavedTokens
    <3> QED
      BY <1>2, <1>3, <3>1, <3>2 DEF StickInv
  <2>5. CASE Serve
    BY <1>1, <2>5 DEF Serve, stores, history
  <2> QED
    BY <1>4, <2>1, <2>2, <2>3, <2>4, <2>5 DEF Boot
<1>5. CASE Crash
  <2>1. /\ \A w \in Workers : job'[w] = Idle
        /\ phase' = "down" /\ config' \in Ids /\ disk' = disk
        /\ \A i \in Ids : latest'[i].saved => latest[i].saved /\ latest'[i] = latest[i]
    BY <1>0, <1>5 DEF Crash, Nobody, TypeOK
  <2> QED
    BY <1>3, <2>1 DEF StickInv
<1>6. CASE Tick \/ OAuthStart \/ (\E f \in Flows : OAuthCallbackLate(f)) \/ UNCHANGED vars
  BY <1>1, <1>6 DEF Tick, OAuthStart, OAuthCallbackLate, vars, process, stores, history
<1> QED
  BY <1>4, <1>5, <1>6

LEMMA GoroutineStick ==
    ASSUME KeptInv, PendingInv, FlowInv, FlowInv', TypeOK', StickInv,
           NEW w \in Workers, SignIn(w) \/ Request(w)
    PROVE  StickInv'
<1>0. /\ TypeOK /\ ServingInv /\ MapInv /\ config \in Ids /\ Idle.pc = "idle" /\ w \in Holders
      /\ job[w] # Idle => job[w] \in Job /\ job[w].id = config /\ phase = "serving"
      /\ Login(w) => job[w].pc \notin {"read", "decide"}
      /\ \A i \in Ids : i \in Holders \ {w}
  BY Typed, CredentialAssumption DEF KeptInv, ServingInv, TypeOK, Idle, FlowInv, Holders
<1>2. ASSUME End(w), Loses(config), UNCHANGED <<config, phase>>,
             \A i \in Ids \ {config} : disk'[i] = disk[i]
      PROVE  StickInv'
  <2>1. \A i \in Ids : tok'[i] = tok[i]
    BY <1>0, <1>2, EndMaps, TypeParts
  <2> QED
    BY <1>0, <1>2, <2>1, LosesStick
<1>3. ASSUME NEW v \in Workers \ {w}, Newest(v), v \in same[config]
      PROVE  tok[config].refresh = job[v].flow
  <2>1. v \in Holders /\ config \in Holders
    BY <1>0 DEF Holders
  <2>2. tok[v] = tok[config]
    BY <1>0, <1>3, <2>1 DEF MapInv
  <2> QED
    BY <1>3, <2>2 DEF StickInv
<1>4. CASE SignIn(w)
  <2>1. ASSUME NEW f \in Flows, OAuthCallback(w, f) PROVE StickInv'
    <3>1. /\ job' = [job EXCEPT ![w] = [pc |-> "reply", kind |-> "login", id |-> config,
                                        flow |-> f, access |-> issued(f), at |-> 0]]
          /\ Clone(w, config) /\ pending[f] # Never
          /\ UNCHANGED <<config, phase, disk, latest, stale>>
      BY <2>1 DEF OAuthCallback, Exchange, process, history
    <3>2. /\ job'[w].kind = "login" /\ job'[w].flow = f /\ job'[w].pc = "reply"
          /\ \A v \in Workers \ {w} : job'[v] = job[v]
      BY <1>0, <3>1 DEF TypeOK
    <3>3. ~Newest(w)'
      BY <1>0, <3>1, <3>2 DEF FlowInv, Newest, Flows
    <3>4. \A g : Agrees(w, g)'
      BY <3>2 DEF Agrees
    <3>5. /\ \A k \in Holders \ {w} : tok'[k] = tok[k]
          /\ \A v \in Workers \ {w} : Others(v)' \subseteq Others(v) \cup {w}
      BY <1>0, <3>1, CloneOthers
    <3> QED
      BY <1>0, <3>1, <3>2, <3>3, <3>4, <3>5, MoveStick
  <2>2. CASE Install(w)
    <3> DEFINE j == [job[w] EXCEPT !.pc = "save"]
    <3>1. /\ job' = [job EXCEPT ![w] = j] /\ UNCHANGED <<config, phase, disk>>
          /\ job[w].pc = "install" /\ job[w] # Idle /\ Login(w)
      BY <1>0, <2>2 DEF Install, Goto, Doing, Idle, process, FlowInv
    <3>2. /\ job[w] \in Job /\ job[w].id = config
          /\ j.flow = job[w].flow /\ j.kind = job[w].kind /\ j # Idle
      BY <1>0, <3>1 DEF Job, Idle
    <3>3. job'[w] = j /\ \A v \in Workers \ {w} : job'[v] = job[v]
      BY <1>0, <3>1 DEF TypeOK
    <3> HIDE DEF j
    <3>4. /\ tok'[config] = tok[w]
          /\ \A k \in Holders \ {config} : tok'[k] = tok[k]
      <4>1. config \in Holders /\ MapsOK /\ Clone(config, w)
        BY <1>0, <2>2, <3>2, TypeParts DEF Install, Update
      <4> QED
        BY <1>0, <4>1, CloneTokens
    <3>5. \A i \in Ids \ {config} : tok'[i] = tok[i]
      BY <1>0, <3>4
    <3>6. CASE latest[config].flow = job[w].flow
      <4>1. tok[w].refresh = job[w].flow /\ tok'[w] = tok[w]
        BY <1>0, <3>1, <3>4, <3>6 DEF StickInv, Newest
      <4>2. Login(w)' /\ Overtakes(w)
        BY <2>2, <3>1, <3>2, <3>3, <3>6 DEF Install, Login
      <4> QED
        BY <1>0, <3>1, <3>2, <3>3, <3>4, <3>5, <4>1, <4>2, OvertakesStick
    <3>7. CASE latest[config].flow # job[w].flow
      <4>1. Loses(config)
        BY <2>2, <3>2, <3>7 DEF Install
      <4> QED
        BY <1>0, <3>1, <3>5, <4>1, LosesStick
    <3> QED
      BY <3>6, <3>7
  <2>3. CASE SaveLogin(w)
    <3>1. /\ End(w) /\ UNCHANGED <<config, phase>>
          /\ job[w].pc = "save" /\ job[w].kind = "login" /\ job[w] # Idle /\ job[w].id = config
      BY <1>0, <2>3 DEF SaveLogin, Doing, Idle, process
    <3>2. \A i \in Ids \ {config} : disk'[i] = disk[i]
      BY <1>0, <2>3, <3>1, SavedTokens DEF SaveLogin
    <3>3. CASE Loses(config)
      BY <1>2, <3>1, <3>2, <3>3
    <3>4. CASE /\ Saved(config, [status |-> "on", tok |-> tok[w]])
               /\ latest[config].flow = job[w].flow
               /\ latest' = [latest EXCEPT ![config].saved = TRUE]
               /\ stale' = stale \ {w}
      <4>1. Newest(w) /\ Installed
        BY <3>1, <3>4 DEF Newest, Login, Installed
      <4>2. disk'[config].tok.refresh = latest[config].flow
        BY <1>0, <3>4, <4>1 DEF Saved, StickInv, TypeOK
      <4>3. /\ \A i \in Ids : latest'[i].flow = latest[i].flow
            /\ \A i \in Ids \ {config} : latest'[i] = latest[i]
        BY <1>0, <3>4 DEF TypeOK
      <4>4. \A i \in Ids : latest'[i].saved =>
              /\ latest[i].saved \/ (i = config /\ Installed)
              /\ disk'[i].tok.refresh = latest[i].flow
        BY <3>2, <4>1, <4>2, <4>3 DEF StickInv
      <4> QED
        BY <1>0, <3>1, <3>4, <4>3, <4>4, EndStick
    <3> QED
      BY <2>3, <3>1, <3>3, <3>4 DEF SaveLogin
  <2> QED
    BY <1>4, <2>1, <2>2, <2>3 DEF SignIn
<1>5. CASE Request(w)
  <2>1. ASSUME NEW k \in {"text", "image"}, NEW i \in Ids, Pick(w, k, i) PROVE StickInv'
    <3>1. /\ job' = [job EXCEPT ![w] = [pc |-> "read", kind |-> k, id |-> i, flow |-> 0,
                                        access |-> NoAccess, at |-> 0]]
          /\ Clone(w, config) /\ phase = "serving"
          /\ UNCHANGED <<config, phase, disk, latest, stale>>
      BY <1>0, <2>1 DEF Pick, process, history, ServingInv, OthersDisabled
    <3>2. /\ job'[w].kind # "login" /\ job'[w].pc = "read"
          /\ \A v \in Workers \ {w} : job'[v] = job[v]
      BY <1>0, <3>1 DEF TypeOK
    <3>3. ~Newest(w)'
      BY <3>2 DEF Newest, Login
    <3>4. /\ tok'[w] = tok[config] /\ \A h \in Holders \ {w} : tok'[h] = tok[h]
          /\ \A v \in Workers \ {w} : /\ Others(v)' \subseteq Others(v) \cup {w}
                                      /\ w \in Others(v)' => v \in same[config]
      BY <1>0, <3>1, CloneOthers
    <3>5. \A f : tok[config].refresh = f => Agrees(w, f)'
      BY <3>2, <3>4 DEF Agrees
    <3>6. \A f : Installed /\ f = latest[config].flow => Agrees(w, f)'
      BY <3>1, <3>5 DEF StickInv
    <3>7. \A f : \A v \in Workers \ {w} :
              Newest(v) /\ w \in Others(v)' /\ f = job[v].flow => Agrees(w, f)'
      BY <1>3, <3>4, <3>5
    <3> QED
      BY <1>0, <3>1, <3>2, <3>3, <3>4, <3>6, <3>7, MoveStick
  <2>2. CASE Read(w) \/ Refresh(w)
    <3> DEFINE a == IF Read(w) THEN [job[w] EXCEPT !.pc = "decide", !.access = tok[w].access,
                                                   !.flow = tok[w].refresh]
                    ELSE [job[w] EXCEPT !.pc = "reply", !.access = issued(job[w].flow)]
    <3>1. /\ job' = [job EXCEPT ![w] = a] /\ UNCHANGED <<config, phase, disk, latest, stale, tok, same>>
          /\ job[w].pc \in {"read", "decide"}
          /\ Refresh(w) => job[w].pc = "decide"
      BY <2>2 DEF Read, Refresh, Doing, process, history, stores
    <3>2. job[w] # Idle /\ ~Login(w) /\ job[w].kind # "login" /\ job[w] \in Job
      BY <1>0, <3>1 DEF Login
    <3>3. /\ a.kind = job[w].kind /\ a # Idle
          /\ Read(w) => a.flow = tok[w].refresh
          /\ ~Read(w) => a.flow = job[w].flow
      BY <3>2 DEF Job, Idle
    <3>4. job'[w] = a /\ \A v \in Workers \ {w} : job'[v] = job[v]
      BY <1>0, <3>1 DEF TypeOK
    <3> HIDE DEF a
    <3>5. ~Newest(w)'
      BY <3>2, <3>3, <3>4 DEF Newest, Login
    <3>6. \A f : Agrees(w, f) => Agrees(w, f)'
      BY <2>2, <3>1, <3>2, <3>3, <3>4 DEF Agrees
    <3>7. \A v \in Workers \ {w} : Others(v)' = Others(v)
      BY <3>1 DEF Others
    <3>8. \A f : Installed /\ f = latest[config].flow => Agrees(w, f)'
      BY <3>6 DEF StickInv
    <3>9. \A f : \A v \in Workers \ {w} :
              Newest(v) /\ w \in Others(v)' /\ f = job[v].flow => Agrees(w, f)'
      BY <3>6, <3>7 DEF StickInv
    <3> QED
      BY <1>0, <3>1, <3>4, <3>5, <3>7, <3>8, <3>9, MoveStick
  <2>3. CASE ServeCached(w) \/ Leave(w)
    <3>1. End(w) /\ UNCHANGED <<config, phase, disk, latest>> /\ stale' = stale \ {w}
      BY <2>3 DEF ServeCached, Leave, process
    <3>2. \A i \in Ids : latest'[i].saved =>
              latest[i].saved /\ disk'[i].tok.refresh = latest[i].flow
      BY <3>1 DEF StickInv
    <3> QED
      BY <1>0, <3>1, <3>2, EndStick
  <2>4. CASE PersistTokens(w)
    <3>1. /\ job[w] \in Job /\ job[w] # Idle /\ job[w].pc = "reply" /\ job'[w].pc = "expiry"
          /\ \A v \in Workers \ {w} : job'[v] = job[v]
          /\ job'[w] # Idle /\ job'[w].kind = job[w].kind /\ job'[w].flow = job[w].flow
          /\ job[w].id = config /\ phase = "serving"
      BY <1>0, <2>4, Persisting
    <3>2. PICK r \in Granted(w) : Put(w, [tok[w] EXCEPT !.access = arrived(w), !.refresh = r])
      BY <2>4 DEF PersistTokens
    <3> DEFINE t == [tok[w] EXCEPT !.access = arrived(w), !.refresh = r]
    <3>3. t.refresh = r /\ Put(w, t) /\ UNCHANGED <<same, config, phase, disk>>
      BY <1>0, <2>4, <3>2, Typed DEF PersistTokens, process, Token
    <3> HIDE DEF t
    <3>4. \A i \in Ids \ {config} : tok'[i] = tok[i]
      <4> SUFFICES ASSUME NEW i \in Ids \ {config} PROVE i \notin same[w]
        BY <1>0, <3>3 DEF Put
      <4>1. i \in Holders /\ same[i] = {i} /\ i # w
        BY <1>0 DEF MapInv
      <4> QED
        BY <1>0, <4>1, Classes
    <3> DEFINE bringsOne == job[w].kind = "login" /\ starts \in OfflineStarts
    <3>5. CASE bringsOne
      <4>1. r = job[w].flow /\ Overtakes(w) /\ Login(w)'
        BY <2>4, <3>1, <3>2, <3>5, GrantedForms DEF PersistTokens, Login
      <4>2. tok'[w].refresh = job[w].flow
        BY <1>0, <3>3, <4>1, Classes DEF Put
      <4> QED
        BY <1>0, <3>1, <3>3, <3>4, <4>1, <4>2, OvertakesStick
    <3>6. CASE ~bringsOne /\ w \in stale
      <4>1. Loses(config)
        BY <2>4, <3>1, <3>6 DEF PersistTokens, WritesBack
      <4> QED
        BY <1>0, <3>3, <3>4, <4>1, LosesStick
    <3>7. CASE ~bringsOne /\ w \notin stale
      <4>1. UNCHANGED <<latest, stale>>
        BY <2>4, <3>7 DEF PersistTokens, WritesBack
      <4>2. \/ t.refresh = tok[w].refresh
            \/ ~Login(w) /\ \A f : Agrees(w, f) => t.refresh = f
        BY <3>1, <3>2, <3>3, <3>7, GrantedForms DEF Agrees, Login
      <4> QED
        BY <1>0, <3>1, <3>3, <4>1, <4>2, PutStick
    <3> QED
      BY <3>5, <3>6, <3>7
  <2>5. CASE PersistExpiry(w)
    <3> DEFINE t == [tok[w] EXCEPT !.files = job[w].access.files, !.exp = job[w].at]
    <3>1. /\ job[w] \in Job /\ job[w] # Idle /\ job[w].id = config /\ phase = "serving"
          /\ job'[w].pc = IF job[w].kind = "login" THEN "install" ELSE "save"
          /\ \A v \in Workers \ {w} : job'[v] = job[v]
          /\ job'[w] # Idle /\ job'[w].kind = job[w].kind /\ job'[w].flow = job[w].flow
      BY <1>0, <2>5, Persisting
    <3>2. /\ t.refresh = tok[w].refresh /\ Put(w, t)
          /\ UNCHANGED <<same, config, phase, disk, latest, stale>>
      BY <1>0, <2>5, Typed DEF PersistExpiry, process, Token
    <3>3. job'[w].pc = "install" \/ (job'[w].pc = "save" /\ ~Login(w))
      BY <3>1 DEF Login
    <3> HIDE DEF t
    <3> QED
      BY <1>0, <3>1, <3>2, <3>3, PutStick
  <2>6. CASE Save(w)
    <3>1. /\ End(w) /\ UNCHANGED <<config, phase>>
          /\ job[w].pc = "save" /\ job[w].kind # "login" /\ job[w] # Idle /\ job[w].id = config
      BY <1>0, <2>6 DEF Save, Doing, Idle, process
    <3>2. /\ \A i \in Ids \ {config} : disk'[i] = disk[i]
          /\ disk' = disk \/ disk'[config].tok = tok[w]
      BY <1>0, <2>6, <3>1, SavedTokens DEF Save
    <3>3. CASE w \in stale
      <4>1. Loses(config)
        BY <2>6, <3>1, <3>3 DEF Save
      <4> QED
        BY <1>2, <3>1, <3>2, <4>1
    <3>4. CASE w \notin stale
      <4>1. UNCHANGED <<latest, stale>>
        BY <2>6, <3>4 DEF Save
      <4>2. latest[config].saved => tok[w].refresh = latest[config].flow
        BY <3>1, <3>4 DEF StickInv, Installed, Agrees
      <4>3. \A i \in Ids : latest'[i].saved =>
              latest[i].saved /\ disk'[i].tok.refresh = latest[i].flow
        BY <3>2, <4>1, <4>2 DEF StickInv
      <4> QED
        BY <1>0, <3>1, <4>1, <4>3, EndStick
    <3> QED
      BY <3>3, <3>4
  <2> QED
    BY <1>5, <2>1, <2>2, <2>3, <2>4, <2>5, <2>6 DEF Request
<1> QED
  BY <1>4, <1>5

\* The inductive invariant.
LoginTokensInv == KeptInv /\ PendingInv /\ FlowInv /\ StickInv

LEMMA StepStick == LoginTokensInv /\ [Next]_vars => LoginTokensInv'
<1> SUFFICES ASSUME LoginTokensInv, [Next]_vars PROVE LoginTokensInv'
  OBVIOUS
<1>1. KeptInv' /\ PendingInv' /\ FlowInv' /\ TypeOK'
  BY StepKept, StepPending, StepFlow DEF LoginTokensInv, KeptInv
<1>2. StickInv'
  BY <1>1, ProcessStick, GoroutineStick DEF LoginTokensInv, Next
<1> QED
  BY <1>1, <1>2 DEF LoginTokensInv

\* A complete sign-in stays the account's login, in memory, in the file and
\* after a restart, until another sign-in or a request that took the account
\* before it writes its own tokens back.
THEOREM SignInsStick == Spec => []SignInSticks
<1>1. Init => LoginTokensInv
  <2> SUFFICES ASSUME Init PROVE LoginTokensInv
    OBVIOUS
  <2>1. \A w \in Workers : job[w] = Idle /\ ~Login(w)
    BY DEF Init, Login
  <2>2. config \in Ids /\ \A i \in Ids : latest[i].flow = 0 /\ ~latest[i].saved
    BY DEF Init, Nobody
  <2>3. FlowInv
    BY <2>1, <2>2 DEF FlowInv, Doing, Idle
  <2>4. StickInv
    BY <2>1, <2>2 DEF StickInv, Newest, Installed
  <2> QED
    BY <2>3, <2>4, InitTokens DEF LoginTokensInv, Init, PendingInv
<1>2. LoginTokensInv => SignInSticks
  BY DEF LoginTokensInv, StickInv, SignInSticks, KeptInv, LoginInv
<1> QED
  BY <1>1, <1>2, StepStick, PTL DEF Spec
=============================================================================
