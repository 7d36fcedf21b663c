---------------------------- MODULE Credentials ----------------------------
(***************************************************************************)
(* The delegated token of the M365 account, from the browser sign-in to    *)
(* the access token a request is sent with, across restarts:               *)
(*   cmd/m3652api/main.go           boot, /m365/oauth/start and /callback  *)
(*   internal/oauthstate            the pending sign-ins                   *)
(*   provider/m365/static_auth.go   the account bootstrap                  *)
(*   provider/m365/oauth_auth_code.go, token.go, sharepoint_upload.go      *)
(*                                  exchange, refresh, write back, save    *)
(*                                                                         *)
(* The account manager, its Clone and its file store belong to the SDK.    *)
(* Clone copies an account's metadata; whether the nested "token" map is   *)
(* copied or shared is left open (shared), and the writes to a shared map  *)
(* are interleaved with its reads, for nothing locks it.                   *)
(*                                                                         *)
(* A refresh token is known by the sign-in that granted it: a rotated      *)
(* refresh token is the same number, 0 is none.                            *)
(***************************************************************************)
EXTENDS Integers, FiniteSets

CONSTANTS
    Ids,            \* account ids (m365.auth-id), different in more than case
    Workers,        \* goroutines: the requests and callbacks open at once
    MaxFlows,       \* bound: sign-ins begun
    FileFlows,      \* the sign-ins that consent to Files.ReadWrite.AppFolder
    OfflineStarts,  \* the starts whose configuration asks for offline_access
    Lifetime,       \* life of an access token, from its issue
    Margin,         \* the 60 s before its end when it is not used any more
    TTL,            \* life of a pending sign-in (10 minutes)
    MaxTime,        \* bound: the clock
    MaxStarts,      \* bound: starts of the process
    MaxFaults       \* bound: writes or loads of the token files that fail

ASSUME CredentialAssumption ==
    /\ Ids \cap Workers = {}
    /\ MaxFlows \in Nat /\ FileFlows \subseteq 1..MaxFlows
    /\ Lifetime \in Nat \ {0} /\ Margin \in Nat /\ TTL \in Nat
    /\ MaxTime \in Nat /\ MaxStarts \in Nat /\ MaxFaults \in Nat

VARIABLES
    now,        \* the clock
    shared,     \* does Clone share the token map?
    phase,      \* where the process is: "down", "loaded", "registered", "serving"
    config,     \* runtimeCfg.AuthID of this process
    account,    \* account[i]: what the manager knows of i
    disk,       \* disk[i]: the token file of i
    tok,        \* tok[h]: the token map that account, or worker, h holds
    same,       \* same[h]: who holds the same map as h
    job,        \* job[w]: locals of the goroutine w
    pending,    \* oauthStates: when the sign-in was put, Never if absent
    begun,      \* number of sign-ins begun
    starts,     \* starts of the process
    faults,     \* failed writes and loads
    redeemed,   \* history: how often a sign-in was honoured, when and where put
    login,      \* history: accounts that have been signed in, and saved so
    latest,     \* history: the last sign-in installed, and whether it was saved
    stale,      \* history: workers that took the account before that
    raced       \* history: did accesses to a shared map overlap?

stores == <<account, disk, tok, same>>
process == <<phase, config, starts>>
history == <<login, latest, stale, raced>>
vars == <<now, shared, process, stores, job, pending, begun, faults, redeemed, history>>

Flows == 1..MaxFlows
Holders == Ids \cup Workers
Never == -1

\* An access token, as the identity service knows it.  Its late is history:
\* the reply that brought it took longer than the margin.
Access == [until : 0..(MaxTime + Lifetime), files : BOOLEAN, late : BOOLEAN]
NoAccess == [until |-> 0, files |-> FALSE, late |-> FALSE]
Token == [access : Access, refresh : 0..MaxFlows, files : BOOLEAN,
          exp : 0..(MaxTime + Lifetime)]
NoToken == [access |-> NoAccess, refresh |-> 0, files |-> FALSE, exp |-> 0]
NoFile == [status |-> "absent", tok |-> NoToken]

Job == [pc : {"read", "decide", "reply", "expiry", "install", "save"},
        kind : {"text", "image", "login"}, id : Ids, flow : 0..MaxFlows,
        access : Access, at : 0..(MaxTime + Lifetime)]
Idle == [pc |-> "idle"]
Nobody == [flow |-> 0, saved |-> FALSE]

TypeOK ==
    /\ now \in 0..MaxTime /\ shared \in BOOLEAN
    /\ phase \in {"down", "loaded", "registered", "serving"}
    /\ config \in Ids
    /\ account \in [Ids -> {"absent", "on", "off"}]
    /\ disk \in [Ids -> [status : {"absent", "on", "off"}, tok : Token]]
    /\ tok \in [Holders -> Token]
    /\ same \in [Holders -> SUBSET Holders]
    /\ \A g, h \in Holders : g \in same[h] <=> same[g] = same[h]
    /\ job \in [Workers -> Job \cup {Idle}]
    /\ pending \in [Flows -> 0..MaxTime \cup {Never}]
    /\ begun \in 0..MaxFlows /\ starts \in 0..MaxStarts /\ faults \in 0..MaxFaults
    /\ redeemed \in [Flows -> [times : Nat, put : 0..MaxTime, start : 0..MaxStarts]]
    /\ login \subseteq Ids /\ latest \in [Ids -> [flow : 0..MaxFlows, saved : BOOLEAN]]
    /\ stale \subseteq Workers /\ raced \in BOOLEAN

Init ==
    /\ now = 0 /\ shared \in BOOLEAN
    /\ phase = "down" /\ config \in Ids
    /\ account = [i \in Ids |-> "absent"]
    /\ disk = [i \in Ids |-> NoFile]
    /\ tok = [h \in Holders |-> NoToken]
    /\ same = [h \in Holders |-> {h}]
    /\ job = [w \in Workers |-> Idle]
    /\ pending = [f \in Flows |-> Never]
    /\ begun = 0 /\ starts = 0 /\ faults = 0
    /\ redeemed = [f \in Flows |-> [times |-> 0, put |-> 0, start |-> 0]]
    /\ login = {} /\ latest = [i \in Ids |-> Nobody] /\ stale = {} /\ raced = FALSE

-----------------------------------------------------------------------------
(* The token map: who holds it, and what another goroutine may meet in it. *)

\* g becomes a clone of h: without a token map in h there is nothing to share.
Clone(g, h) ==
    LET group == IF shared /\ tok[h] # NoToken THEN same[h] \cup {g} ELSE {g} IN
    /\ tok' = [tok EXCEPT ![g] = tok[h]]
    /\ same' = [k \in Holders |-> IF k \in group THEN group ELSE same[k] \ {g}]

\* Everybody who holds the map of h sees the write.
Put(h, t) == tok' = [g \in Holders |-> IF g \in same[h] THEN t ELSE tok[g]]

Doing(w, pcs) == job[w].pc \in pcs
Others(w) == (same[w] \cap Workers) \ {w}

\* A reader that meets a half-written map, a writer in the middle of another
\* access.
Meets(w, pcs) == raced' = (raced \/ \E v \in Others(w) : Doing(v, pcs))

\* The access token the identity service issues for a login.
issued(f) == [until |-> now + Lifetime, files |-> f \in FileFlows, late |-> FALSE]

\* The goroutine is over, or fails.
End(w) ==
    /\ job' = [job EXCEPT ![w] = Idle]
    /\ tok' = [tok EXCEPT ![w] = NoToken]
    /\ same' = [h \in Holders |-> IF h = w THEN {w} ELSE same[h] \ {w}]

Goto(w, p) == job' = [job EXCEPT ![w].pc = p]

\* A sign-in is the last one from the moment it has its tokens, unless it is
\* overtaken, or one that took the account before writes its own back.
Overtakes(w) ==
    /\ latest' = [latest EXCEPT ![job[w].id] = [flow |-> job[w].flow, saved |-> FALSE]]
    /\ stale' = {v \in Workers \ {w} : job[v] # Idle}

Loses(i) == latest' = [latest EXCEPT ![i] = Nobody] /\ stale' = {}

WritesBack(w) ==
    IF w \in stale THEN Loses(job[w].id) ELSE UNCHANGED <<latest, stale>>

\* store.Save: the error is dropped.
Saved(i, file) == disk' = [disk EXCEPT ![i] = file] /\ UNCHANGED faults
NotSaved == faults < MaxFaults /\ faults' = faults + 1 /\ UNCHANGED disk

-----------------------------------------------------------------------------
(* Boot.                                                                   *)

\* core.Load; the configuration may have changed since the last start.
Load ==
    /\ phase = "down"
    /\ starts < MaxStarts /\ starts' = starts + 1
    /\ config' \in Ids
    /\ phase' = "loaded"
    /\ account' = [i \in Ids |-> disk[i].status]
    /\ tok' = [h \in Holders |-> IF h \in Ids THEN disk[h].tok ELSE NoToken]
    /\ UNCHANGED <<now, shared, disk, same, job, pending, begun, faults, redeemed, history>>

\* Its failure is only logged.  The bootstrap then registers a blank account
\* over the file, so nothing is promised of the logins from here on.
LoadFails ==
    /\ phase = "down"
    /\ starts < MaxStarts /\ starts' = starts + 1
    /\ NotSaved
    /\ config' \in Ids
    /\ phase' = "loaded"
    /\ login' = {} /\ latest' = [i \in Ids |-> Nobody]
    /\ UNCHANGED <<now, shared, account, tok, same, job, pending, begun, redeemed, stale, raced>>

\* Mutant of upsert: the metadata is built anew.
upsertBlank == NoToken

\* The token fields of a known account survive the bootstrap.
upsert == tok[config]

\* EnsureStaticAuth: Update or Register.
EnsureStaticAuth ==
    /\ phase = "loaded"
    /\ phase' = "registered"
    /\ account' = [account EXCEPT ![config] = "on"]
    /\ tok' = [tok EXCEPT ![config] = upsert]
    /\ \/ Saved(config, [status |-> "on", tok |-> upsert])
       \/ NotSaved
    /\ UNCHANGED <<now, shared, config, starts, same, job, pending, begun, redeemed, history>>

\* disableOtherM365Auths, one account of its loop.
DisableOther(i) ==
    /\ phase = "registered"
    /\ i # config /\ account[i] = "on"
    /\ account' = [account EXCEPT ![i] = "off"]
    /\ \/ Saved(i, [status |-> "off", tok |-> tok[i]])
       \/ NotSaved
    /\ UNCHANGED <<now, shared, process, tok, same, job, pending, begun, redeemed, history>>

\* Mutant of OthersDisabled: the server does not wait for the loop.
ConfiguredOn == account[config] = "on"

OthersDisabled == \A i \in Ids \ {config} : account[i] # "on"

\* svc.Run: the routes are open.
Serve ==
    /\ phase = "registered"
    /\ OthersDisabled
    /\ phase' = "serving"
    /\ UNCHANGED <<now, shared, config, starts, stores, job, pending, begun, faults,
                   redeemed, history>>

\* The process dies at any time; only the token files stay.
Crash ==
    /\ phase # "down" /\ phase' = "down"
    /\ account' = [i \in Ids |-> "absent"]
    /\ tok' = [h \in Holders |-> NoToken]
    /\ same' = [h \in Holders |-> {h}]
    /\ job' = [w \in Workers |-> Idle]
    /\ pending' = [f \in Flows |-> Never]
    /\ latest' = [i \in Ids |-> IF latest[i].saved THEN latest[i] ELSE Nobody]
    /\ stale' = {}
    /\ UNCHANGED <<now, shared, config, starts, disk, begun, faults, redeemed, login, raced>>

-----------------------------------------------------------------------------
(* Signing in.                                                             *)

\* The store's Put, under the random state of the sign-in.
Remember(f) == pending' = [pending EXCEPT ![f] = now]

\* /m365/oauth/start: a fresh state and verifier, put before the redirect.
OAuthStart ==
    /\ phase = "serving"
    /\ begun < MaxFlows /\ begun' = begun + 1
    /\ Remember(begun')
    /\ redeemed' = [redeemed EXCEPT ![begun'] = [times |-> 0, put |-> now, start |-> starts]]
    /\ UNCHANGED <<now, shared, process, stores, job, faults, history>>

\* Mutants of Forget: the entry survives its Pop.
Keep(f) == UNCHANGED pending

\* Pop deletes the entry, expired or not.
Forget(f) == pending' = [pending EXCEPT ![f] = Never]

expired(f) == now - pending[f] > TTL

\* ApplyAuthorizationCodeToAuth looks the account up and exchanges the code.
Exchange(w, f) ==
    /\ job' = [job EXCEPT ![w] = [pc |-> "reply", kind |-> "login", id |-> config,
                                  flow |-> f, access |-> issued(f), at |-> 0]]
    /\ Clone(w, config)

\* /m365/oauth/callback: the browser calls it any number of times; one call
\* wins Pop.
OAuthCallback(w, f) ==
    /\ phase = "serving" /\ job[w] = Idle
    /\ pending[f] # Never
    /\ ~expired(f)
    /\ Forget(f)
    /\ redeemed' = [redeemed EXCEPT ![f] = [times |-> @.times + 1, put |-> 0, start |-> 0]]
    /\ Exchange(w, f)
    /\ UNCHANGED <<now, shared, process, account, disk, begun, faults, history>>

\* A callback after the TTL is refused, and its entry is gone.
OAuthCallbackLate(f) ==
    /\ phase = "serving"
    /\ pending[f] # Never
    /\ expired(f)
    /\ Forget(f)
    /\ UNCHANGED <<now, shared, process, stores, job, begun, faults, redeemed, history>>

\* Mutant of Update: only the file is written.
UpdateFileOnly(i, w) == UNCHANGED <<tok, same>>

\* core.Update replaces the account in memory by a clone ...
Update(i, w) == Clone(i, w)

Install(w) ==
    /\ Doing(w, {"install"})
    /\ Update(job[w].id, w)
    /\ Goto(w, "save")
    /\ IF latest[job[w].id].flow = job[w].flow THEN Overtakes(w)
       ELSE Loses(job[w].id)
    /\ UNCHANGED <<now, shared, process, account, disk, pending, begun, faults, redeemed,
                   login, raced>>

\* ... and saves it: the sign-in is complete.
SaveLogin(w) ==
    /\ Doing(w, {"save"}) /\ job[w].kind = "login"
    /\ LET i == job[w].id IN
       \/ /\ Saved(i, [status |-> "on", tok |-> tok[w]])
          /\ login' = IF tok[w].refresh # 0 THEN login \cup {i} ELSE login
          /\ IF latest[i].flow = job[w].flow
             THEN latest' = [latest EXCEPT ![i].saved = TRUE] /\ stale' = stale \ {w}
             ELSE Loses(i)
       \/ /\ NotSaved
          /\ Loses(i)
          /\ UNCHANGED login
    /\ Meets(w, {"expiry"})
    /\ End(w)
    /\ UNCHANGED <<now, shared, process, account, pending, begun, redeemed>>

-----------------------------------------------------------------------------
(* A request and its access token.                                         *)

\* The SDK hands the request a clone of an account that is on.
Pick(w, k, i) ==
    /\ phase = "serving" /\ job[w] = Idle
    /\ account[i] = "on"
    /\ job' = [job EXCEPT ![w] = [pc |-> "read", kind |-> k, id |-> i, flow |-> 0,
                                  access |-> NoAccess, at |-> 0]]
    /\ Clone(w, i)
    /\ UNCHANGED <<now, shared, process, account, disk, pending, begun, faults, redeemed,
                   history>>

\* parseAuthInfo reads the two tokens first, the scope and the expiry last.
Read(w) ==
    /\ Doing(w, {"read"})
    /\ job' = [job EXCEPT ![w] = [@ EXCEPT !.pc = "decide", !.access = tok[w].access,
                                           !.flow = tok[w].refresh]]
    /\ Meets(w, {"expiry"})
    /\ UNCHANGED <<now, shared, process, stores, pending, begun, faults, redeemed,
                   login, latest, stale>>

\* Mutant of Usable: a token is used up to its last second.
UsableToTheEnd(w) ==
    /\ job[w].access # NoAccess
    /\ tok[w].exp = 0 \/ now < tok[w].exp
    /\ job[w].kind = "image" => tok[w].files

\* The cached token will do; one without an expiry always does.
Usable(w) ==
    /\ job[w].access # NoAccess
    /\ tok[w].exp = 0 \/ now < tok[w].exp - Margin
    /\ job[w].kind = "image" => tok[w].files

ServeCached(w) ==
    /\ Doing(w, {"decide"})
    /\ Usable(w)
    /\ End(w)
    /\ stale' = stale \ {w}
    /\ UNCHANGED <<now, shared, process, account, disk, pending, begun, faults, redeemed,
                   login, latest, raced>>

\* refreshWithRefreshToken: the identity service issues an access token; its
\* reply is on the way.
Refresh(w) ==
    /\ Doing(w, {"decide"})
    /\ ~Usable(w)
    /\ job[w].flow # 0
    /\ job' = [job EXCEPT ![w] = [@ EXCEPT !.pc = "reply", !.access = issued(job[w].flow)]]
    /\ UNCHANGED <<now, shared, process, stores, pending, begun, faults, redeemed, history>>

\* No refresh token; the service refuses; the request is cancelled or the
\* reply lost; an image request whose new token lacks the scope: that token
\* is thrown away.
Leave(w) ==
    /\ \/ Doing(w, {"decide"}) /\ ~Usable(w) /\ job[w].flow = 0
       \/ Doing(w, {"reply"})
    /\ End(w)
    /\ stale' = stale \ {w}
    /\ UNCHANGED <<now, shared, process, account, disk, pending, begun, faults, redeemed,
                   login, latest, raced>>

\* Mutant of KeptRefresh: a reply without a refresh token blanks the old one.
BlankRefresh(w) == 0

\* A reply that brings no refresh token leaves the one in the map.
KeptRefresh(w) == tok[w].refresh

\* A refresh may rotate the token; a sign-in brings one if offline_access was
\* asked for.
Granted(w) ==
    CASE job[w].kind # "login" -> {job[w].flow, KeptRefresh(w)}
      [] job[w].kind = "login" /\ starts \in OfflineStarts -> {job[w].flow}
      [] job[w].kind = "login" /\ starts \notin OfflineStarts -> {KeptRefresh(w)}

\* Mutant of expiresAt: the lifetime is added twice.
expiresAtTwice == now + 2 * Lifetime

\* Computed when the reply arrives, from its expires_in.
expiresAt == now + Lifetime

\* The token of a reply.
arrived(w) ==
    LET a == job[w].access IN [a EXCEPT !.late = now > a.until - Lifetime + Margin]

\* persistTokenMetadata, first half.
PersistTokens(w) ==
    /\ Doing(w, {"reply"})
    /\ job[w].kind = "image" => job[w].access.files
    /\ \E r \in Granted(w) : Put(w, [tok[w] EXCEPT !.access = arrived(w), !.refresh = r])
    /\ job' = [job EXCEPT ![w] = [@ EXCEPT !.pc = "expiry", !.access = arrived(w),
                                           !.at = expiresAt]]
    /\ IF job[w].kind = "login" /\ starts \in OfflineStarts THEN Overtakes(w) ELSE WritesBack(w)
    /\ Meets(w, {"decide", "expiry"})
    /\ UNCHANGED <<now, shared, process, account, disk, same, pending, begun, faults, redeemed,
                   login>>

\* Second half: every reply names its scope.
PersistExpiry(w) ==
    /\ Doing(w, {"expiry"})
    /\ Put(w, [tok[w] EXCEPT !.files = job[w].access.files, !.exp = job[w].at])
    /\ job' = [job EXCEPT ![w] = [@ EXCEPT !.at = 0,
                    !.pc = IF job[w].kind = "login" THEN "install" ELSE "save"]]
    /\ Meets(w, {"decide", "expiry"})
    /\ UNCHANGED <<now, shared, process, account, disk, same, pending, begun, faults, redeemed,
                   login, latest, stale>>

\* persistAuthBestEffort saves the request's clone; the token is handed out.
Save(w) ==
    /\ Doing(w, {"save"}) /\ job[w].kind # "login"
    /\ \/ Saved(job[w].id, [status |-> "on", tok |-> tok[w]])
       \/ NotSaved
    /\ End(w)
    /\ IF w \in stale THEN Loses(job[w].id) ELSE UNCHANGED <<latest, stale>>
    /\ Meets(w, {"expiry"})
    /\ UNCHANGED <<now, shared, process, account, pending, begun, redeemed, login>>

\* Time passes wherever a goroutine stands: the token calls have no deadline.
Tick ==
    /\ phase = "serving" /\ now < MaxTime
    /\ now' = now + 1
    /\ UNCHANGED <<shared, process, stores, job, pending, begun, faults, redeemed, history>>

Boot == Load \/ LoadFails \/ EnsureStaticAuth \/ (\E i \in Ids : DisableOther(i)) \/ Serve

SignIn(w) ==
    \/ \E f \in Flows : OAuthCallback(w, f)
    \/ Install(w) \/ SaveLogin(w)

Request(w) ==
    \/ \E k \in {"text", "image"}, i \in Ids : Pick(w, k, i)
    \/ Read(w) \/ ServeCached(w) \/ Refresh(w) \/ Leave(w)
    \/ PersistTokens(w) \/ PersistExpiry(w) \/ Save(w)

Next ==
    \/ Boot \/ Crash \/ Tick
    \/ OAuthStart \/ \E f \in Flows : OAuthCallbackLate(f)
    \/ \E w \in Workers : SignIn(w) \/ Request(w)

Spec == Init /\ [][Next]_vars

-----------------------------------------------------------------------------
\* An account that was signed in with a refresh token keeps one, in its file
\* for ever and in memory as long as the process knows it: through sign-ins and
\* refreshes that bring none, racing requests and sign-ins, failed saves,
\* changes of the configuration and restarts (static_auth.go:39, token.go:131).
LoginKept ==
    \A i \in login : /\ disk[i].tok.refresh # 0
                     /\ account[i] # "absent" => tok[i].refresh # 0

\* A sign-in that is complete stays the account's login, in memory, in the
\* file and after a restart, until another sign-in or a request that took the
\* account before it was complete writes its own tokens back.
SignInSticks ==
    \A i \in Ids : latest[i].saved =>
        /\ disk[i].tok.refresh = latest[i].flow
        /\ account[i] # "absent" => tok[i].refresh = latest[i].flow

\* Only the configured account serves, whichever other accounts the files
\* remember and wherever an earlier bootstrap died.
ConfiguredAccountServes ==
    \A w \in Workers : job[w] # Idle => job[w].id = config

\* A cached token that is handed out has not expired, unless the reply that
\* brought it took longer than the margin: its expiry is counted from the
\* reply, and nothing limits how long that takes (token.go:97, 105, 239).  A
\* token that is handed out to upload images has the file scope.  Both unless
\* accesses to a shared token map overlapped.
ServedTokenValid ==
    \A w \in Workers : ~raced =>
        /\ Doing(w, {"decide"}) /\ Usable(w) /\ ~job[w].access.late => now < job[w].access.until
        /\ (Doing(w, {"decide"}) /\ Usable(w)) \/ Doing(w, {"save"}) =>
              (job[w].kind = "image" => job[w].access.files)

\* A sign-in is honoured at most once however often its callback arrives,
\* within its TTL, and only by the process that began it.
OneRedemption ==
    [][\A f \in Flows : redeemed'[f].times # redeemed[f].times =>
          /\ redeemed[f].times = 0
          /\ now - redeemed[f].put =< TTL
          /\ redeemed[f].start = starts]_vars
=============================================================================
