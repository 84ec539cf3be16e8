-------------------------- MODULE OAuthCredentials --------------------------
(***************************************************************************)
(* The OAuth credential of one Codex channel: its row in the store, the    *)
(* parsed credential in memory, the refreshes that share a single flight   *)
(* per access token, the requests that use, refresh and reject it, the     *)
(* quota samples that are swapped into the same row, and a login that      *)
(* replaces it.  The provider hands out a refresh token for one use and    *)
(* forgets it: whoever loses its successor has lost the account.           *)
(* codex_credentials.go, proxy_forward.go, admin_codex_auth.go,            *)
(* storage/sql/config.go.                                                  *)
(*                                                                         *)
(* Scope: refreshes and logins of one account and plan, for another one    *)
(* (ObserveQuotaIdentity) starts the quota epoch anew and drops the quota  *)
(* samples on purpose.  A personal access token, which is never refreshed  *)
(* and whose 401 disables the channel without a refused grant, has none of *)
(* this and is left out.                                                   *)
(***************************************************************************)
EXTENDS Naturals

CONSTANTS
  Requests,    \* goroutines that ask for the credential
  None,        \* no credential, no token
  MaxTokens,   \* tokens the provider issues
  MaxEvents    \* manual refreshes, clients that leave, new logins, quota samples,
               \* lost answers, failing statements, withdrawn grants and crashes,
               \* together

ASSUME BoundAssumption == MaxTokens \in Nat \ {0} /\ MaxEvents \in Nat

VARIABLES
  row,         \* the channel's row: credential and enabled
  entry,       \* entries[id]
  backoff,     \* refreshBackoff[id]
  flight,      \* refreshes: the single flight of every access token
  req,         \* the requests
  usage,       \* updatePassiveUsage
  admin,       \* the login session of an administrator
  issued,      \* number of tokens issued
  clock,       \* up to which number access tokens are due, and expired
  dead,        \* refresh tokens the provider takes no more
  lost,        \* those among them whose successor never reached the store
  events

vars == <<row, entry, backoff, flight, req, usage, admin, issued, clock, dead, lost, events>>
memory == <<entry, backoff>>
world == <<issued, dead, lost, clock>>

Tokens == 1..MaxTokens

\* The persisted payload; its tokens have the number of their issue.
Credential == [login : Nat, at : Tokens, rt : Tokens, usage : Nat]
MaybeCredential == Credential \cup {None}

ASSUME NoneAssumption == None \notin Credential

SameTokens(c, d) == c.at = d.at /\ c.rt = d.rt

NoBackoff == [kind |-> "none", token |-> 0]
Early(at) == [kind |-> "early", token |-> at]
Refused(rt) == [kind |-> "refused", token |-> rt]

Errors == {"none", "other", "terminal"}

\* Before it reloads the row a flight knows its key and the refresh token of
\* the caller that began it; cfg is the row it works on, new what was issued.
Flight == [stage : {"none", "begin", "loaded", "failed", "yield", "persist", "reread", "publish"},
           rt : Nat, cfg : MaybeCredential, new : Nat, rotated : BOOLEAN, err : Errors]
NoFlight == [stage |-> "none", rt |-> 0, cfg |-> None, new |-> 0, rotated |-> FALSE, err |-> "none"]

\* cfg is the row the request came with, mine the credential it uses, rejected
\* the access token that was answered with 401, blob the row whose grant was
\* refused, tries the retries of the statement that disables it.
Request == [stage : {"idle", "lookup", "join", "waiting", "redirected", "failed", "send",
                     "disable", "recheck"},
            kind : {"proxy", "manual"}, cfg : MaybeCredential, mine : MaybeCredential,
            force : BOOLEAN, rejected : Nat, err : Errors, blob : MaybeCredential, tries : Nat]
NoRequest == [stage |-> "idle", kind |-> "proxy", cfg |-> None, mine |-> None, force |-> FALSE,
              rejected |-> 0, err |-> "none", blob |-> None, tries |-> 0]

\* Something out of the ordinary happens, or does not.
Event == events < MaxEvents /\ events' = events + 1
NoEvent == UNCHANGED events

-----------------------------------------------------------------------------
(* Requests: tryOAuthChannel and, of kind "manual", the refresh that an     *)
(* administrator asks for                                                   *)

Becomes(r, q) == req' = [req EXCEPT ![r] = q]

\* A request comes with the channel as it read it, which may be long ago.
Start(r, kind) ==
  /\ req[r].stage = "idle"
  /\ IF kind = "proxy" THEN row.enabled /\ NoEvent ELSE Event
  /\ Becomes(r, [NoRequest EXCEPT !.stage = "lookup", !.kind = kind, !.cfg = row.cred,
                                  !.force = (kind = "manual")])
  /\ UNCHANGED <<row, memory, flight, usage, admin, world>>

CachedOrParse(r) == IF entry # None THEN entry ELSE req[r].cfg

\* The caller has a credential: a request sends with it, a manual refresh ends.
Given(q) == IF q.kind = "manual" THEN NoRequest ELSE [q EXCEPT !.stage = "send"]

\* Access tokens expire in the order of their issue; each is due before that,
\* and after its predecessor has expired.
Expired(at) == at <= clock.expired
NeedsRefresh(c) == c.at <= clock.due

BackingOff(c) == ~Expired(c.at) /\ backoff = Early(c.at)

Lookup(r) ==
  LET c == CachedOrParse(r)
      q == [req[r] EXCEPT !.mine = c, !.err = "none", !.blob = None]
  IN /\ req[r].stage = "lookup"
     /\ entry' = c
     /\ Becomes(r, IF ~q.force /\ (~NeedsRefresh(c) \/ BackingOff(c)) THEN Given(q)
                   ELSE [q EXCEPT !.stage = "join"])
     /\ UNCHANGED <<row, backoff, flight, usage, admin, world, events>>

\* The access token that names the flight.
Key(r) == IF req[r].rejected # 0 THEN req[r].rejected ELSE req[r].mine.at

\* DoChan: the first caller starts the flight, with its own refresh token.
Join(r) ==
  /\ req[r].stage = "join"
  /\ Becomes(r, [req[r] EXCEPT !.stage = "waiting"])
  /\ flight' = IF flight[Key(r)].stage # "none" THEN flight
               ELSE [flight EXCEPT ![Key(r)] = [NoFlight EXCEPT !.stage = "begin", !.rt = req[r].mine.rt]]
  /\ UNCHANGED <<row, memory, usage, admin, world, events>>

\* The client leaves; the flight goes on without it.
Leave(r) ==
  /\ req[r].stage = "waiting"
  /\ Event
  /\ Becomes(r, NoRequest)
  /\ UNCHANGED <<row, memory, flight, usage, admin, world>>

\* Another credential has taken the place of the one to be refreshed.
Redirected(r) ==
  LET c == CachedOrParse(r)
      q == [req[r] EXCEPT !.mine = c]
  IN /\ req[r].stage = "redirected"
     /\ entry' = c
     /\ Becomes(r, IF q.rejected # 0 THEN Given(q) ELSE [q EXCEPT !.stage = "lookup", !.force = FALSE])
     /\ UNCHANGED <<row, backoff, flight, usage, admin, world, events>>

\* Without a usable token: a refused grant disables the channel; any other
\* failure cools it down, which is left to Failover.
GiveUpChannel(q) ==
  IF q.err = "terminal" THEN [NoRequest EXCEPT !.stage = "disable", !.blob = q.blob] ELSE NoRequest

\* The refresh failed.  A token that is still valid is good enough, unless it
\* is the one that was rejected.
RefreshFailed(r) ==
  LET q == req[r]
      expired == q.err = "terminal" /\ Expired(q.mine.at)
  IN /\ q.stage = "failed"
     /\ Becomes(r, IF q.err = "terminal" /\ ~expired /\ ~q.force THEN Given([q EXCEPT !.err = "none"])
                   ELSE IF q.kind = "manual" THEN NoRequest
                   ELSE IF expired \/ q.mine.at = q.rejected THEN GiveUpChannel(q)
                   ELSE Given(q))
     /\ UNCHANGED <<row, memory, flight, usage, admin, world, events>>

\* The upstream takes the token, or the request fails for another reason.
Served(r) ==
  /\ req[r].stage = "send"
  /\ Becomes(r, NoRequest)
  /\ UNCHANGED <<row, memory, flight, usage, admin, world, events>>

\* The upstream answers 401: one refresh, then the channel is given up.
Unauthorized(r) ==
  LET q == req[r]
  IN /\ q.stage = "send"
     /\ Becomes(r, IF q.err # "none" \/ q.rejected # 0 THEN GiveUpChannel(q)
                   ELSE [q EXCEPT !.stage = "lookup", !.force = TRUE, !.rejected = q.mine.at])
     /\ UNCHANGED <<row, memory, flight, usage, admin, world, events>>

\* DisableOAuthChannelIfCredentialMatches compares the whole payload.
DisableMatches(r) ==
  /\ req[r].stage = "disable"
  /\ row.enabled /\ row.cred = req[r].blob
  /\ row' = [row EXCEPT !.enabled = FALSE]
  /\ Becomes(r, NoRequest)
  /\ UNCHANGED <<memory, flight, usage, admin, world, events>>

DisableMisses(r) ==
  LET q == req[r]
  IN /\ q.stage = "disable"
     /\ ~(row.enabled /\ row.cred = q.blob)
     /\ Becomes(r, IF q.tries = 2 THEN NoRequest ELSE [q EXCEPT !.stage = "recheck"])
     /\ UNCHANGED <<row, memory, flight, usage, admin, world, events>>

DisableFails(r) ==
  /\ req[r].stage = "disable"
  /\ Event
  /\ Becomes(r, NoRequest)
  /\ UNCHANGED <<row, memory, flight, usage, admin, world>>

\* Mutant of Recheck: whatever is stored now is taken for the rejected one.
Recheck_AnyToken(r) ==
  LET q == req[r]
  IN /\ q.stage = "recheck"
     /\ Becomes(r, [q EXCEPT !.stage = "disable", !.blob = row.cred, !.tries = @ + 1])
     /\ UNCHANGED <<row, memory, flight, usage, admin, world, events>>

\* Only metadata may have changed: with other tokens the channel is left alone.
Recheck(r) ==
  LET q == req[r]
  IN /\ q.stage = "recheck"
     /\ Becomes(r, IF ~row.enabled \/ row.cred = q.blob \/ ~SameTokens(row.cred, q.blob)
                   THEN NoRequest
                   ELSE [q EXCEPT !.stage = "disable", !.blob = row.cred, !.tries = @ + 1])
     /\ UNCHANGED <<row, memory, flight, usage, admin, world, events>>

-----------------------------------------------------------------------------
(* The flight of access token a, in a goroutine of its own                  *)

Flies(a, stage) == flight[a].stage = stage
Goes(a, f) == flight' = [flight EXCEPT ![a] = f]

Waiters(a) == {r \in Requests : req[r].stage = "waiting" /\ Key(r) = a}

\* The result goes to everybody who waits for this key.
Ends(a, answers) ==
  /\ Goes(a, NoFlight)
  /\ req' = [r \in Requests |-> IF r \in Waiters(a) THEN answers[r] ELSE req[r]]

EndsWith(a, c) == Ends(a, [r \in Requests |-> Given([req[r] EXCEPT !.mine = c])])
EndsFailed(a, err, blob) ==
  Ends(a, [r \in Requests |-> [req[r] EXCEPT !.stage = "failed", !.err = err, !.blob = blob]])
EndsRedirected(a) == Ends(a, [r \in Requests |-> [req[r] EXCEPT !.stage = "redirected"]])

\* The grant that was used up, if what it was used up for is thrown away.
Wasted(a) == IF flight[a].rotated THEN {flight[a].rt} ELSE {}

Reload(a) ==
  /\ Flies(a, "begin")
  /\ \/ Goes(a, [flight[a] EXCEPT !.stage = "loaded", !.cfg = row.cred]) /\ NoEvent /\ UNCHANGED req
     \/ EndsFailed(a, "other", None) /\ Event
  /\ UNCHANGED <<row, memory, usage, admin, world>>

\* The row still has the tokens this flight is about.
Unchanged(a, c) == c.at = a /\ c.rt = flight[a].rt

\* Mutant of Redirect: the credential found is not cached.
Redirect_NotCached(a) ==
  /\ Flies(a, "loaded")
  /\ ~Unchanged(a, flight[a].cfg)
  /\ EndsRedirected(a)
  /\ UNCHANGED <<row, memory, usage, admin, world, events>>

Redirect(a) ==
  /\ Flies(a, "loaded")
  /\ ~Unchanged(a, flight[a].cfg)
  /\ entry' = flight[a].cfg
  /\ EndsRedirected(a)
  /\ UNCHANGED <<row, backoff, usage, admin, world, events>>

Asks(a) == Flies(a, "loaded") /\ Unchanged(a, flight[a].cfg) /\ backoff # Refused(flight[a].rt)

\* rejectedRefreshError: a refused grant is not presented again.
RememberRefusal(a) ==
  /\ Flies(a, "loaded")
  /\ Unchanged(a, flight[a].cfg)
  /\ backoff = Refused(flight[a].rt)
  /\ EndsFailed(a, "terminal", flight[a].cfg)
  /\ UNCHANGED <<row, memory, usage, admin, world, events>>

\* The provider issues a token, and a new grant in place of the old one or not.
Issue(rotates, rt) ==
  /\ issued < MaxTokens
  /\ issued' = issued + 1
  /\ UNCHANGED clock
  /\ dead' = IF rotates THEN dead \cup {rt} ELSE dead

Refresh(a, rotates) ==
  LET f == flight[a]
  IN /\ Asks(a)
     /\ f.rt \notin dead
     /\ Issue(rotates, f.rt)
     /\ \/ /\ Goes(a, [f EXCEPT !.stage = "persist", !.new = issued + 1, !.rotated = rotates])
           /\ UNCHANGED lost /\ NoEvent
        \/ /\ Goes(a, [f EXCEPT !.stage = "failed", !.err = "other"])
           /\ lost' = IF rotates THEN lost \cup {f.rt} ELSE lost
           /\ Event
     /\ UNCHANGED <<row, memory, req, usage, admin>>

\* The provider refuses the grant, or is out of order.
RefreshRefused(a) ==
  /\ Asks(a)
  /\ \E err \in {"terminal", "other"} :
       /\ err = "terminal" => flight[a].rt \in dead
       /\ Goes(a, [flight[a] EXCEPT !.stage = "failed", !.err = err])
  /\ UNCHANGED <<row, memory, req, usage, admin, world, events>>

\* After a failure: somebody else has replaced the credential.
FindWinner(a) ==
  /\ Flies(a, "failed")
  /\ ~SameTokens(row.cred, flight[a].cfg)
  /\ Goes(a, [flight[a] EXCEPT !.stage = "yield", !.cfg = row.cred])
  /\ UNCHANGED <<row, memory, req, usage, admin, world, events>>

\* Nobody has, or the row cannot be read.
ReportFailure(a) ==
  LET f == flight[a]
  IN /\ Flies(a, "failed")
     /\ IF SameTokens(row.cred, f.cfg) THEN NoEvent ELSE Event
     /\ backoff' = IF f.err = "terminal" THEN Refused(f.cfg.rt) ELSE Early(f.cfg.at)
     /\ EndsFailed(a, f.err, f.cfg)
     /\ UNCHANGED <<row, entry, usage, admin, world>>

\* The credential of somebody else is cached and handed out.
Yield(a) ==
  /\ Flies(a, "yield")
  /\ entry' = flight[a].cfg
  /\ EndsWith(a, flight[a].cfg)
  /\ UNCHANGED <<row, backoff, usage, admin, world, events>>

\* Mutant of Merged: the refreshed credential knows nothing of the usage.
Merged_NoUsage(f) ==
  [f.cfg EXCEPT !.at = f.new, !.rt = IF f.rotated THEN f.new ELSE @, !.usage = 0]

\* MergeRefresh: the tokens of the answer, everything else of the row (the
\* account and the plan are those of the row).
Merged(f) == [f.cfg EXCEPT !.at = f.new, !.rt = IF f.rotated THEN f.new ELSE @]

\* persistRefreshResult: compare and swap.
Persist(a) ==
  LET f == flight[a]
  IN /\ Flies(a, "persist")
     /\ row.cred = f.cfg
     /\ row' = [row EXCEPT !.cred = Merged(f)]
     /\ Goes(a, [f EXCEPT !.stage = "publish", !.cfg = Merged(f)])
     /\ UNCHANGED <<memory, req, usage, admin, world, events>>

\* Mutant of PersistMisses: a swap that misses is given up.
PersistMisses_GivesUp(a) ==
  /\ Flies(a, "persist")
  /\ row.cred # flight[a].cfg
  /\ EndsFailed(a, "other", None)
  /\ UNCHANGED <<row, memory, usage, admin, world, events>>

\* The row has changed: it is read again.
PersistMisses(a) ==
  /\ Flies(a, "persist")
  /\ row.cred # flight[a].cfg
  /\ Goes(a, [flight[a] EXCEPT !.stage = "reread"])
  /\ UNCHANGED <<row, memory, req, usage, admin, world, events>>

\* The store fails: before the commit, after it, or when it is read again.
PersistFails(a) ==
  LET f == flight[a]
  IN /\ f.stage \in {"persist", "reread"}
     /\ Event
     /\ EndsFailed(a, "other", None)
     /\ \/ row' = row /\ lost' = lost \cup Wasted(a)
        \/ /\ Flies(a, "persist") /\ row.cred = f.cfg
           /\ row' = [row EXCEPT !.cred = Merged(f)] /\ UNCHANGED lost
     /\ UNCHANGED <<memory, usage, admin, issued, dead, clock>>

Reread(a) ==
  /\ Flies(a, "reread")
  /\ Goes(a, [flight[a] EXCEPT !.cfg = row.cred,
                               !.stage = IF Unchanged(a, row.cred) THEN "persist" ELSE "yield"])
  /\ UNCHANGED <<row, memory, req, usage, admin, world, events>>

\* The new credential is cached; one that is due at once is not refreshed on
\* every request.
Publish(a) ==
  LET c == flight[a].cfg
  IN /\ Flies(a, "publish")
     /\ entry' = c
     /\ backoff' = IF NeedsRefresh(c) THEN Early(c.at) ELSE backoff
     /\ EndsWith(a, c)
     /\ UNCHANGED <<row, usage, admin, world, events>>

-----------------------------------------------------------------------------
(* updatePassiveUsage: read, merge, swap, drop the entry                    *)

ReadUsage ==
  /\ usage.stage = "idle"
  /\ Event
  /\ usage' = [stage |-> "swap", cfg |-> row.cred]
  /\ UNCHANGED <<row, memory, flight, req, admin, world>>

\* A swap that misses is tried again with the row as it is read then, or given
\* up because the sample is not about the account of that row.
SwapUsage ==
  /\ usage.stage = "swap"
  /\ IF row.cred = usage.cfg
     THEN /\ row' = [row EXCEPT !.cred.usage = @ + 1]
          /\ usage' = [stage |-> "drop", cfg |-> None]
     ELSE row' = row /\ usage' \in {[usage EXCEPT !.cfg = row.cred], [stage |-> "idle", cfg |-> None]}
  /\ UNCHANGED <<memory, flight, req, admin, world, events>>

\* invalidateCredentialCache
DropEntry ==
  /\ usage.stage = "drop"
  /\ entry' = None
  /\ usage' = [stage |-> "idle", cfg |-> None]
  /\ UNCHANGED <<row, backoff, flight, req, admin, world, events>>

-----------------------------------------------------------------------------
(* A new login of the account: updateExistingCodexChannel,                  *)
(* reactivateReauthorizedChannel, invalidate                                *)

AdminIdle == [stage |-> "idle", cfg |-> None, new |-> None]
AdminAt(stage) == admin.stage = stage
AdminGoes(stage) == admin' = [admin EXCEPT !.stage = stage]

Login ==
  /\ AdminAt("idle")
  /\ Event
  /\ Issue(FALSE, 0)
  /\ admin' = [stage |-> "read", cfg |-> None,
               new |-> [login |-> row.cred.login + 1, at |-> issued + 1, rt |-> issued + 1, usage |-> 0]]
  /\ UNCHANGED <<row, memory, flight, req, usage, lost>>

ReadForLogin ==
  /\ AdminAt("read")
  /\ admin' = [admin EXCEPT !.stage = "swap", !.cfg = row.cred]
  /\ UNCHANGED <<row, memory, flight, req, usage, world, events>>

\* The new login, to the same account and plan, inherits the quota state of the
\* row.
SwapLogin ==
  /\ AdminAt("swap")
  /\ IF row.cred = admin.cfg
     THEN /\ row' = [row EXCEPT !.cred = [admin.new EXCEPT !.usage = row.cred.usage]]
          /\ AdminGoes("enable")
     ELSE row' = row /\ AdminGoes("read")
  /\ UNCHANGED <<memory, flight, req, usage, world, events>>

Enable ==
  /\ AdminAt("enable")
  /\ row' = [row EXCEPT !.enabled = TRUE]
  /\ AdminGoes("forget")
  /\ UNCHANGED <<memory, flight, req, usage, world, events>>

Forget ==
  /\ AdminAt("forget")
  /\ entry' = None
  /\ backoff' = NoBackoff
  /\ admin' = AdminIdle
  /\ UNCHANGED <<row, flight, req, usage, world, events>>

\* The store fails at any step of the login: the rest is not done.
LoginFails ==
  /\ admin.stage \in {"read", "swap", "enable"}
  /\ Event
  /\ admin' = AdminIdle
  /\ UNCHANGED <<row, memory, flight, req, usage, world>>

-----------------------------------------------------------------------------
(* The clock, the provider, and the end of the process                      *)

Tick ==
  /\ \/ clock.expired < clock.due /\ clock' = [clock EXCEPT !.expired = clock.due]
     \/ clock.expired = clock.due /\ clock.due < issued /\ clock' = [clock EXCEPT !.due = @ + 1]
  /\ UNCHANGED <<row, memory, flight, req, usage, admin, issued, dead, lost, events>>

BackoffEnds ==
  /\ backoff.kind = "early"
  /\ backoff' = NoBackoff
  /\ UNCHANGED <<row, entry, flight, req, usage, admin, world, events>>

\* The owner of the account withdraws the grant that is stored.
Revoke ==
  /\ row.cred.rt \notin dead
  /\ Event
  /\ dead' = dead \cup {row.cred.rt}
  /\ lost' = lost \cup {row.cred.rt}
  /\ UNCHANGED <<row, memory, flight, req, usage, admin, issued, clock>>

\* What was issued and not stored is gone with the process.
Crash ==
  /\ Event
  /\ lost' = lost \cup UNION {Wasted(a) : a \in {b \in Tokens : flight[b].stage \in {"persist", "reread"}}}
  /\ entry' = None
  /\ backoff' = NoBackoff
  /\ flight' = [a \in Tokens |-> NoFlight]
  /\ req' = [r \in Requests |-> NoRequest]
  /\ usage' = [stage |-> "idle", cfg |-> None]
  /\ admin' = AdminIdle
  /\ UNCHANGED <<row, issued, dead, clock>>

-----------------------------------------------------------------------------
(* Specification *)

\* The types of the variables.
TypeOK ==
  /\ row \in [cred : Credential, enabled : BOOLEAN]
  /\ entry \in MaybeCredential
  /\ backoff \in [kind : {"none", "early", "refused"}, token : Nat]
  /\ flight \in [Tokens -> Flight]
  /\ req \in [Requests -> Request]
  /\ usage \in [stage : {"idle", "swap", "drop"}, cfg : MaybeCredential]
  /\ admin \in [stage : {"idle", "read", "swap", "enable", "forget"},
                cfg : MaybeCredential, new : MaybeCredential]
  /\ issued \in Tokens
  /\ clock \in [due : Nat, expired : Nat]
  /\ dead \subseteq Nat /\ lost \subseteq Nat
  /\ events \in Nat

\* A server that starts with a channel that has been authorized.
Init ==
  /\ row = [cred |-> [login |-> 1, at |-> 1, rt |-> 1, usage |-> 0], enabled |-> TRUE]
  /\ entry = None
  /\ backoff = NoBackoff
  /\ flight = [a \in Tokens |-> NoFlight]
  /\ req = [r \in Requests |-> NoRequest]
  /\ usage = [stage |-> "idle", cfg |-> None]
  /\ admin = AdminIdle
  /\ issued = 1
  /\ clock = [due |-> 0, expired |-> 0]
  /\ dead = {}
  /\ lost = {}
  /\ events = 0

RequestStep(r) ==
  \/ Lookup(r) \/ Join(r) \/ Redirected(r) \/ RefreshFailed(r)
  \/ Served(r) \/ Unauthorized(r)
  \/ DisableMatches(r) \/ DisableMisses(r) \/ Recheck(r)

FlightStep(a) ==
  \/ Reload(a) \/ Redirect(a) \/ RememberRefusal(a)
  \/ \E rotates \in BOOLEAN : Refresh(a, rotates)
  \/ RefreshRefused(a) \/ FindWinner(a) \/ ReportFailure(a) \/ Yield(a)
  \/ Persist(a) \/ PersistMisses(a) \/ Reread(a) \/ Publish(a)

AdminStep ==
  \/ Login \/ ReadForLogin \/ SwapLogin \/ Enable \/ Forget \/ LoginFails

Next ==
  \/ \E r \in Requests :
       \/ \E kind \in {"proxy", "manual"} : Start(r, kind)
       \/ RequestStep(r)
       \/ Leave(r)
       \/ DisableFails(r)
  \/ \E a \in Tokens : FlightStep(a) \/ PersistFails(a)
  \/ ReadUsage \/ SwapUsage \/ DropEntry
  \/ AdminStep
  \/ Tick \/ BackoffEnds
  \/ Revoke \/ Crash

Spec == Init /\ [][Next]_vars

-----------------------------------------------------------------------------
(* Properties *)

\* The account is not locked out: a grant the row holds is used up only while
\* the flight that used it still has its successor to store, unless the
\* successor was lost to a fault.  No second flight presents the same grant,
\* and a swap that meets a quota sample does not throw the successor away.
GrantNotLost ==
  row.cred.rt \in dead \ lost =>
    \E a \in Tokens : flight[a].rt = row.cred.rt /\ flight[a].stage \in {"persist", "reread"}

\* No write of the row undoes another: a stale refresh does not bring back the
\* tokens of an earlier login or of an earlier refresh, and no quota sample
\* goes missing.
NothingUndone ==
  [][LET c == row.cred
         d == row'.cred
     IN /\ d.usage >= c.usage
        /\ d.login > c.login \/ (d.login = c.login /\ d.at >= c.at)]_vars

\* A channel is disabled only while it holds a grant the provider has refused:
\* a request that was slow to learn of a refusal does not disable a channel
\* that has been authorized anew.
DisabledOnlyIfDead ==
  [][row.enabled /\ ~row'.enabled => row.cred.rt \in dead]_vars

-----------------------------------------------------------------------------
(* Liveness: goroutines run, and every answer comes or times out.           *)

Fairness ==
  /\ \A r \in Requests : WF_vars(RequestStep(r))
  /\ WF_vars(\E a \in Tokens : FlightStep(a))

LiveSpec == Spec /\ Fairness

\* Nobody is sent round for ever between the cache, the row and the flights.
CallersReturn == \A r \in Requests : (req[r].stage # "idle") ~> (req[r].stage = "idle")
=============================================================================
