----------------------- MODULE OAuthCredentials_proofs -----------------------
(***************************************************************************)
(* Proofs about OAuthCredentials, for any number of requests, tokens and   *)
(* events: the types, and with them what a refusal stands for; no write of *)
(* the row undoes another; only a refused grant disables the channel; no   *)
(* grant is used up without its successor.                                 *)
(***************************************************************************)
EXTENDS OAuthCredentials, TLAPS

-----------------------------------------------------------------------------
(* The invariant of the types.  A refusal is only believed of a dead grant. *)

Says(D, err, cfg) == err = "terminal" => cfg \in Credential /\ cfg.rt \in D

\* What the locals of a request hold at its stage, when the grants in D are dead.
GoodRequest(D, q) ==
  /\ q \in Request
  /\ q.stage \notin {"idle", "disable", "recheck"} => q.cfg \in Credential
  /\ q.stage \in {"join", "waiting", "redirected", "failed", "send"} => q.mine \in Credential
  /\ Says(D, q.err, q.blob)
  /\ q.stage \in {"disable", "recheck"} => Says(D, "terminal", q.blob)

\* What the locals of the flight of a hold at its stage, when n tokens are issued.
GoodFlight(D, n, a, f) ==
  /\ f \in Flight
  /\ f.stage \notin {"none", "begin"} => f.cfg \in Credential
  /\ f.stage = "loaded" => f.cfg.at <= n
  /\ f.stage = "failed" => Says(D, f.err, f.cfg)
  /\ f.stage \in {"persist", "reread"} => a < f.new /\ f.new <= n
  /\ f.stage = "persist" => f.cfg.at = a /\ f.cfg.rt = f.rt

Sound ==
  /\ \A r \in Requests : GoodRequest(dead, req[r])
  /\ \A a \in Tokens : GoodFlight(dead, issued, a, flight[a])
  /\ backoff.kind = "refused" => backoff.token \in dead
  /\ usage.stage = "swap" => usage.cfg \in Credential
  /\ row.cred.at <= issued
  /\ admin.stage \in {"read", "swap"} =>
       admin.new \in Credential /\ admin.new.at <= issued /\ admin.new.login = row.cred.login + 1

TypeInv == TypeOK /\ Sound

-----------------------------------------------------------------------------
(* Records *)

LEMMA TokensAreNumbers == Tokens \subseteq Nat /\ 1 \in Tokens
BY BoundAssumption DEF Tokens

LEMMA NoneIsNoCredential ==
  ASSUME NEW c \in MaybeCredential
  PROVE  c # None <=> c \in Credential
BY NoneAssumption DEF MaybeCredential

LEMMA NobodyIsGood == GoodRequest(dead, NoRequest)
BY DEF GoodRequest, NoRequest, Request, Says, MaybeCredential, Errors

LEMMA NoFlightIsGood == ASSUME NEW a \in Tokens PROVE GoodFlight(dead, issued, a, NoFlight)
BY DEF GoodFlight, NoFlight, Flight, Says, MaybeCredential, Errors

Stages == {"idle", "lookup", "join", "waiting", "redirected", "failed", "send", "disable", "recheck"}

\* One field of a request replaced: the stage.
LEMMA StageField ==
  ASSUME NEW q \in Request, NEW s \in Stages
  PROVE  /\ [q EXCEPT !.stage = s] \in Request
         /\ [q EXCEPT !.stage = s].stage = s
         /\ [q EXCEPT !.stage = s].cfg = q.cfg
         /\ [q EXCEPT !.stage = s].mine = q.mine
         /\ [q EXCEPT !.stage = s].err = q.err
         /\ [q EXCEPT !.stage = s].blob = q.blob
         /\ [q EXCEPT !.stage = s].kind = q.kind
BY DEF Request, Stages

\* The credential it uses.
LEMMA MineField ==
  ASSUME NEW q \in Request, NEW c \in MaybeCredential
  PROVE  /\ [q EXCEPT !.mine = c] \in Request
         /\ [q EXCEPT !.mine = c].stage = q.stage
         /\ [q EXCEPT !.mine = c].cfg = q.cfg
         /\ [q EXCEPT !.mine = c].mine = c
         /\ [q EXCEPT !.mine = c].err = q.err
         /\ [q EXCEPT !.mine = c].blob = q.blob
         /\ [q EXCEPT !.mine = c].kind = q.kind
BY DEF Request

\* The error.
LEMMA ErrField ==
  ASSUME NEW q \in Request, NEW e \in Errors
  PROVE  /\ [q EXCEPT !.err = e] \in Request
         /\ [q EXCEPT !.err = e].stage = q.stage
         /\ [q EXCEPT !.err = e].cfg = q.cfg
         /\ [q EXCEPT !.err = e].mine = q.mine
         /\ [q EXCEPT !.err = e].err = e
         /\ [q EXCEPT !.err = e].blob = q.blob
         /\ [q EXCEPT !.err = e].kind = q.kind
BY DEF Request

\* The row that was refused.
LEMMA BlobField ==
  ASSUME NEW q \in Request, NEW c \in MaybeCredential
  PROVE  /\ [q EXCEPT !.blob = c] \in Request
         /\ [q EXCEPT !.blob = c].stage = q.stage
         /\ [q EXCEPT !.blob = c].cfg = q.cfg
         /\ [q EXCEPT !.blob = c].mine = q.mine
         /\ [q EXCEPT !.blob = c].err = q.err
         /\ [q EXCEPT !.blob = c].blob = c
         /\ [q EXCEPT !.blob = c].kind = q.kind
BY DEF Request

LEMMA GivenIsGood ==
  ASSUME NEW q \in Request, q.cfg \in Credential, q.mine \in Credential, Says(dead, q.err, q.blob)
  PROVE  /\ GoodRequest(dead, Given(q))
         /\ Given(q).cfg \in {None, q.cfg} /\ Given(q).mine \in {None, q.mine}
<1>1. CASE q.kind = "manual"
  BY <1>1, NobodyIsGood DEF Given, NoRequest
<1>2. CASE q.kind # "manual"
  <2> DEFINE p == [q EXCEPT !.stage = "send"]
  <2>1. p \in Request /\ p.stage = "send" /\ p.cfg = q.cfg /\ p.mine = q.mine
        /\ p.err = q.err /\ p.blob = q.blob
    BY StageField DEF Stages
  <2>2. Given(q) = p
    BY <1>2 DEF Given
  <2> QED
    BY <2>1, <2>2 DEF GoodRequest
<1> QED
  BY <1>1, <1>2

\* A request that fails with an error, and one that disables the channel.
FailedWith(q, e, c) == [q EXCEPT !.stage = "failed", !.err = e, !.blob = c]

LEMMA FailedIsGood ==
  ASSUME NEW q \in Request, q.cfg \in Credential, q.mine \in Credential,
         NEW e \in Errors, NEW c \in MaybeCredential, Says(dead, e, c)
  PROVE  /\ GoodRequest(dead, FailedWith(q, e, c))
         /\ FailedWith(q, e, c).cfg = q.cfg /\ FailedWith(q, e, c).mine = q.mine
<1> DEFINE x == [q EXCEPT !.stage = "failed"]
           y == [x EXCEPT !.err = e]
           z == [y EXCEPT !.blob = c]
<1>1. x \in Request /\ x.stage = "failed" /\ x.cfg = q.cfg /\ x.mine = q.mine
  BY StageField DEF Stages
<1> HIDE DEF x
<1>2. y \in Request /\ y.stage = "failed" /\ y.cfg = q.cfg /\ y.mine = q.mine /\ y.err = e
  BY <1>1, ErrField
<1> HIDE DEF y
<1>3. z \in Request /\ z.stage = "failed" /\ z.cfg = q.cfg /\ z.mine = q.mine /\ z.err = e /\ z.blob = c
  BY <1>2, BlobField
<1> HIDE DEF z
<1>4. GoodRequest(dead, z)
  BY <1>3 DEF GoodRequest
<1> QED
  BY <1>3, <1>4 DEF x, y, z, FailedWith

LEMMA GivenUpIsGood ==
  ASSUME NEW q \in Request, Says(dead, q.err, q.blob)
  PROVE  /\ GoodRequest(dead, GiveUpChannel(q))
         /\ GiveUpChannel(q).cfg = None /\ GiveUpChannel(q).mine = None
<1>1. CASE q.err = "terminal"
  <2> DEFINE p == [NoRequest EXCEPT !.stage = "disable", !.blob = q.blob]
  <2>1. /\ p \in Request /\ p.stage = "disable" /\ p.cfg = None /\ p.mine = None
        /\ p.err = "none" /\ p.blob = q.blob
    BY DEF NoRequest, Request, MaybeCredential, Errors
  <2>2. GiveUpChannel(q) = p
    BY <1>1 DEF GiveUpChannel
  <2> HIDE DEF p
  <2> QED
    BY <1>1, <2>1, <2>2 DEF GoodRequest, Says
<1>2. CASE q.err # "terminal"
  BY <1>2, NobodyIsGood DEF GiveUpChannel, NoRequest
<1> QED
  BY <1>1, <1>2

-----------------------------------------------------------------------------
(* The steps of a request                                                   *)

\* The request becomes q, which it may, and has no credential that it, the
\* cache or the row did not have.
MovesTo(r, q) ==
  /\ req' = [req EXCEPT ![r] = q]
  /\ GoodRequest(dead, q)
  /\ q.cfg \in {None, req[r].cfg, row.cred}
  /\ q.mine \in {None, req[r].mine, req[r].cfg, entry}

RequestMoves(r) ==
  /\ \E q : MovesTo(r, q)
  /\ entry' \in {entry, req[r].cfg}
  /\ entry' \in MaybeCredential

LEMMA StartMoves ==
  ASSUME TypeInv, NEW r \in Requests, NEW kind \in {"proxy", "manual"}, Start(r, kind)
  PROVE  RequestMoves(r)
<1> DEFINE q == [NoRequest EXCEPT !.stage = "lookup", !.kind = kind, !.cfg = row.cred,
                                  !.force = (kind = "manual")]
<1>1. /\ q \in Request /\ q.stage = "lookup" /\ q.cfg = row.cred /\ q.mine = None
      /\ q.err = "none" /\ q.blob = None /\ row.cred \in Credential
  BY DEF NoRequest, Request, MaybeCredential, Errors, TypeInv, TypeOK
<1>2. req' = [req EXCEPT ![r] = q] /\ entry' = entry /\ entry \in MaybeCredential
  BY DEF Start, Becomes, memory, TypeInv, TypeOK
<1> HIDE DEF q
<1>3. MovesTo(r, q)
  BY <1>1, <1>2 DEF MovesTo, GoodRequest, Says
<1> QED
  BY <1>2, <1>3 DEF RequestMoves

LEMMA Cached ==
  ASSUME TypeInv, NEW r \in Requests, req[r].stage \notin {"idle", "disable", "recheck"}
  PROVE  /\ req[r] \in Request /\ Says(dead, req[r].err, req[r].blob) /\ req[r].cfg \in Credential
         /\ CachedOrParse(r) \in Credential /\ CachedOrParse(r) \in {entry, req[r].cfg}
BY NoneIsNoCredential DEF TypeInv, TypeOK, Sound, GoodRequest, CachedOrParse

LEMMA LookupMoves ==
  ASSUME TypeInv, NEW r \in Requests, Lookup(r)
  PROVE  RequestMoves(r)
<1> DEFINE c == CachedOrParse(r)
           x == [req[r] EXCEPT !.mine = c]
           y == [x EXCEPT !.err = "none"]
           z == [y EXCEPT !.blob = None]
           j == [z EXCEPT !.stage = "join"]
<1>1. /\ req[r] \in Request /\ req[r].cfg \in Credential /\ c \in Credential
      /\ c \in {entry, req[r].cfg}
  BY Cached DEF Lookup
<1>2. entry' = c /\ req' \in {[req EXCEPT ![r] = Given(z)], [req EXCEPT ![r] = j]}
  BY DEF Lookup, Becomes
<1> HIDE DEF c
<1>3. x \in Request /\ x.cfg = req[r].cfg /\ x.mine = c
  BY <1>1, MineField DEF MaybeCredential
<1> HIDE DEF x
<1>4. y \in Request /\ y.cfg = req[r].cfg /\ y.mine = c /\ y.err = "none"
  BY <1>3, ErrField DEF Errors
<1> HIDE DEF y
<1>5. z \in Request /\ z.cfg = req[r].cfg /\ z.mine = c /\ z.err = "none"
  BY <1>4, BlobField DEF MaybeCredential
<1> HIDE DEF z
<1>6. GoodRequest(dead, Given(z)) /\ Given(z).cfg \in {None, req[r].cfg} /\ Given(z).mine \in {None, c}
  BY <1>1, <1>5, GivenIsGood DEF Says
<1>7. j \in Request /\ j.stage = "join" /\ j.cfg = req[r].cfg /\ j.mine = c /\ j.err = "none"
  BY <1>5, StageField DEF Stages
<1>8. GoodRequest(dead, j)
  BY <1>1, <1>7 DEF GoodRequest, Says
<1> HIDE DEF j
<1>9. CASE req' = [req EXCEPT ![r] = Given(z)]
  <2>1. MovesTo(r, Given(z))
    BY <1>1, <1>6, <1>9 DEF MovesTo
  <2> QED
    BY <1>1, <1>2, <2>1 DEF RequestMoves, MaybeCredential
<1>10. CASE req' = [req EXCEPT ![r] = j]
  <2>1. MovesTo(r, j)
    BY <1>1, <1>7, <1>8, <1>10 DEF MovesTo
  <2> QED
    BY <1>1, <1>2, <2>1 DEF RequestMoves, MaybeCredential
<1> QED
  BY <1>2, <1>9, <1>10

LEMMA LeaveMoves ==
  ASSUME TypeInv, NEW r \in Requests, req' = [req EXCEPT ![r] = NoRequest], UNCHANGED entry
  PROVE  RequestMoves(r)
<1>1. MovesTo(r, NoRequest)
  BY NobodyIsGood DEF MovesTo, NoRequest
<1> QED
  BY <1>1 DEF RequestMoves, TypeInv, TypeOK

LEMMA RedirectedMoves ==
  ASSUME TypeInv, NEW r \in Requests, Redirected(r)
  PROVE  RequestMoves(r)
<1> DEFINE c == CachedOrParse(r)
           x == [req[r] EXCEPT !.mine = c]
           y == [x EXCEPT !.stage = "lookup"]
           z == [y EXCEPT !.force = FALSE]
<1>1. /\ req[r] \in Request /\ req[r].cfg \in Credential /\ c \in Credential
      /\ c \in {entry, req[r].cfg} /\ Says(dead, req[r].err, req[r].blob)
  BY Cached DEF Redirected
<1>2. entry' = c /\ req' \in {[req EXCEPT ![r] = Given(x)], [req EXCEPT ![r] = z]}
  BY DEF Redirected, Becomes
<1> HIDE DEF c
<1>3. x \in Request /\ x.cfg = req[r].cfg /\ x.mine = c /\ x.err = req[r].err /\ x.blob = req[r].blob
  BY <1>1, MineField DEF MaybeCredential
<1> HIDE DEF x
<1>4. GoodRequest(dead, Given(x)) /\ Given(x).cfg \in {None, req[r].cfg} /\ Given(x).mine \in {None, c}
  BY <1>1, <1>3, GivenIsGood
<1>5. /\ y \in Request /\ y.stage = "lookup" /\ y.cfg = req[r].cfg /\ y.mine = c
      /\ y.err = req[r].err /\ y.blob = req[r].blob
  BY <1>3, StageField DEF Stages
<1> HIDE DEF y
<1>6. /\ z \in Request /\ z.stage = "lookup" /\ z.cfg = req[r].cfg /\ z.mine = c
      /\ z.err = req[r].err /\ z.blob = req[r].blob
  BY <1>5 DEF Request
<1> HIDE DEF z
<1>7. GoodRequest(dead, z)
  BY <1>1, <1>6 DEF GoodRequest
<1>8. CASE req' = [req EXCEPT ![r] = Given(x)]
  <2>1. MovesTo(r, Given(x))
    BY <1>1, <1>4, <1>8 DEF MovesTo
  <2> QED
    BY <1>1, <1>2, <2>1 DEF RequestMoves, MaybeCredential
<1>9. CASE req' = [req EXCEPT ![r] = z]
  <2>1. MovesTo(r, z)
    BY <1>1, <1>6, <1>7, <1>9 DEF MovesTo
  <2> QED
    BY <1>1, <1>2, <2>1 DEF RequestMoves, MaybeCredential
<1> QED
  BY <1>2, <1>8, <1>9

LEMMA FailedMoves ==
  ASSUME TypeInv, NEW r \in Requests, RefreshFailed(r)
  PROVE  RequestMoves(r)
<1> DEFINE q == req[r]
           x == [q EXCEPT !.err = "none"]
<1>1. /\ q \in Request /\ q.cfg \in Credential /\ q.mine \in Credential /\ Says(dead, q.err, q.blob)
  BY DEF RefreshFailed, TypeInv, Sound, GoodRequest
<1>2. /\ entry' = entry /\ entry \in MaybeCredential
      /\ \E p \in {Given(x), Given(q), GiveUpChannel(q), NoRequest} : req' = [req EXCEPT ![r] = p]
  BY DEF RefreshFailed, Becomes, memory, TypeInv, TypeOK
<1>3. x \in Request /\ x.cfg = q.cfg /\ x.mine = q.mine /\ x.err = "none"
  BY <1>1, ErrField DEF Errors
<1> HIDE DEF x
<1>4. GoodRequest(dead, Given(x)) /\ Given(x).cfg \in {None, q.cfg} /\ Given(x).mine \in {None, q.mine}
  BY <1>1, <1>3, GivenIsGood DEF Says
<1>5. GoodRequest(dead, Given(q)) /\ Given(q).cfg \in {None, q.cfg} /\ Given(q).mine \in {None, q.mine}
  BY <1>1, GivenIsGood
<1>6. GoodRequest(dead, GiveUpChannel(q)) /\ GiveUpChannel(q).cfg = None /\ GiveUpChannel(q).mine = None
  BY <1>1, GivenUpIsGood
<1>7. GoodRequest(dead, NoRequest) /\ NoRequest.cfg = None /\ NoRequest.mine = None
  BY NobodyIsGood DEF NoRequest
<1>8. \E p : MovesTo(r, p)
  BY <1>2, <1>4, <1>5, <1>6, <1>7 DEF MovesTo
<1> QED
  BY <1>2, <1>8 DEF RequestMoves

LEMMA UnauthorizedMoves ==
  ASSUME TypeInv, NEW r \in Requests, Unauthorized(r)
  PROVE  RequestMoves(r)
<1> DEFINE q == req[r]
           x == [q EXCEPT !.stage = "lookup"]
           y == [x EXCEPT !.force = TRUE]
           z == [y EXCEPT !.rejected = q.mine.at]
<1>1. /\ q \in Request /\ q.cfg \in Credential /\ q.mine \in Credential /\ Says(dead, q.err, q.blob)
      /\ q.mine.at \in Nat
  BY TokensAreNumbers DEF Unauthorized, TypeInv, Sound, GoodRequest, Credential
<1>2. /\ entry' = entry /\ entry \in MaybeCredential
      /\ \E p \in {GiveUpChannel(q), z} : req' = [req EXCEPT ![r] = p]
  BY DEF Unauthorized, Becomes, memory, TypeInv, TypeOK
<1>3. x \in Request /\ x.stage = "lookup" /\ x.cfg = q.cfg /\ x.mine = q.mine /\ x.err = q.err /\ x.blob = q.blob
  BY <1>1, StageField DEF Stages
<1> HIDE DEF x
<1>4. y \in Request /\ y.stage = "lookup" /\ y.cfg = q.cfg /\ y.mine = q.mine /\ y.err = q.err /\ y.blob = q.blob
  BY <1>3 DEF Request
<1> HIDE DEF y
<1>5. z \in Request /\ z.stage = "lookup" /\ z.cfg = q.cfg /\ z.mine = q.mine /\ z.err = q.err /\ z.blob = q.blob
  BY <1>1, <1>4 DEF Request
<1> HIDE DEF z
<1>6. GoodRequest(dead, z)
  BY <1>1, <1>5 DEF GoodRequest
<1>7. GoodRequest(dead, GiveUpChannel(q)) /\ GiveUpChannel(q).cfg = None /\ GiveUpChannel(q).mine = None
  BY <1>1, GivenUpIsGood
<1>8. \E p : MovesTo(r, p)
  BY <1>2, <1>5, <1>6, <1>7 DEF MovesTo
<1> QED
  BY <1>2, <1>8 DEF RequestMoves

\* A request that disables the channel still means the grant that was refused.
LEMMA DisableMoves ==
  ASSUME TypeInv, NEW r \in Requests, DisableMisses(r) \/ Recheck(r)
  PROVE  RequestMoves(r)
<1> DEFINE q == req[r]
           x == [q EXCEPT !.stage = "recheck"]
           y == [q EXCEPT !.stage = "disable"]
           z == [y EXCEPT !.blob = row.cred]
           t == [z EXCEPT !.tries = @ + 1]
<1>1. /\ q \in Request /\ Says(dead, q.err, q.blob) /\ Says(dead, "terminal", q.blob) /\ row.cred \in Credential
      /\ entry \in MaybeCredential
  BY DEF DisableMisses, Recheck, TypeInv, TypeOK, Sound, GoodRequest
<1>2. GoodRequest(dead, NoRequest) /\ NoRequest.cfg = None /\ NoRequest.mine = None
  BY NobodyIsGood DEF NoRequest
<1>3. CASE DisableMisses(r)
  <2>1. entry' = entry /\ \E p \in {x, NoRequest} : req' = [req EXCEPT ![r] = p]
    BY <1>3 DEF DisableMisses, Becomes, memory
  <2>2. x \in Request /\ x.stage = "recheck" /\ x.cfg = q.cfg /\ x.mine = q.mine /\ x.err = q.err /\ x.blob = q.blob
    BY <1>1, StageField DEF Stages
  <2> HIDE DEF x
  <2>3. GoodRequest(dead, x)
    BY <1>1, <2>2 DEF GoodRequest
  <2>4. \E p : MovesTo(r, p)
    BY <1>2, <2>1, <2>2, <2>3 DEF MovesTo
  <2> QED
    BY <1>1, <2>1, <2>4 DEF RequestMoves
<1>4. CASE Recheck(r)
  <2>1. /\ entry' = entry
        /\ \/ req' = [req EXCEPT ![r] = NoRequest]
           \/ req' = [req EXCEPT ![r] = t] /\ SameTokens(row.cred, q.blob)
    BY <1>4 DEF Recheck, Becomes, memory
  <2>2. y \in Request /\ y.stage = "disable" /\ y.cfg = q.cfg /\ y.mine = q.mine /\ y.err = q.err
    BY <1>1, StageField DEF Stages
  <2> HIDE DEF y
  <2>3. /\ z \in Request /\ z.stage = "disable" /\ z.cfg = q.cfg /\ z.mine = q.mine /\ z.err = q.err
        /\ z.blob = row.cred
    BY <1>1, <2>2, BlobField DEF MaybeCredential
  <2> HIDE DEF z
  <2>4. /\ t \in Request /\ t.stage = "disable" /\ t.cfg = q.cfg /\ t.mine = q.mine /\ t.err = q.err
        /\ t.blob = row.cred
    BY <2>3 DEF Request
  <2> HIDE DEF t
  <2>5. ASSUME SameTokens(row.cred, q.blob)
        PROVE  GoodRequest(dead, t)
    <3>1. Says(dead, "terminal", row.cred)
      BY <1>1, <2>5 DEF SameTokens, Says
    <3> QED
      BY <1>1, <2>4, <3>1 DEF GoodRequest, Says
  <2>6. \E p : MovesTo(r, p)
    BY <1>2, <2>1, <2>4, <2>5 DEF MovesTo
  <2> QED
    BY <1>1, <2>1, <2>6 DEF RequestMoves
<1> QED
  BY <1>3, <1>4

-----------------------------------------------------------------------------
(* What is good stays good while grants die and tokens are issued           *)

LEMMA RequestsStay ==
  ASSUME TypeInv, dead \subseteq dead', dead' \subseteq Nat,
         req' = req \/ \E r \in Requests, q \in Request : req' = [req EXCEPT ![r] = q] /\ GoodRequest(dead', q)
  PROVE  req' \in [Requests -> Request] /\ \A r \in Requests : GoodRequest(dead', req'[r])
<1>1. \A r \in Requests : GoodRequest(dead', req[r])
  BY DEF TypeInv, Sound, GoodRequest, Says
<1>2. req \in [Requests -> Request]
  BY DEF TypeInv, TypeOK
<1> QED
  BY <1>1, <1>2 DEF GoodRequest

LEMMA FlightsStay ==
  ASSUME TypeInv, dead \subseteq dead', issued' \in Nat, issued <= issued',
         flight' = flight
           \/ \E a \in Tokens, f \in Flight : flight' = [flight EXCEPT ![a] = f] /\ GoodFlight(dead', issued', a, f)
  PROVE  flight' \in [Tokens -> Flight] /\ \A a \in Tokens : GoodFlight(dead', issued', a, flight'[a])
<1>1. ASSUME NEW a \in Tokens
      PROVE  GoodFlight(dead', issued', a, flight[a])
  <2>1. GoodFlight(dead, issued, a, flight[a]) /\ issued \in Nat
    BY TokensAreNumbers DEF TypeInv, TypeOK, Sound
  <2>2. flight[a].stage = "loaded" => flight[a].cfg.at \in Nat
    BY <2>1, TokensAreNumbers DEF GoodFlight, Credential
  <2>3. flight[a].new \in Nat
    BY <2>1 DEF GoodFlight, Flight
  <2> QED
    BY <2>1, <2>2, <2>3 DEF GoodFlight, Says
<1>2. flight \in [Tokens -> Flight]
  BY DEF TypeInv, TypeOK
<1> QED
  BY <1>1, <1>2 DEF GoodFlight

\* The parts of the invariant that are neither requests nor flights.
Frame ==
  /\ row \in [cred : Credential, enabled : BOOLEAN]
  /\ entry \in MaybeCredential
  /\ backoff \in [kind : {"none", "early", "refused"}, token : Nat]
  /\ usage \in [stage : {"idle", "swap", "drop"}, cfg : MaybeCredential]
  /\ admin \in [stage : {"idle", "read", "swap", "enable", "forget"},
                cfg : MaybeCredential, new : MaybeCredential]
  /\ issued \in Tokens
  /\ clock \in [due : Nat, expired : Nat]
  /\ dead \subseteq Nat /\ lost \subseteq Nat
  /\ events \in Nat
  /\ backoff.kind = "refused" => backoff.token \in dead
  /\ usage.stage = "swap" => usage.cfg \in Credential
  /\ row.cred.at <= issued
  /\ admin.stage \in {"read", "swap"} =>
       admin.new \in Credential /\ admin.new.at <= issued /\ admin.new.login = row.cred.login + 1

LEMMA TypeInvParts ==
  TypeInv <=> /\ Frame
              /\ req \in [Requests -> Request] /\ \A r \in Requests : GoodRequest(dead, req[r])
              /\ flight \in [Tokens -> Flight] /\ \A a \in Tokens : GoodFlight(dead, issued, a, flight[a])
BY DEF TypeInv, TypeOK, Sound, Frame

-----------------------------------------------------------------------------
(* The steps of a flight                                                    *)

FlightStages == {"none", "begin", "loaded", "failed", "yield", "persist", "reread", "publish"}

\* One field of a flight replaced: the stage.
LEMMA FlightStage ==
  ASSUME NEW f \in Flight, NEW s \in FlightStages
  PROVE  /\ [f EXCEPT !.stage = s] \in Flight
         /\ [f EXCEPT !.stage = s].stage = s
         /\ [f EXCEPT !.stage = s].rt = f.rt
         /\ [f EXCEPT !.stage = s].cfg = f.cfg
         /\ [f EXCEPT !.stage = s].new = f.new
         /\ [f EXCEPT !.stage = s].rotated = f.rotated
         /\ [f EXCEPT !.stage = s].err = f.err
BY DEF Flight, FlightStages

\* The row it works on.
LEMMA FlightCfg ==
  ASSUME NEW f \in Flight, NEW c \in MaybeCredential
  PROVE  /\ [f EXCEPT !.cfg = c] \in Flight
         /\ [f EXCEPT !.cfg = c].stage = f.stage
         /\ [f EXCEPT !.cfg = c].rt = f.rt
         /\ [f EXCEPT !.cfg = c].cfg = c
         /\ [f EXCEPT !.cfg = c].new = f.new
         /\ [f EXCEPT !.cfg = c].rotated = f.rotated
         /\ [f EXCEPT !.cfg = c].err = f.err
BY DEF Flight

\* The error.
LEMMA FlightErr ==
  ASSUME NEW f \in Flight, NEW e \in Errors
  PROVE  /\ [f EXCEPT !.err = e] \in Flight
         /\ [f EXCEPT !.err = e].stage = f.stage
         /\ [f EXCEPT !.err = e].rt = f.rt
         /\ [f EXCEPT !.err = e].cfg = f.cfg
         /\ [f EXCEPT !.err = e].new = f.new
         /\ [f EXCEPT !.err = e].rotated = f.rotated
         /\ [f EXCEPT !.err = e].err = e
BY DEF Flight

\* What was issued.
LEMMA FlightNew ==
  ASSUME NEW f \in Flight, NEW n \in Nat
  PROVE  /\ [f EXCEPT !.new = n] \in Flight
         /\ [f EXCEPT !.new = n].stage = f.stage
         /\ [f EXCEPT !.new = n].rt = f.rt
         /\ [f EXCEPT !.new = n].cfg = f.cfg
         /\ [f EXCEPT !.new = n].new = n
         /\ [f EXCEPT !.new = n].rotated = f.rotated
         /\ [f EXCEPT !.new = n].err = f.err
BY DEF Flight

\* Whether the grant was replaced.
LEMMA FlightRotated ==
  ASSUME NEW f \in Flight, NEW b \in BOOLEAN
  PROVE  /\ [f EXCEPT !.rotated = b] \in Flight
         /\ [f EXCEPT !.rotated = b].stage = f.stage
         /\ [f EXCEPT !.rotated = b].rt = f.rt
         /\ [f EXCEPT !.rotated = b].cfg = f.cfg
         /\ [f EXCEPT !.rotated = b].new = f.new
         /\ [f EXCEPT !.rotated = b].rotated = b
         /\ [f EXCEPT !.rotated = b].err = f.err
BY DEF Flight

\* The flight has used up a grant and has its successor to store.
Pending(f) == f.stage \in {"persist", "reread"} /\ f.rotated

\* The flight of a has found the tokens it is about in the row.
Held(a, f) ==
  \/ f.stage \in {"persist", "reread"}
  \/ f.stage = "loaded" /\ f.cfg.at = a /\ f.cfg.rt = f.rt

\* The flight becomes f: what it has to store it keeps, unless another has
\* replaced the tokens or the successor is given up for lost.
FlightMovesTo(a, f) ==
  /\ flight' = [flight EXCEPT ![a] = f]
  /\ GoodFlight(dead, issued, a, f)
  /\ f.rt \in {0, flight[a].rt} /\ f.cfg \in {None, flight[a].cfg, row.cred}
  /\ Pending(f) => Pending(flight[a]) /\ f.new = flight[a].new /\ f.rt = flight[a].rt
  /\ Pending(flight[a]) /\ ~Pending(f) =>
       flight[a].rt \in lost' \/ row.cred.at # a \/ row.cred.rt # flight[a].rt
  /\ Held(a, f) => \/ Held(a, flight[a]) /\ f.rt = flight[a].rt
                   \/ row.cred.at = a

\* Its callers have an answer, with the credential c or their own.
Answered(c) ==
  /\ req' \in [Requests -> Request]
  /\ \A r \in Requests : /\ GoodRequest(dead, req'[r])
                         /\ req'[r].cfg \in {None, req[r].cfg}
                         /\ req'[r].mine \in {None, req[r].mine, c}

FlightMoves(a) ==
  /\ \E f \in Flight : FlightMovesTo(a, f)
  /\ Answered(flight[a].cfg)
  /\ entry' \in {entry, flight[a].cfg} /\ entry' \in MaybeCredential
  /\ backoff' \in [kind : {"none", "early", "refused"}, token : Nat]
  /\ backoff'.kind = "refused" => backoff'.token \in dead
  /\ lost \subseteq lost' /\ lost' \subseteq Nat
  /\ events' \in Nat
  /\ UNCHANGED <<row, dead, issued, clock, admin, usage>>

LEMMA Ended ==
  ASSUME TypeInv, NEW a \in Tokens, NEW c, NEW answers, Ends(a, answers),
         \A r \in Waiters(a) : /\ GoodRequest(dead, answers[r]) /\ answers[r].cfg \in {None, req[r].cfg}
                               /\ answers[r].mine \in {None, req[r].mine, c}
  PROVE  Answered(c) /\ flight' = [flight EXCEPT ![a] = NoFlight]
<1>1. \A r \in Requests : req'[r] = IF r \in Waiters(a) THEN answers[r] ELSE req[r]
  BY DEF Ends
<1>2. \A r \in Requests : GoodRequest(dead, req'[r])
  BY <1>1 DEF TypeInv, Sound
<1>3. req' \in [Requests -> Request]
  BY <1>2 DEF Ends, GoodRequest
<1> QED
  BY <1>1, <1>2, <1>3 DEF Answered, Ends, Goes

\* Who waits has a credential of its own and the row it came with.
LEMMA Waiting ==
  ASSUME TypeInv, NEW a \in Tokens, NEW r \in Waiters(a)
  PROVE  /\ r \in Requests /\ req[r] \in Request /\ req[r].cfg \in Credential
         /\ req[r].mine \in Credential /\ Says(dead, req[r].err, req[r].blob)
BY DEF TypeInv, Sound, GoodRequest, Waiters

LEMMA EndsWithIt ==
  ASSUME TypeInv, NEW a \in Tokens, NEW c \in Credential, EndsWith(a, c)
  PROVE  Answered(c) /\ flight' = [flight EXCEPT ![a] = NoFlight]
<1> DEFINE ans == [r \in Requests |-> Given([req[r] EXCEPT !.mine = c])]
<1>1. Ends(a, ans)
  BY DEF EndsWith
<1>2. ASSUME NEW r \in Waiters(a)
      PROVE  /\ GoodRequest(dead, ans[r]) /\ ans[r].cfg \in {None, req[r].cfg}
             /\ ans[r].mine \in {None, req[r].mine, c}
  <2> DEFINE p == [req[r] EXCEPT !.mine = c]
  <2>1. ans[r] = Given(p)
    BY Waiting
  <2>2. p \in Request /\ p.cfg = req[r].cfg /\ p.mine = c /\ p.err = req[r].err /\ p.blob = req[r].blob
    BY Waiting, MineField DEF MaybeCredential
  <2> HIDE DEF p, ans
  <2>3. GoodRequest(dead, Given(p)) /\ Given(p).cfg \in {None, p.cfg} /\ Given(p).mine \in {None, p.mine}
    BY Waiting, <2>2, GivenIsGood
  <2> QED
    BY <2>1, <2>2, <2>3
<1> HIDE DEF ans
<1> QED
  BY <1>1, <1>2, Ended

LEMMA EndsFailedIt ==
  ASSUME TypeInv, NEW a \in Tokens, NEW e \in Errors, NEW c \in MaybeCredential, Says(dead, e, c),
         EndsFailed(a, e, c)
  PROVE  (\A d : Answered(d)) /\ flight' = [flight EXCEPT ![a] = NoFlight]
<1> DEFINE ans == [r \in Requests |-> [req[r] EXCEPT !.stage = "failed", !.err = e, !.blob = c]]
<1>1. Ends(a, ans)
  BY DEF EndsFailed
<1>2. ASSUME NEW r \in Waiters(a)
      PROVE  GoodRequest(dead, ans[r]) /\ ans[r].cfg = req[r].cfg /\ ans[r].mine = req[r].mine
  <2>1. ans[r] = FailedWith(req[r], e, c)
    BY Waiting DEF FailedWith
  <2>2. /\ r \in Requests /\ req[r] \in Request /\ req[r].cfg \in Credential
        /\ req[r].mine \in Credential
    BY Waiting
  <2> HIDE DEF ans
  <2> QED
    BY <2>1, <2>2, FailedIsGood
<1> HIDE DEF ans
<1> QED
  BY <1>1, <1>2, Ended

LEMMA EndsRedirectedIt ==
  ASSUME TypeInv, NEW a \in Tokens, EndsRedirected(a)
  PROVE  (\A d : Answered(d)) /\ flight' = [flight EXCEPT ![a] = NoFlight]
<1> DEFINE ans == [r \in Requests |-> [req[r] EXCEPT !.stage = "redirected"]]
<1>1. Ends(a, ans)
  BY DEF EndsRedirected
<1>2. ASSUME NEW r \in Waiters(a)
      PROVE  GoodRequest(dead, ans[r]) /\ ans[r].cfg = req[r].cfg /\ ans[r].mine = req[r].mine
  <2> DEFINE p == [req[r] EXCEPT !.stage = "redirected"]
  <2>1. ans[r] = p
    BY Waiting
  <2>2. /\ p \in Request /\ p.stage = "redirected" /\ p.cfg = req[r].cfg /\ p.mine = req[r].mine
        /\ p.err = req[r].err /\ p.blob = req[r].blob
    BY Waiting, StageField DEF Stages
  <2> HIDE DEF p, ans
  <2>3. GoodRequest(dead, p)
    BY Waiting, <2>2 DEF GoodRequest
  <2> QED
    BY <2>1, <2>2, <2>3
<1> HIDE DEF ans
<1> QED
  BY <1>1, <1>2, Ended

\* The state of a flight and of what it works on.
LEMMA Here ==
  ASSUME TypeInv, NEW a \in Tokens
  PROVE  /\ flight[a] \in Flight /\ GoodFlight(dead, issued, a, flight[a])
         /\ flight[a].rt \in Nat /\ flight[a].err \in Errors /\ flight[a].cfg \in MaybeCredential
         /\ row.cred \in Credential /\ row.cred.at <= issued /\ entry \in MaybeCredential
         /\ backoff \in [kind : {"none", "early", "refused"}, token : Nat]
         /\ backoff.kind = "refused" => backoff.token \in dead
         /\ lost \subseteq Nat /\ dead \subseteq Nat /\ events \in Nat /\ issued \in Nat /\ a \in Nat
BY TokensAreNumbers DEF TypeInv, TypeOK, Sound, Flight, Errors

LEMMA Gone ==
  ASSUME TypeInv, NEW a \in Tokens, flight' = [flight EXCEPT ![a] = NoFlight],
         Pending(flight[a]) =>
           flight[a].rt \in lost' \/ row.cred.at # a \/ row.cred.rt # flight[a].rt
  PROVE  \E f \in Flight : FlightMovesTo(a, f)
<1>1. GoodFlight(dead, issued, a, NoFlight) /\ NoFlight \in Flight
  BY NoFlightIsGood DEF GoodFlight
<1>2. /\ NoFlight.rt = 0 /\ NoFlight.cfg = None /\ ~Pending(NoFlight) /\ ~Held(a, NoFlight)
  BY DEF NoFlight, Pending, Held
<1> QED
  BY <1>1, <1>2 DEF FlightMovesTo

LEMMA NobodyAnswered == ASSUME TypeInv, NEW c, UNCHANGED req PROVE Answered(c)
BY DEF Answered, TypeInv, TypeOK, Sound

LEMMA ReloadMoves ==
  ASSUME TypeInv, NEW a \in Tokens, Reload(a)
  PROVE  FlightMoves(a)
<1>1. /\ UNCHANGED <<row, dead, issued, clock, admin, usage, entry, backoff, lost>> /\ events' \in Nat
      /\ flight[a].stage = "begin"
  BY Here DEF Reload, memory, world, Flies, Event, NoEvent
<1>2. CASE Goes(a, [flight[a] EXCEPT !.stage = "loaded", !.cfg = row.cred]) /\ UNCHANGED req
  <2> DEFINE x == [flight[a] EXCEPT !.stage = "loaded"]
             y == [x EXCEPT !.cfg = row.cred]
  <2>1. flight' = [flight EXCEPT ![a] = y]
    BY <1>2 DEF Goes
  <2>2. x \in Flight /\ x.stage = "loaded" /\ x.rt = flight[a].rt
    BY Here, FlightStage DEF FlightStages
  <2> HIDE DEF x
  <2>3. y \in Flight /\ y.stage = "loaded" /\ y.rt = flight[a].rt /\ y.cfg = row.cred
    BY <2>2, Here, FlightCfg DEF MaybeCredential
  <2> HIDE DEF y
  <2>4. GoodFlight(dead, issued, a, y)
    BY <2>3, Here DEF GoodFlight
  <2>5. FlightMovesTo(a, y)
    BY <1>1, <2>1, <2>3, <2>4 DEF FlightMovesTo, Pending, Held
  <2> QED
    BY <1>1, <1>2, <2>3, <2>5, Here, NobodyAnswered DEF FlightMoves
<1>3. CASE EndsFailed(a, "other", None)
  <2>1. (\A d : Answered(d)) /\ flight' = [flight EXCEPT ![a] = NoFlight]
    BY <1>3, EndsFailedIt DEF Errors, MaybeCredential, Says
  <2>2. \E f \in Flight : FlightMovesTo(a, f)
    BY <1>1, <2>1, Gone DEF Pending
  <2> QED
    BY <1>1, <2>1, <2>2, Here DEF FlightMoves
<1> QED
  BY <1>2, <1>3 DEF Reload

LEMMA RedirectMoves ==
  ASSUME TypeInv, NEW a \in Tokens, Redirect(a)
  PROVE  FlightMoves(a)
<1>1. /\ UNCHANGED <<row, dead, issued, clock, admin, usage, backoff, lost, events>>
      /\ flight[a].stage = "loaded" /\ entry' = flight[a].cfg /\ EndsRedirected(a)
  BY DEF Redirect, world, Flies
<1>2. (\A d : Answered(d)) /\ flight' = [flight EXCEPT ![a] = NoFlight]
  BY <1>1, EndsRedirectedIt
<1>3. \E f \in Flight : FlightMovesTo(a, f)
  BY <1>1, <1>2, Gone DEF Pending
<1> QED
  BY <1>1, <1>2, <1>3, Here DEF FlightMoves

\* The refusal that is remembered is about the grant of this flight.
LEMMA RememberMoves ==
  ASSUME TypeInv, NEW a \in Tokens, RememberRefusal(a)
  PROVE  FlightMoves(a)
<1>1. /\ UNCHANGED <<row, dead, issued, clock, admin, usage, entry, backoff, lost, events>>
      /\ flight[a].stage = "loaded" /\ EndsFailed(a, "terminal", flight[a].cfg)
      /\ flight[a].cfg.rt = flight[a].rt /\ backoff = Refused(flight[a].rt)
  BY DEF RememberRefusal, memory, world, Flies, Unchanged
<1>2. Says(dead, "terminal", flight[a].cfg)
  BY <1>1, Here DEF Says, Refused, GoodFlight
<1>3. (\A d : Answered(d)) /\ flight' = [flight EXCEPT ![a] = NoFlight]
  BY <1>1, <1>2, Here, EndsFailedIt DEF Errors
<1>4. \E f \in Flight : FlightMovesTo(a, f)
  BY <1>1, <1>3, Gone DEF Pending
<1> QED
  BY <1>1, <1>3, <1>4, Here DEF FlightMoves

LEMMA RefusedMoves ==
  ASSUME TypeInv, NEW a \in Tokens, RefreshRefused(a)
  PROVE  FlightMoves(a)
<1>1. /\ UNCHANGED <<row, dead, issued, clock, admin, usage, entry, backoff, lost, events, req>>
      /\ flight[a].stage = "loaded" /\ flight[a].cfg.rt = flight[a].rt
  BY DEF RefreshRefused, Asks, memory, world, Flies, Unchanged
<1>2. PICK err \in {"terminal", "other"} :
        /\ err = "terminal" => flight[a].rt \in dead
        /\ flight' = [flight EXCEPT ![a] = [flight[a] EXCEPT !.stage = "failed", !.err = err]]
  BY DEF RefreshRefused, Goes
<1> DEFINE x == [flight[a] EXCEPT !.stage = "failed"]
           y == [x EXCEPT !.err = err]
<1>3. flight' = [flight EXCEPT ![a] = y]
  BY <1>2
<1>4. x \in Flight /\ x.stage = "failed" /\ x.rt = flight[a].rt /\ x.cfg = flight[a].cfg
  BY Here, FlightStage DEF FlightStages
<1> HIDE DEF x
<1>5. y \in Flight /\ y.stage = "failed" /\ y.rt = flight[a].rt /\ y.cfg = flight[a].cfg /\ y.err = err
  <2>1. err \in Errors
    BY DEF Errors
  <2> QED
    BY <1>4, <2>1, FlightErr
<1> HIDE DEF y
<1>6. GoodFlight(dead, issued, a, y)
  BY <1>1, <1>2, <1>5, Here DEF GoodFlight, Says
<1>7. FlightMovesTo(a, y)
  BY <1>1, <1>3, <1>5, <1>6 DEF FlightMovesTo, Pending, Held
<1> QED
  BY <1>1, <1>5, <1>7, Here, NobodyAnswered DEF FlightMoves

LEMMA WinnerMoves ==
  ASSUME TypeInv, NEW a \in Tokens, FindWinner(a)
  PROVE  FlightMoves(a)
<1> DEFINE x == [flight[a] EXCEPT !.stage = "yield"]
           y == [x EXCEPT !.cfg = row.cred]
<1>1. /\ UNCHANGED <<row, dead, issued, clock, admin, usage, entry, backoff, lost, events, req>>
      /\ flight[a].stage = "failed" /\ flight' = [flight EXCEPT ![a] = y]
  BY DEF FindWinner, memory, world, Flies, Goes
<1>2. x \in Flight /\ x.stage = "yield" /\ x.rt = flight[a].rt
  BY Here, FlightStage DEF FlightStages
<1> HIDE DEF x
<1>3. y \in Flight /\ y.stage = "yield" /\ y.rt = flight[a].rt /\ y.cfg = row.cred
  BY <1>2, Here, FlightCfg DEF MaybeCredential
<1> HIDE DEF y
<1>4. GoodFlight(dead, issued, a, y)
  BY <1>3, Here DEF GoodFlight
<1>5. FlightMovesTo(a, y)
  BY <1>1, <1>3, <1>4 DEF FlightMovesTo, Pending, Held
<1> QED
  BY <1>1, <1>3, <1>5, Here, NobodyAnswered DEF FlightMoves

LEMMA ReportMoves ==
  ASSUME TypeInv, NEW a \in Tokens, ReportFailure(a)
  PROVE  FlightMoves(a)
<1>1. /\ UNCHANGED <<row, dead, issued, clock, admin, usage, entry, lost>> /\ events' \in Nat
      /\ flight[a].stage = "failed" /\ EndsFailed(a, flight[a].err, flight[a].cfg)
      /\ backoff' = IF flight[a].err = "terminal" THEN Refused(flight[a].cfg.rt) ELSE Early(flight[a].cfg.at)
  BY Here DEF ReportFailure, world, Flies, Event, NoEvent
<1>2. /\ Says(dead, flight[a].err, flight[a].cfg) /\ flight[a].cfg \in Credential
      /\ flight[a].cfg.rt \in Nat /\ flight[a].cfg.at \in Nat
  BY <1>1, Here, TokensAreNumbers DEF GoodFlight, Credential
<1>3. (\A d : Answered(d)) /\ flight' = [flight EXCEPT ![a] = NoFlight]
  BY <1>1, <1>2, Here, EndsFailedIt
<1>4. \E f \in Flight : FlightMovesTo(a, f)
  BY <1>1, <1>3, Gone DEF Pending
<1>5. /\ backoff' \in [kind : {"none", "early", "refused"}, token : Nat]
      /\ backoff'.kind = "refused" => backoff'.token \in dead
  BY <1>1, <1>2 DEF Says, Refused, Early
<1> QED
  BY <1>1, <1>3, <1>4, <1>5, Here DEF FlightMoves

LEMMA YieldMoves ==
  ASSUME TypeInv, NEW a \in Tokens, Yield(a)
  PROVE  FlightMoves(a)
<1>1. /\ UNCHANGED <<row, dead, issued, clock, admin, usage, backoff, lost, events>>
      /\ flight[a].stage = "yield" /\ entry' = flight[a].cfg /\ EndsWith(a, flight[a].cfg)
  BY DEF Yield, world, Flies
<1>2. flight[a].cfg \in Credential
  BY <1>1, Here DEF GoodFlight
<1>3. Answered(flight[a].cfg) /\ flight' = [flight EXCEPT ![a] = NoFlight]
  BY <1>1, <1>2, EndsWithIt
<1>4. \E f \in Flight : FlightMovesTo(a, f)
  BY <1>1, <1>3, Gone DEF Pending
<1> QED
  BY <1>1, <1>3, <1>4, Here DEF FlightMoves

LEMMA PublishMoves ==
  ASSUME TypeInv, NEW a \in Tokens, Publish(a)
  PROVE  FlightMoves(a)
<1>1. /\ UNCHANGED <<row, dead, issued, clock, admin, usage, lost, events>>
      /\ flight[a].stage = "publish" /\ entry' = flight[a].cfg /\ EndsWith(a, flight[a].cfg)
      /\ backoff' \in {backoff, Early(flight[a].cfg.at)}
  BY DEF Publish, world, Flies
<1>2. flight[a].cfg \in Credential /\ flight[a].cfg.at \in Nat
  BY <1>1, Here, TokensAreNumbers DEF GoodFlight, Credential
<1>3. Answered(flight[a].cfg) /\ flight' = [flight EXCEPT ![a] = NoFlight]
  BY <1>1, <1>2, EndsWithIt
<1>4. \E f \in Flight : FlightMovesTo(a, f)
  BY <1>1, <1>3, Gone DEF Pending
<1>5. /\ backoff' \in [kind : {"none", "early", "refused"}, token : Nat]
      /\ backoff'.kind = "refused" => backoff'.token \in dead
  BY <1>1, <1>2, Here DEF Early
<1> QED
  BY <1>1, <1>3, <1>4, <1>5, Here DEF FlightMoves

LEMMA MissMoves ==
  ASSUME TypeInv, NEW a \in Tokens, PersistMisses(a)
  PROVE  FlightMoves(a)
<1> DEFINE x == [flight[a] EXCEPT !.stage = "reread"]
<1>1. /\ UNCHANGED <<row, dead, issued, clock, admin, usage, entry, backoff, lost, events, req>>
      /\ flight[a].stage = "persist" /\ flight' = [flight EXCEPT ![a] = x]
  BY DEF PersistMisses, memory, world, Flies, Goes
<1>2. /\ x \in Flight /\ x.stage = "reread" /\ x.rt = flight[a].rt /\ x.cfg = flight[a].cfg
      /\ x.new = flight[a].new /\ x.rotated = flight[a].rotated
  BY Here, FlightStage DEF FlightStages
<1> HIDE DEF x
<1>3. GoodFlight(dead, issued, a, x)
  BY <1>1, <1>2, Here DEF GoodFlight
<1>4. FlightMovesTo(a, x)
  BY <1>1, <1>2, <1>3 DEF FlightMovesTo, Pending, Held
<1> QED
  BY <1>1, <1>2, <1>4, Here, NobodyAnswered DEF FlightMoves

\* A flight that finds its tokens goes on to store, and gives up its answer
\* only when they have been replaced.
LEMMA RereadMoves ==
  ASSUME TypeInv, NEW a \in Tokens, Reread(a)
  PROVE  FlightMoves(a)
<1> DEFINE s == IF Unchanged(a, row.cred) THEN "persist" ELSE "yield"
           x == [flight[a] EXCEPT !.cfg = row.cred]
           y == [x EXCEPT !.stage = s]
<1>1. /\ UNCHANGED <<row, dead, issued, clock, admin, usage, entry, backoff, lost, events, req>>
      /\ flight[a].stage = "reread" /\ flight' = [flight EXCEPT ![a] = y]
  BY DEF Reread, memory, world, Flies, Goes
<1>2. /\ x \in Flight /\ x.cfg = row.cred /\ x.rt = flight[a].rt
      /\ x.new = flight[a].new /\ x.rotated = flight[a].rotated
  BY Here, FlightCfg DEF MaybeCredential
<1> HIDE DEF x
<1>3. /\ y \in Flight /\ y.stage = s /\ y.cfg = row.cred /\ y.rt = flight[a].rt
      /\ y.new = flight[a].new /\ y.rotated = flight[a].rotated
  <2>1. s \in FlightStages
    BY DEF FlightStages
  <2> HIDE DEF s
  <2> QED
    BY <1>2, <2>1, FlightStage
<1> HIDE DEF y
<1>4. CASE Unchanged(a, row.cred)
  <2>1. GoodFlight(dead, issued, a, y)
    BY <1>1, <1>3, <1>4, Here DEF GoodFlight, Unchanged
  <2>2. FlightMovesTo(a, y)
    BY <1>1, <1>3, <1>4, <2>1 DEF FlightMovesTo, Pending, Held
  <2> QED
    BY <1>1, <1>3, <2>2, Here, NobodyAnswered DEF FlightMoves
<1>5. CASE ~Unchanged(a, row.cred)
  <2>1. GoodFlight(dead, issued, a, y)
    BY <1>1, <1>3, <1>5, Here DEF GoodFlight
  <2>2. FlightMovesTo(a, y)
    BY <1>1, <1>3, <1>5, <2>1 DEF FlightMovesTo, Pending, Held, Unchanged
  <2> QED
    BY <1>1, <1>3, <2>2, Here, NobodyAnswered DEF FlightMoves
<1> QED
  BY <1>4, <1>5

\* The store fails, and what was rotated is lost.
LEMMA StoreFailsMoves ==
  ASSUME TypeInv, NEW a \in Tokens, PersistFails(a), row' = row, lost' = lost \cup Wasted(a)
  PROVE  FlightMoves(a)
<1>1. /\ UNCHANGED <<dead, issued, clock, admin, usage, entry, backoff>> /\ events' \in Nat
      /\ EndsFailed(a, "other", None)
  BY Here DEF PersistFails, memory, Event
<1>2. (\A d : Answered(d)) /\ flight' = [flight EXCEPT ![a] = NoFlight]
  BY <1>1, EndsFailedIt DEF Errors, MaybeCredential, Says
<1>3. /\ Pending(flight[a]) => flight[a].rt \in lost'
      /\ lost \subseteq lost' /\ lost' \subseteq Nat
  BY Here DEF Pending, Wasted
<1>4. \E f \in Flight : FlightMovesTo(a, f)
  BY <1>2, <1>3, Gone
<1> QED
  BY <1>1, <1>2, <1>3, <1>4, Here DEF FlightMoves

\* What a flight does that neither asks the provider nor writes the row.
LEMMA QuietFlights ==
  ASSUME TypeInv, NEW a \in Tokens,
         \/ Reload(a) \/ Redirect(a) \/ RememberRefusal(a) \/ RefreshRefused(a) \/ FindWinner(a)
         \/ ReportFailure(a) \/ Yield(a) \/ PersistMisses(a) \/ Reread(a) \/ Publish(a)
         \/ PersistFails(a) /\ row' = row /\ lost' = lost \cup Wasted(a)
  PROVE  FlightMoves(a)
BY ReloadMoves, RedirectMoves, RememberMoves, RefusedMoves, WinnerMoves, ReportMoves, YieldMoves,
   MissMoves, RereadMoves, PublishMoves, StoreFailsMoves

-----------------------------------------------------------------------------
(* What writes the row or asks the provider                                 *)

LEMMA MergedFields ==
  ASSUME NEW f \in Flight, f.cfg \in Credential, f.new \in Tokens
  PROVE  /\ Merged(f) \in Credential /\ Merged(f).at = f.new
         /\ Merged(f).rt = (IF f.rotated THEN f.new ELSE f.cfg.rt)
         /\ Merged(f).login = f.cfg.login /\ Merged(f).usage = f.cfg.usage
<1> DEFINE x == [f.cfg EXCEPT !.at = f.new]
           t == IF f.rotated THEN f.new ELSE f.cfg.rt
           y == [x EXCEPT !.rt = t]
<1>1. Merged(f) = y
  BY DEF Merged, Credential
<1>2. t \in Tokens
  BY DEF Credential, Flight
<1>3. /\ x \in Credential /\ x.at = f.new /\ x.login = f.cfg.login /\ x.usage = f.cfg.usage
  BY DEF Credential
<1> HIDE DEF x, t
<1>4. /\ y \in Credential /\ y.at = x.at /\ y.rt = t /\ y.login = x.login /\ y.usage = x.usage
  BY <1>2, <1>3 DEF Credential
<1> QED
  BY <1>1, <1>3, <1>4 DEF t

\* A flight that stores writes the tokens it has: new ones, over its own.
Stored(a) ==
  /\ flight[a] \in Flight /\ flight[a].stage = "persist" /\ row.cred = flight[a].cfg
  /\ row.cred.at = a /\ row.cred.rt = flight[a].rt
  /\ flight[a].new \in Tokens /\ a < flight[a].new /\ flight[a].new <= issued
  /\ row' \in [cred : Credential, enabled : BOOLEAN] /\ row'.enabled = row.enabled
  /\ row'.cred.at = flight[a].new
  /\ row'.cred.rt = (IF flight[a].rotated THEN flight[a].new ELSE flight[a].rt)
  /\ row'.cred.login = row.cred.login /\ row'.cred.usage = row.cred.usage
  /\ \E f \in Flight : /\ flight' = [flight EXCEPT ![a] = f] /\ GoodFlight(dead, issued, a, f)
                        /\ f.rt \in {0, flight[a].rt} /\ f.cfg \in {None, row'.cred}
                        /\ f.stage \in {"none", "publish"}
  /\ Answered(None)
  /\ events' \in Nat
  /\ UNCHANGED <<dead, issued, clock, admin, usage, entry, backoff, lost>>

LEMMA TokenOf ==
  ASSUME TypeInv, NEW a \in Tokens, flight[a].stage \in {"persist", "reread"}
  PROVE  flight[a].new \in Tokens /\ a < flight[a].new /\ flight[a].new <= issued
BY Here, BoundAssumption, SMTT(40) DEF GoodFlight, Flight, Tokens, TypeInv, TypeOK

LEMMA PersistStores ==
  ASSUME TypeInv, NEW a \in Tokens, row.cred = flight[a].cfg, flight[a].stage = "persist",
         row' = [row EXCEPT !.cred = Merged(flight[a])],
         UNCHANGED <<dead, issued, clock, admin, usage, entry, backoff, lost>>, events' \in Nat,
         \/ flight' = [flight EXCEPT ![a] = [flight[a] EXCEPT !.stage = "publish", !.cfg = Merged(flight[a])]]
            /\ UNCHANGED req
         \/ EndsFailed(a, "other", None)
  PROVE  Stored(a)
<1>1. /\ flight[a] \in Flight /\ flight[a].cfg \in Credential /\ flight[a].cfg.at = a
      /\ flight[a].cfg.rt = flight[a].rt /\ row \in [cred : Credential, enabled : BOOLEAN]
  BY Here DEF GoodFlight, TypeInv, TypeOK
<1>2. flight[a].new \in Tokens /\ a < flight[a].new /\ flight[a].new <= issued
  BY TokenOf
<1> DEFINE m == Merged(flight[a])
<1>3. /\ m \in Credential /\ m.at = flight[a].new
      /\ m.rt = (IF flight[a].rotated THEN flight[a].new ELSE flight[a].cfg.rt)
      /\ m.login = flight[a].cfg.login /\ m.usage = flight[a].cfg.usage
  BY <1>1, <1>2, MergedFields
<1> HIDE DEF m
<1>4. row' \in [cred : Credential, enabled : BOOLEAN] /\ row'.enabled = row.enabled /\ row'.cred = m
  BY <1>1, <1>3 DEF m
<1>5. CASE EndsFailed(a, "other", None)
  <2>1. Answered(None) /\ flight' = [flight EXCEPT ![a] = NoFlight]
    BY <1>5, EndsFailedIt DEF Errors, MaybeCredential, Says
  <2>2. GoodFlight(dead, issued, a, NoFlight) /\ NoFlight \in Flight
    BY NoFlightIsGood DEF GoodFlight
  <2>3. NoFlight.rt = 0 /\ NoFlight.cfg = None /\ NoFlight.stage = "none"
    BY DEF NoFlight
  <2> QED
    BY <1>1, <1>2, <1>3, <1>4, <2>1, <2>2, <2>3 DEF Stored
<1>6. CASE /\ flight' = [flight EXCEPT ![a] = [flight[a] EXCEPT !.stage = "publish", !.cfg = Merged(flight[a])]]
           /\ UNCHANGED req
  <2> DEFINE x == [flight[a] EXCEPT !.stage = "publish"]
             y == [x EXCEPT !.cfg = m]
  <2>1. flight' = [flight EXCEPT ![a] = y]
    BY <1>6 DEF m
  <2>2. x \in Flight /\ x.stage = "publish" /\ x.rt = flight[a].rt
    BY <1>1, FlightStage DEF FlightStages
  <2> HIDE DEF x
  <2>3. y \in Flight /\ y.stage = "publish" /\ y.rt = flight[a].rt /\ y.cfg = m
    BY <1>3, <2>2, FlightCfg DEF MaybeCredential
  <2> HIDE DEF y
  <2>4. GoodFlight(dead, issued, a, y)
    BY <1>3, <2>3 DEF GoodFlight
  <2> QED
    BY <1>1, <1>2, <1>3, <1>4, <1>6, <2>1, <2>3, <2>4, NobodyAnswered DEF Stored
<1> QED
  BY <1>5, <1>6

\* The provider issues a token to the flight that holds the row's tokens.
Issued(a, rotates) ==
  /\ flight[a].stage = "loaded" /\ Held(a, flight[a]) /\ flight[a].rt \notin dead
  /\ issued' \in Tokens /\ issued' = issued + 1
  /\ dead' = IF rotates THEN dead \cup {flight[a].rt} ELSE dead
  /\ lost' \in {lost, IF rotates THEN lost \cup {flight[a].rt} ELSE lost} /\ lost' \subseteq Nat
  /\ \E f \in Flight : /\ flight' = [flight EXCEPT ![a] = f] /\ GoodFlight(dead', issued', a, f)
                        /\ f.rt = flight[a].rt /\ f.cfg = flight[a].cfg
                        /\ \/ f.stage = "persist" /\ f.rotated = rotates /\ f.new = issued'
                           \/ f.stage = "failed" /\ (rotates => flight[a].rt \in lost')
  /\ events' \in Nat
  /\ UNCHANGED <<row, entry, backoff, req, usage, admin, clock>>

LEMMA RefreshIssues ==
  ASSUME TypeInv, NEW a \in Tokens, NEW rotates \in BOOLEAN, Refresh(a, rotates)
  PROVE  Issued(a, rotates)
<1>1. /\ flight[a].stage = "loaded" /\ flight[a].cfg.at = a /\ flight[a].cfg.rt = flight[a].rt
      /\ flight[a].rt \notin dead /\ issued < MaxTokens /\ issued' = issued + 1
      /\ dead' = IF rotates THEN dead \cup {flight[a].rt} ELSE dead
      /\ events' \in Nat /\ UNCHANGED <<row, entry, backoff, req, usage, admin, clock>>
  BY Here DEF Refresh, Asks, Unchanged, Issue, memory, Event, NoEvent, Flies
<1>2. flight[a].cfg \in Credential /\ flight[a].cfg.at <= issued /\ flight[a] \in Flight /\ flight[a].rt \in Nat
  BY <1>1, Here DEF GoodFlight
<1>3. issued' \in Tokens /\ issued' \in Nat /\ a < issued' /\ issued \in Nat
  BY <1>1, <1>2, Here, BoundAssumption DEF Tokens, TypeInv, TypeOK
<1>4. Held(a, flight[a])
  BY <1>1 DEF Held
<1> DEFINE x == [flight[a] EXCEPT !.stage = "persist"]
           y == [x EXCEPT !.new = issued + 1]
           z == [y EXCEPT !.rotated = rotates]
           u == [flight[a] EXCEPT !.stage = "failed"]
           v == [u EXCEPT !.err = "other"]
<1>5. CASE flight' = [flight EXCEPT ![a] = z] /\ UNCHANGED lost
  <2>1. x \in Flight /\ x.stage = "persist" /\ x.rt = flight[a].rt /\ x.cfg = flight[a].cfg
    BY <1>2, FlightStage DEF FlightStages
  <2> HIDE DEF x
  <2>2. y \in Flight /\ y.stage = "persist" /\ y.rt = flight[a].rt /\ y.cfg = flight[a].cfg /\ y.new = issued'
    BY <1>1, <1>3, <2>1, FlightNew
  <2> HIDE DEF y
  <2>3. /\ z \in Flight /\ z.stage = "persist" /\ z.rt = flight[a].rt /\ z.cfg = flight[a].cfg
        /\ z.new = issued' /\ z.rotated = rotates
    BY <2>2, FlightRotated
  <2> HIDE DEF z
  <2>4. GoodFlight(dead', issued', a, z)
    BY <1>1, <1>2, <1>3, <2>3 DEF GoodFlight
  <2> QED
    BY <1>1, <1>3, <1>4, <1>5, <2>3, <2>4, Here DEF Issued
<1>6. CASE /\ flight' = [flight EXCEPT ![a] = v]
           /\ lost' = IF rotates THEN lost \cup {flight[a].rt} ELSE lost
  <2>1. u \in Flight /\ u.stage = "failed" /\ u.rt = flight[a].rt /\ u.cfg = flight[a].cfg
    BY <1>2, FlightStage DEF FlightStages
  <2> HIDE DEF u
  <2>2. v \in Flight /\ v.stage = "failed" /\ v.rt = flight[a].rt /\ v.cfg = flight[a].cfg /\ v.err = "other"
    BY <2>1, FlightErr DEF Errors
  <2> HIDE DEF v
  <2>3. GoodFlight(dead', issued', a, v)
    BY <1>1, <1>2, <1>3, <2>2 DEF GoodFlight, Says
  <2> QED
    BY <1>1, <1>2, <1>3, <1>4, <1>6, <2>2, <2>3, Here DEF Issued
<1> QED
  BY <1>5, <1>6 DEF Refresh, Goes

-----------------------------------------------------------------------------
(* The types are kept                                                       *)

LEMMA Rebuild ==
  ASSUME Frame', req' \in [Requests -> Request], \A r \in Requests : GoodRequest(dead', req'[r]),
         flight' \in [Tokens -> Flight], \A a \in Tokens : GoodFlight(dead', issued', a, flight'[a])
  PROVE  TypeInv'
BY DEF TypeInv, TypeOK, Sound, Frame

LEMMA InitTypes == Init => TypeInv
<1> SUFFICES ASSUME Init PROVE TypeInv
  OBVIOUS
<1>1. Frame
  BY TokensAreNumbers DEF Init, Frame, Credential, MaybeCredential, NoBackoff, AdminIdle
<1>2. /\ req \in [Requests -> Request] /\ \A r \in Requests : GoodRequest(dead, req[r])
  BY NobodyIsGood DEF Init, GoodRequest
<1>3. /\ flight \in [Tokens -> Flight] /\ \A a \in Tokens : GoodFlight(dead, issued, a, flight[a])
  BY NoFlightIsGood DEF Init, GoodFlight
<1> QED
  BY <1>1, <1>2, <1>3, TypeInvParts

\* The row keeps its tokens, and the channel is disabled only when refused.
Quiet ==
  /\ SameTokens(row'.cred, row.cred) /\ row'.cred.login = row.cred.login
  /\ row'.cred.usage >= row.cred.usage
  /\ row.enabled /\ ~row'.enabled => row.cred.rt \in dead

\* Steps that leave flights, tokens and the tokens of the row alone.
Aside ==
  /\ row' \in [cred : Credential, enabled : BOOLEAN] /\ Quiet
  /\ entry' \in MaybeCredential
  /\ backoff' \in {backoff, NoBackoff}
  /\ usage' \in [stage : {"idle", "swap", "drop"}, cfg : MaybeCredential]
  /\ usage'.stage = "swap" => usage'.cfg \in Credential
  /\ admin' \in [stage : {"idle", "read", "swap", "enable", "forget"},
                 cfg : MaybeCredential, new : MaybeCredential]
  /\ admin'.stage \in {"read", "swap"} => admin.stage \in {"read", "swap"} /\ admin'.new = admin.new
  /\ clock' \in [due : Nat, expired : Nat]
  /\ events' \in Nat
  /\ UNCHANGED <<flight, issued, dead, lost>>

LEMMA RowUntouched ==
  ASSUME TypeInv, row' = row \/ (row'.cred = row.cred /\ row'.enabled)
  PROVE  Quiet
<1>1. row.cred.usage \in Nat
  BY DEF TypeInv, TypeOK, Credential
<1> QED
  BY <1>1 DEF SameTokens, Quiet

LEMMA AsideKeepsTypes ==
  ASSUME TypeInv, Aside, req' = req \/ \E r \in Requests : RequestMoves(r)
  PROVE  TypeInv'
<1>1. Frame'
  BY TypeInvParts DEF Frame, Aside, Quiet, NoBackoff, SameTokens
<1>2. req' = req \/ \E r \in Requests, q \in Request : req' = [req EXCEPT ![r] = q] /\ GoodRequest(dead', q)
  BY DEF RequestMoves, MovesTo, Aside, GoodRequest
<1>3. dead' = dead /\ dead' \subseteq Nat /\ issued' = issued /\ issued' \in Nat /\ flight' = flight
  BY Here, TokensAreNumbers DEF Aside, TypeInv, TypeOK
<1>4. req' \in [Requests -> Request] /\ \A r \in Requests : GoodRequest(dead', req'[r])
  BY <1>2, <1>3, RequestsStay
<1>5. flight' \in [Tokens -> Flight] /\ \A a \in Tokens : GoodFlight(dead', issued', a, flight'[a])
  BY <1>3, FlightsStay
<1> QED
  BY <1>1, <1>4, <1>5, Rebuild

LEMMA FlightKeepsTypes ==
  ASSUME TypeInv, NEW a \in Tokens, FlightMoves(a)
  PROVE  TypeInv'
<1>1. Frame'
  BY TypeInvParts DEF Frame, FlightMoves
<1>2. req' \in [Requests -> Request] /\ \A r \in Requests : GoodRequest(dead', req'[r])
  BY DEF FlightMoves, Answered
<1>3. dead' = dead /\ dead' \subseteq Nat /\ issued' = issued /\ issued' \in Nat
  BY Here DEF FlightMoves
<1>4. \E b \in Tokens, f \in Flight : flight' = [flight EXCEPT ![b] = f] /\ GoodFlight(dead', issued', b, f)
  BY <1>3 DEF FlightMoves, FlightMovesTo
<1>5. flight' \in [Tokens -> Flight] /\ \A b \in Tokens : GoodFlight(dead', issued', b, flight'[b])
  <2>1. dead \subseteq dead' /\ issued <= issued'
    BY <1>3
  <2> QED
    BY <1>3, <1>4, <2>1, FlightsStay
<1> QED
  BY <1>1, <1>2, <1>5, Rebuild

LEMMA StoredKeepsTypes ==
  ASSUME TypeInv, NEW a \in Tokens, Stored(a)
  PROVE  TypeInv'
<1>1. Frame'
  BY TypeInvParts DEF Frame, Stored
<1>2. req' \in [Requests -> Request] /\ \A r \in Requests : GoodRequest(dead', req'[r])
  BY DEF Stored, Answered
<1>3. dead' = dead /\ dead' \subseteq Nat /\ issued' = issued /\ issued' \in Nat
  BY Here DEF Stored
<1>4. \E b \in Tokens, f \in Flight : flight' = [flight EXCEPT ![b] = f] /\ GoodFlight(dead', issued', b, f)
  BY <1>3 DEF Stored
<1>5. flight' \in [Tokens -> Flight] /\ \A b \in Tokens : GoodFlight(dead', issued', b, flight'[b])
  <2>1. dead \subseteq dead' /\ issued <= issued'
    BY <1>3
  <2> QED
    BY <1>3, <1>4, <2>1, FlightsStay
<1> QED
  BY <1>1, <1>2, <1>5, Rebuild

LEMMA IssuedKeepsTypes ==
  ASSUME TypeInv, NEW a \in Tokens, NEW rotates \in BOOLEAN, Issued(a, rotates)
  PROVE  TypeInv'
<1>1. dead \subseteq dead' /\ dead' \subseteq Nat /\ issued' \in Nat /\ issued <= issued'
  BY Here, TokensAreNumbers DEF Issued
<1>2. Frame'
  <2>1. Frame /\ issued \in Nat
    BY TypeInvParts, Here
  <2>2. row.cred.at \in Nat /\ (admin.stage \in {"read", "swap"} => admin.new.at \in Nat)
    BY <2>1, TokensAreNumbers DEF Frame, Credential
  <2> QED
    BY <1>1, <2>1, <2>2 DEF Frame, Issued
<1>3. req' \in [Requests -> Request] /\ \A r \in Requests : GoodRequest(dead', req'[r])
  BY <1>1, RequestsStay DEF Issued
<1>4. flight' \in [Tokens -> Flight] /\ \A b \in Tokens : GoodFlight(dead', issued', b, flight'[b])
  BY <1>1, FlightsStay DEF Issued
<1> QED
  BY <1>2, <1>3, <1>4, Rebuild

\* What the administrator and the quota samples do beside the tokens.
LEMMA AdminIsAside ==
  ASSUME TypeInv, ReadForLogin \/ Enable \/ Forget \/ LoginFails
  PROVE  Aside /\ req' = req /\ entry' \in {entry, None}
<1> USE DEF memory, world
<1>1. Frame
  BY TypeInvParts
<1>2. CASE ReadForLogin
  <2>1. Quiet
    BY <1>2, RowUntouched DEF ReadForLogin
  <2> QED
    BY <1>1, <1>2, <2>1 DEF ReadForLogin, Aside, Frame, AdminAt, MaybeCredential
<1>3. CASE Enable
  <2>1. row' \in [cred : Credential, enabled : BOOLEAN] /\ row'.cred = row.cred /\ row'.enabled
    BY <1>1, <1>3 DEF Enable, Frame
  <2>2. /\ admin' \in [stage : {"idle", "read", "swap", "enable", "forget"},
                        cfg : MaybeCredential, new : MaybeCredential]
        /\ admin'.stage = "forget"
    BY <1>1, <1>3 DEF Enable, Frame, AdminAt, AdminGoes
  <2> QED
    BY <1>1, <1>3, <2>1, <2>2, RowUntouched DEF Enable, Aside, Frame
<1>4. CASE Forget
  <2>1. Quiet
    BY <1>4, RowUntouched DEF Forget
  <2> QED
    BY <1>1, <1>4, <2>1 DEF Forget, Aside, Frame, AdminIdle, MaybeCredential
<1>5. CASE LoginFails
  <2>1. Quiet
    BY <1>5, RowUntouched DEF LoginFails
  <2> QED
    BY <1>1, <1>5, <2>1 DEF LoginFails, Aside, Frame, AdminIdle, MaybeCredential, Event
<1> QED
  BY <1>2, <1>3, <1>4, <1>5

LEMMA UsageIsAside ==
  ASSUME TypeInv, ReadUsage \/ SwapUsage \/ DropEntry
  PROVE  Aside /\ req' = req /\ entry' \in {entry, None}
<1> USE DEF memory, world
<1>1. Frame
  BY TypeInvParts
<1>2. CASE ReadUsage
  <2>1. Quiet
    BY <1>2, RowUntouched DEF ReadUsage
  <2> QED
    BY <1>1, <1>2, <2>1 DEF ReadUsage, Aside, Frame, MaybeCredential, Event
<1>3. CASE SwapUsage
  <2>1. /\ usage' \in [stage : {"idle", "swap", "drop"}, cfg : MaybeCredential]
        /\ usage'.stage = "swap" => usage'.cfg \in Credential
    BY <1>1, <1>3 DEF SwapUsage, Frame, MaybeCredential
  <2>2. /\ row' \in [cred : Credential, enabled : BOOLEAN] /\ Quiet
    BY <1>1, <1>3 DEF SwapUsage, Frame, SameTokens, Credential, Quiet
  <2> QED
    BY <1>1, <1>3, <2>1, <2>2 DEF SwapUsage, Aside, Frame
<1>4. CASE DropEntry
  <2>1. Quiet
    BY <1>4, RowUntouched DEF DropEntry
  <2> QED
    BY <1>1, <1>4, <2>1 DEF DropEntry, Aside, Frame, MaybeCredential
<1> QED
  BY <1>2, <1>3, <1>4

LEMMA ClockIsAside ==
  ASSUME TypeInv, Tick \/ BackoffEnds
  PROVE  Aside /\ req' = req /\ entry' \in {entry, None}
<1> USE DEF memory, world
<1>1. Frame
  BY TypeInvParts
<1>2. CASE Tick
  <2>1. Quiet
    BY <1>2, RowUntouched DEF Tick
  <2> QED
    BY <1>1, <1>2, <2>1 DEF Tick, Aside, Frame
<1>3. CASE BackoffEnds
  <2>1. Quiet
    BY <1>3, RowUntouched DEF BackoffEnds
  <2> QED
    BY <1>1, <1>3, <2>1 DEF BackoffEnds, Aside, Frame
<1> QED
  BY <1>2, <1>3

\* What a request does to the world is nothing but to disable the channel.
LEMMA RequestIsAside ==
  ASSUME TypeInv, NEW r \in Requests,
         \/ \E kind \in {"proxy", "manual"} : Start(r, kind)
         \/ Lookup(r) \/ Redirected(r) \/ RefreshFailed(r) \/ Served(r) \/ Unauthorized(r)
         \/ DisableMatches(r) \/ DisableMisses(r) \/ Recheck(r) \/ Leave(r) \/ DisableFails(r)
  PROVE  Aside /\ RequestMoves(r)
<1>1. RequestMoves(r)
  BY StartMoves, LookupMoves, RedirectedMoves, FailedMoves, UnauthorizedMoves, DisableMoves, LeaveMoves
     DEF Served, DisableMatches, Leave, DisableFails, Becomes, memory
<1>2. CASE \/ \E kind \in {"proxy", "manual"} : Start(r, kind)
           \/ Lookup(r) \/ Redirected(r) \/ RefreshFailed(r) \/ Served(r) \/ Unauthorized(r)
           \/ DisableMisses(r) \/ Recheck(r) \/ Leave(r) \/ DisableFails(r)
  <2>1. UNCHANGED <<row, backoff, flight, usage, admin, world>>
    BY <1>2 DEF Start, Lookup, Redirected, RefreshFailed, Served, Unauthorized, DisableMisses, Recheck,
                Leave, DisableFails, memory
  <2>2. events' \in Nat
    BY <1>2, TypeInvParts DEF Start, Lookup, Redirected, RefreshFailed, Served, Unauthorized, DisableMisses,
                Recheck, Leave, DisableFails, Event, NoEvent, Frame
  <2> QED
    <3>1. Quiet
      BY <2>1, RowUntouched
    <3> QED
      BY <1>1, <2>1, <2>2, <3>1, TypeInvParts DEF Aside, Frame, RequestMoves, world
<1>3. CASE DisableMatches(r)
  <2>1. /\ row' \in [cred : Credential, enabled : BOOLEAN] /\ row'.cred = row.cred
        /\ row.cred.usage \in Nat
    BY <1>3, TypeInvParts DEF DisableMatches, Frame, Credential
  <2>2. row.cred.rt \in dead
    BY <1>3 DEF DisableMatches, TypeInv, Sound, GoodRequest, Says
  <2> QED
    BY <1>1, <1>3, <2>1, <2>2, TypeInvParts
       DEF DisableMatches, Aside, Frame, SameTokens, Quiet, RequestMoves, memory, world
<1> QED
  BY <1>1, <1>2, <1>3

\* A caller joins the flight of its access token, or begins it.
Joined(r) ==
  /\ \E q : /\ req' = [req EXCEPT ![r] = q] /\ GoodRequest(dead, q)
           /\ q.cfg = req[r].cfg /\ q.mine = req[r].mine
  /\ \/ UNCHANGED flight
     \/ \E a \in Tokens, f \in Flight :
          /\ flight[a].stage = "none" /\ flight' = [flight EXCEPT ![a] = f]
          /\ GoodFlight(dead, issued, a, f)
          /\ f.stage = "begin" /\ f.rt = req[r].mine.rt /\ f.cfg = None
          /\ req[r].mine \in Credential
  /\ UNCHANGED <<row, memory, usage, admin, world, events>>

LEMMA JoinJoins ==
  ASSUME TypeInv, NEW r \in Requests, Join(r)
  PROVE  Joined(r)
<1> DEFINE q == [req[r] EXCEPT !.stage = "waiting"]
           a == Key(r)
           f == [NoFlight EXCEPT !.stage = "begin", !.rt = req[r].mine.rt]
<1>1. /\ req[r] \in Request /\ req[r].mine \in Credential /\ req[r].cfg \in Credential
      /\ Says(dead, req[r].err, req[r].blob) /\ flight \in [Tokens -> Flight]
  BY DEF Join, TypeInv, TypeOK, Sound, GoodRequest
<1>2. /\ q \in Request /\ q.stage = "waiting" /\ q.cfg = req[r].cfg /\ q.mine = req[r].mine
      /\ q.err = req[r].err /\ q.blob = req[r].blob
  BY <1>1, StageField DEF Stages
<1>3. /\ req' = [req EXCEPT ![r] = q] /\ UNCHANGED <<row, memory, usage, admin, world, events>>
      /\ flight' = IF flight[a].stage # "none" THEN flight ELSE [flight EXCEPT ![a] = f]
  BY DEF Join, Becomes
<1> HIDE DEF q
<1>4. GoodRequest(dead, q)
  BY <1>1, <1>2 DEF GoodRequest
<1>5. /\ f \in Flight /\ f.stage = "begin" /\ f.rt = req[r].mine.rt /\ f.cfg = None /\ f.err = "none"
  BY <1>1, TokensAreNumbers DEF NoFlight, Flight, Credential, MaybeCredential, Errors
<1> HIDE DEF f
<1>6. GoodFlight(dead, issued, a, f)
  BY <1>5 DEF GoodFlight
<1>7. CASE a \in Tokens
  BY <1>1, <1>2, <1>3, <1>4, <1>5, <1>6, <1>7 DEF Joined
<1>8. CASE a \notin Tokens
  <2>1. flight' = flight
    BY <1>1, <1>3, <1>8
  <2> QED
    BY <1>2, <1>3, <1>4, <2>1 DEF Joined
<1> QED
  BY <1>7, <1>8

LEMMA JoinedKeepsTypes ==
  ASSUME TypeInv, NEW r \in Requests, Joined(r)
  PROVE  TypeInv'
<1>1. Frame'
  BY TypeInvParts DEF Frame, Joined, memory, world
<1>2. /\ dead' = dead /\ dead \subseteq dead' /\ dead' \subseteq Nat
      /\ issued' = issued /\ issued' \in Nat /\ issued <= issued'
  <2>1. dead' = dead /\ issued' = issued
    BY DEF Joined, world
  <2>2. dead \subseteq Nat /\ issued \in Nat
    BY TypeInvParts, TokensAreNumbers DEF Frame
  <2> QED
    BY <2>1, <2>2
<1>3. req' \in [Requests -> Request] /\ \A s \in Requests : GoodRequest(dead', req'[s])
  <2>1. \E s \in Requests, q \in Request : req' = [req EXCEPT ![s] = q] /\ GoodRequest(dead', q)
    BY <1>2 DEF Joined, GoodRequest
  <2> QED
    BY <1>2, <2>1, RequestsStay
<1>4. flight' \in [Tokens -> Flight] /\ \A b \in Tokens : GoodFlight(dead', issued', b, flight'[b])
  <2>1. \/ flight' = flight
        \/ \E b \in Tokens, f \in Flight : flight' = [flight EXCEPT ![b] = f] /\ GoodFlight(dead', issued', b, f)
    BY <1>2 DEF Joined
  <2> QED
    BY <1>2, <2>1, FlightsStay
<1> QED
  BY <1>1, <1>3, <1>4, Rebuild

\* A new login has a token of its own.
LEMMA LoginKeepsTypes ==
  ASSUME TypeInv, Login
  PROVE  TypeInv'
<1>1. Frame /\ issued \in Nat /\ row.cred.login \in Nat /\ row.cred.at \in Nat /\ row.cred.at <= issued
  BY TypeInvParts, TokensAreNumbers DEF Frame, Credential
<1>2. /\ issued' = issued + 1 /\ issued' \in Tokens /\ dead' = dead
  BY <1>1, BoundAssumption DEF Login, Issue, Tokens
<1> DEFINE c == [login |-> row.cred.login + 1, at |-> issued + 1, rt |-> issued + 1, usage |-> 0]
<1>3. c \in Credential /\ c.at = issued' /\ c.login = row.cred.login + 1
  BY <1>1, <1>2 DEF Credential
<1>4. admin' = [stage |-> "read", cfg |-> None, new |-> c]
  BY DEF Login
<1> HIDE DEF c
<1>5. /\ admin' \in [stage : {"idle", "read", "swap", "enable", "forget"},
                      cfg : MaybeCredential, new : MaybeCredential]
      /\ admin'.new = c
  BY <1>3, <1>4 DEF MaybeCredential
<1>6. UNCHANGED <<row, entry, backoff, flight, req, usage, clock, lost>> /\ events' \in Nat
  BY <1>1 DEF Login, Issue, Event, memory, Frame
<1>7. Frame'
  BY <1>1, <1>2, <1>3, <1>5, <1>6 DEF Frame
<1>8. dead \subseteq dead' /\ dead' \subseteq Nat /\ issued' \in Nat /\ issued <= issued'
  BY <1>1, <1>2 DEF Frame
<1> QED
  BY <1>6, <1>7, <1>8, RequestsStay, FlightsStay, Rebuild

LEMMA SwapLoginKeepsTypes ==
  ASSUME TypeInv, SwapLogin
  PROVE  TypeInv'
<1>1. Frame
  BY TypeInvParts
<1>2. UNCHANGED <<entry, backoff, flight, req, usage, issued, dead, lost, clock, events>>
  BY DEF SwapLogin, memory, world
<1>3. Frame'
  <2>1. admin.new \in Credential /\ admin.new.at <= issued /\ admin.new.login = row.cred.login + 1
    BY <1>1 DEF SwapLogin, AdminAt, Frame
  <2>2. CASE row.cred = admin.cfg
    <3>1. row' = [row EXCEPT !.cred = [admin.new EXCEPT !.usage = row.cred.usage]] /\ AdminGoes("enable")
      BY <2>2 DEF SwapLogin
    <3>2. row' \in [cred : Credential, enabled : BOOLEAN] /\ row'.cred.at = admin.new.at
      BY <1>1, <2>1, <3>1 DEF Frame, Credential
    <3>3. /\ admin' \in [stage : {"idle", "read", "swap", "enable", "forget"},
                          cfg : MaybeCredential, new : MaybeCredential]
          /\ admin'.stage = "enable"
      BY <1>1, <3>1 DEF Frame, AdminGoes
    <3> QED
      BY <1>1, <1>2, <2>1, <3>2, <3>3 DEF Frame
  <2>3. CASE row.cred # admin.cfg
    <3>1. row' = row /\ admin' = [admin EXCEPT !.stage = "read"]
      BY <2>3 DEF SwapLogin, AdminGoes
    <3>2. /\ admin' \in [stage : {"idle", "read", "swap", "enable", "forget"},
                          cfg : MaybeCredential, new : MaybeCredential]
          /\ admin'.new = admin.new
      BY <1>1, <3>1 DEF Frame
    <3> QED
      BY <1>1, <1>2, <2>1, <3>1, <3>2 DEF Frame
  <2> QED
    BY <2>2, <2>3
<1> QED
  BY <1>2, <1>3, TypeInvParts, Rebuild

LEMMA RevokeKeepsTypes ==
  ASSUME TypeInv, Revoke
  PROVE  TypeInv'
<1>1. Frame /\ issued \in Nat /\ row.cred.rt \in Nat
  BY TypeInvParts, TokensAreNumbers DEF Frame, Credential
<1>2. /\ UNCHANGED <<row, entry, backoff, flight, req, usage, admin, issued, clock>> /\ events' \in Nat
      /\ dead' = dead \cup {row.cred.rt} /\ lost' = lost \cup {row.cred.rt}
  BY <1>1 DEF Revoke, Event, memory, Frame
<1>3. Frame'
  BY <1>1, <1>2 DEF Frame
<1>4. dead \subseteq dead' /\ dead' \subseteq Nat /\ issued' \in Nat /\ issued <= issued'
  <2>1. dead \subseteq dead' /\ dead' \subseteq Nat
    BY <1>2, <1>3 DEF Frame
  <2>2. issued' = issued
    BY <1>2
  <2> QED
    BY <1>1, <2>1, <2>2
<1> QED
  BY <1>2, <1>3, <1>4, RequestsStay, FlightsStay, Rebuild

LEMMA CrashKeepsTypes ==
  ASSUME TypeInv, Crash
  PROVE  TypeInv'
<1>1. Frame
  BY TypeInvParts
<1>2. lost' \subseteq Nat
  <2>1. \A a \in Tokens : Wasted(a) \subseteq Nat
    BY Here DEF Wasted
  <2>2. lost \subseteq Nat /\ UNION {Wasted(a) : a \in {b \in Tokens : flight[b].stage \in {"persist", "reread"}}} \subseteq Nat
    BY <1>1, <2>1 DEF Frame
  <2> QED
    BY <2>2 DEF Crash
<1>3. Frame'
  <2>1. /\ row' = row /\ issued' = issued /\ dead' = dead /\ clock' = clock /\ entry' = None
        /\ backoff' = NoBackoff /\ usage' = [stage |-> "idle", cfg |-> None] /\ admin' = AdminIdle
        /\ events' \in Nat
    BY <1>1 DEF Crash, Event, Frame
  <2>2. /\ backoff' \in [kind : {"none", "early", "refused"}, token : Nat] /\ backoff'.kind = "none"
        /\ usage' \in [stage : {"idle", "swap", "drop"}, cfg : MaybeCredential] /\ usage'.stage = "idle"
        /\ admin' \in [stage : {"idle", "read", "swap", "enable", "forget"},
                        cfg : MaybeCredential, new : MaybeCredential]
        /\ admin'.stage = "idle" /\ entry' \in MaybeCredential
    BY <2>1 DEF NoBackoff, AdminIdle, MaybeCredential
  <2> QED
    BY <1>1, <1>2, <2>1, <2>2 DEF Frame
<1>4. req' \in [Requests -> Request] /\ \A r \in Requests : GoodRequest(dead, req'[r])
  BY NobodyIsGood DEF Crash, GoodRequest
<1>5. flight' \in [Tokens -> Flight] /\ \A a \in Tokens : GoodFlight(dead, issued, a, flight'[a])
  BY NoFlightIsGood DEF Crash, GoodFlight
<1>6. dead' = dead /\ issued' = issued
  BY DEF Crash
<1> QED
  BY <1>3, <1>4, <1>5, <1>6, Rebuild

-----------------------------------------------------------------------------
(* Every step is of one of these kinds                                      *)

Kinds ==
  \/ /\ Aside
     /\ \/ UNCHANGED req /\ entry' \in {entry, None}
        \/ \E r \in Requests : RequestMoves(r)
  \/ \E r \in Requests : Joined(r)
  \/ \E a \in Tokens : FlightMoves(a) \/ Stored(a) \/ \E rotates \in BOOLEAN : Issued(a, rotates)
  \/ Login \/ SwapLogin \/ Revoke \/ Crash

LEMMA EveryStep ==
  ASSUME TypeInv, [Next]_vars
  PROVE  Kinds
<1>1. ASSUME NEW r \in Requests,
             \/ \E kind \in {"proxy", "manual"} : Start(r, kind)
             \/ RequestStep(r) \/ Leave(r) \/ DisableFails(r)
      PROVE  Kinds
  <2>1. CASE Join(r)
    BY <2>1, JoinJoins DEF Kinds
  <2>2. CASE ~Join(r)
    <3>1. Aside /\ RequestMoves(r)
      BY <1>1, <2>2, RequestIsAside DEF RequestStep
    <3> QED
      BY <3>1 DEF Kinds
  <2> QED
    BY <2>1, <2>2
<1>2. ASSUME NEW a \in Tokens, FlightStep(a) \/ PersistFails(a)
      PROVE  Kinds
  <2>1. CASE Persist(a)
    <3>1. Stored(a)
      BY <2>1, PersistStores, Here DEF Persist, Flies, Goes, memory, world
    <3> QED
      BY <3>1 DEF Kinds
  <2>2. CASE PersistFails(a)
    <3>1. CASE row' = row /\ lost' = lost \cup Wasted(a)
      BY <2>2, <3>1, QuietFlights DEF Kinds
    <3>2. CASE Flies(a, "persist") /\ row.cred = flight[a].cfg
               /\ row' = [row EXCEPT !.cred = Merged(flight[a])] /\ UNCHANGED lost
      <4>1. /\ UNCHANGED <<dead, issued, clock, admin, usage, entry, backoff, lost>> /\ events' \in Nat
            /\ EndsFailed(a, "other", None) /\ flight[a].stage = "persist"
        BY <2>2, <3>2, Here DEF PersistFails, Event, memory, Flies
      <4>2. Stored(a)
        BY <3>2, <4>1, PersistStores
      <4> QED
        BY <4>2 DEF Kinds
    <3> QED
      BY <2>2, <3>1, <3>2 DEF PersistFails
  <2>3. CASE \E rotates \in BOOLEAN : Refresh(a, rotates)
    BY <2>3, RefreshIssues DEF Kinds
  <2>4. CASE FlightStep(a) /\ ~Persist(a) /\ ~\E rotates \in BOOLEAN : Refresh(a, rotates)
    <3>1. FlightMoves(a)
      BY <2>4, QuietFlights DEF FlightStep
    <3> QED
      BY <3>1 DEF Kinds
  <2> QED
    BY <1>2, <2>1, <2>2, <2>3, <2>4
<1>3. CASE ReadUsage \/ SwapUsage \/ DropEntry
  BY <1>3, UsageIsAside DEF Kinds
<1>4. CASE AdminStep
  BY <1>4, AdminIsAside DEF AdminStep, Kinds
<1>5. CASE Tick \/ BackoffEnds
  BY <1>5, ClockIsAside DEF Kinds
<1>6. CASE Revoke \/ Crash
  BY <1>6 DEF Kinds
<1>7. CASE UNCHANGED vars
  <2>1. Aside /\ UNCHANGED req /\ entry' = entry
    <3>1. Quiet
      BY <1>7, RowUntouched DEF vars
    <3> QED
      BY <1>7, <3>1, TypeInvParts DEF vars, Aside, Frame
  <2> QED
    BY <2>1 DEF Kinds
<1> QED
  BY <1>1, <1>2, <1>3, <1>4, <1>5, <1>6, <1>7 DEF Next

LEMMA TypesKept == TypeInv /\ [Next]_vars => TypeInv'
BY EveryStep, AsideKeepsTypes, JoinedKeepsTypes, FlightKeepsTypes, StoredKeepsTypes, IssuedKeepsTypes,
   LoginKeepsTypes, SwapLoginKeepsTypes, RevokeKeepsTypes, CrashKeepsTypes
   DEF Kinds

LEMMA AlwaysTyped == Spec => []TypeInv
BY InitTypes, TypesKept, PTL DEF Spec

\* Every variable keeps its type: what a goroutine carries from stage to stage
\* is what the next stage needs, for any number of requests and refreshes.
THEOREM TypeCorrect == Spec => []TypeOK
<1>1. TypeInv => TypeOK
  BY DEF TypeInv
<1> QED
  BY <1>1, AlwaysTyped, PTL

-----------------------------------------------------------------------------
(* What the steps do to the row                                             *)

\* A write moves the login or the access token of the row forwards, and
\* nothing takes the channel out of use that still has its grant.
RowAdvances ==
  /\ row'.cred.usage >= row.cred.usage
  /\ \/ row'.cred.login > row.cred.login
     \/ row'.cred.login = row.cred.login /\ row'.cred.at >= row.cred.at
  /\ row.enabled /\ ~row'.enabled => row.cred.rt \in dead

LEMMA EveryStepAdvances ==
  ASSUME TypeInv, Kinds
  PROVE  RowAdvances
<1>1. /\ row \in [cred : Credential, enabled : BOOLEAN] /\ row.cred.usage \in Nat
      /\ row.cred.login \in Nat /\ row.cred.at \in Nat
  BY TypeInvParts, TokensAreNumbers DEF Frame, Credential
<1>2. CASE Aside
  BY <1>1, <1>2 DEF Aside, Quiet, SameTokens, RowAdvances
<1>3. CASE \E a \in Tokens : Stored(a)
  <2>1. PICK a \in Tokens : Stored(a)
    BY <1>3
  <2>2. /\ row'.enabled = row.enabled /\ row'.cred.login = row.cred.login /\ row'.cred.usage = row.cred.usage
        /\ row'.cred.at = flight[a].new /\ row.cred.at = a /\ a < flight[a].new
    BY <2>1 DEF Stored
  <2>3. flight[a].new \in Nat
    BY <2>1, TokensAreNumbers DEF Stored
  <2> QED
    BY <1>1, <2>2, <2>3 DEF RowAdvances
<1>4. CASE SwapLogin
  <2>1. admin.new \in Credential /\ admin.new.login = row.cred.login + 1
    BY <1>4, TypeInvParts DEF SwapLogin, AdminAt, Frame
  <2>2. CASE row.cred = admin.cfg
    <3>1. row' = [row EXCEPT !.cred = [admin.new EXCEPT !.usage = row.cred.usage]]
      BY <1>4, <2>2 DEF SwapLogin
    <3>2. /\ row'.cred.usage = row.cred.usage /\ row'.cred.login = row.cred.login + 1
          /\ row'.enabled = row.enabled
      BY <1>1, <2>1, <3>1 DEF Credential
    <3> QED
      BY <1>1, <3>2 DEF RowAdvances
  <2>3. CASE row.cred # admin.cfg
    BY <1>1, <1>4, <2>3 DEF SwapLogin, RowAdvances
  <2> QED
    BY <2>2, <2>3
<1>5. CASE UNCHANGED row
  BY <1>1, <1>5 DEF RowAdvances
<1>6. \/ Aside \/ (\E a \in Tokens : Stored(a)) \/ SwapLogin \/ UNCHANGED row
  BY DEF Kinds, Joined, FlightMoves, Issued, Login, Revoke, Crash
<1> QED
  BY <1>2, <1>3, <1>4, <1>5, <1>6

\* No write of the row undoes another, whatever refreshes, logins and quota
\* samples meet there.
THEOREM WritesKept == Spec => NothingUndone
<1>1. TypeInv /\ [Next]_vars =>
        [LET c == row.cred
             d == row'.cred
         IN /\ d.usage >= c.usage
            /\ d.login > c.login \/ (d.login = c.login /\ d.at >= c.at)]_vars
  BY EveryStep, EveryStepAdvances DEF RowAdvances
<1> QED
  BY <1>1, AlwaysTyped, PTL DEF Spec, NothingUndone

\* A channel is disabled only while its grant is one that was refused, however
\* late a request learns of the refusal.
THEOREM OnlyDeadDisabled == Spec => DisabledOnlyIfDead
<1>1. TypeInv /\ [Next]_vars => [row.enabled /\ ~row'.enabled => row.cred.rt \in dead]_vars
  BY EveryStep, EveryStepAdvances DEF RowAdvances
<1> QED
  BY <1>1, AlwaysTyped, PTL DEF Spec, DisabledOnlyIfDead

-----------------------------------------------------------------------------
(* Grants: what is known of was issued, what is pending is not known of     *)

Has(c, x) == c \in Credential /\ c.rt = x

\* The grant x is dead or somewhere outside the flight or the login it was
\* issued to.
Known(x) ==
  \/ row.cred.rt = x \/ x \in dead \/ Has(entry, x)
  \/ \E r \in Requests : Has(req[r].cfg, x) \/ Has(req[r].mine, x)
  \/ \E a \in Tokens : flight[a].rt = x \/ Has(flight[a].cfg, x)

Awaited == {a \in Tokens : Pending(flight[a])}
SwapsLogin == admin.stage \in {"read", "swap"}

KnownIssued == \A x \in Tokens : Known(x) => x <= issued

\* What was issued to a flight or a login is with nobody else.
PendingFresh ==
  /\ \A a \in Awaited : ~Known(flight[a].new)
  /\ \A a, b \in Awaited : flight[a].new = flight[b].new => a = b
LoginFresh ==
  SwapsLogin => /\ ~Known(admin.new.rt) /\ admin.new.rt <= issued
                /\ \A a \in Awaited : flight[a].new # admin.new.rt

\* A grant in the row belongs to one access token, and so to one flight.
KeyOfRow ==
  \A a \in Tokens : Held(a, flight[a]) /\ flight[a].rt = row.cred.rt => row.cred.at = a

SuccessorComes ==
  row.cred.rt \in dead \ lost => \E a \in Awaited : flight[a].rt = row.cred.rt

Grants == KnownIssued /\ PendingFresh /\ LoginFresh /\ KeyOfRow /\ SuccessorComes

\* In terms of what a step does to the flights and to what is known.
LEMMA FlightTypes ==
  ASSUME TypeInv, NEW a \in Tokens
  PROVE  /\ flight \in [Tokens -> Flight]
         /\ Pending(flight[a]) => /\ flight[a].new \in Tokens /\ flight[a].new <= issued
                                  /\ Held(a, flight[a])
BY TokenOf DEF TypeInv, TypeOK, Pending, Held

\* A step that teaches nobody anything, and leaves flights, issued tokens and
\* the tokens of the row alone.
LEMMA NothingLearnt ==
  ASSUME TypeInv, Grants, UNCHANGED <<flight, issued, dead, lost>>, SameTokens(row'.cred, row.cred),
         SwapsLogin' => SwapsLogin /\ admin'.new = admin.new,
         \A x \in Tokens : Known(x)' => Known(x)
  PROVE  Grants'
<1>1. Awaited' = Awaited
  BY DEF Awaited
<1>2. \A a \in Awaited : a \in Tokens /\ flight[a].new \in Tokens
  BY FlightTypes DEF Awaited
<1>3. KnownIssued' /\ PendingFresh'
  BY <1>1, <1>2 DEF Grants, KnownIssued, PendingFresh
<1>4. LoginFresh'
  <2>1. SwapsLogin => admin.new.rt \in Tokens
    BY DEF SwapsLogin, TypeInv, Sound, Credential
  <2> QED
    BY <1>1, <2>1 DEF Grants, LoginFresh
<1>5. KeyOfRow' /\ SuccessorComes'
  BY <1>1 DEF Grants, KeyOfRow, SuccessorComes, SameTokens
<1> QED
  BY <1>3, <1>4, <1>5 DEF Grants

LEMMA MovesTeachNothing ==
  ASSUME TypeInv, NEW r \in Requests, RequestMoves(r), UNCHANGED <<flight, dead>>,
         SameTokens(row'.cred, row.cred), NEW x \in Tokens, Known(x)'
  PROVE  Known(x)
<1>1. PICK q : MovesTo(r, q)
  BY DEF RequestMoves
<1>2. req \in [Requests -> Request] /\ row.cred \in Credential
  BY DEF TypeInv, TypeOK
<1>3. Has(q.cfg, x) \/ Has(q.mine, x) => Known(x)
  BY <1>1, <1>2, NoneAssumption DEF MovesTo, Known, Has
<1>4. \A s \in Requests : Has(req'[s].cfg, x) \/ Has(req'[s].mine, x) => Known(x)
  <2> TAKE s \in Requests
  <2>1. CASE s = r
    BY <1>1, <1>2, <1>3, <2>1 DEF MovesTo
  <2>2. CASE s # r
    <3>1. req'[s] = req[s]
      BY <1>1, <1>2, <2>2 DEF MovesTo
    <3> QED
      BY <3>1 DEF Known
  <2> QED
    BY <2>1, <2>2
<1>5. Has(entry, x)' => Known(x)
  BY DEF RequestMoves, Known, Has
<1> QED
  BY <1>4, <1>5 DEF Known, SameTokens

LEMMA AsideKeepsGrants ==
  ASSUME TypeInv, Grants, Aside,
         \/ UNCHANGED req /\ entry' \in {entry, None}
         \/ \E r \in Requests : RequestMoves(r)
  PROVE  Grants'
<1>1. /\ UNCHANGED <<flight, issued, dead, lost>> /\ SameTokens(row'.cred, row.cred)
      /\ SwapsLogin' => SwapsLogin /\ admin'.new = admin.new
  BY DEF Aside, Quiet, SwapsLogin
<1>2. ASSUME NEW x \in Tokens, Known(x)'
      PROVE  Known(x)
  <2>1. CASE UNCHANGED req /\ entry' \in {entry, None}
    BY <1>1, <1>2, <2>1, NoneAssumption DEF Known, Has, SameTokens
  <2>2. CASE \E r \in Requests : RequestMoves(r)
    BY <1>1, <1>2, <2>2, MovesTeachNothing
  <2> QED
    BY <2>1, <2>2
<1> QED
  BY <1>1, <1>2, NothingLearnt

LEMMA JoinedKeepsGrants ==
  ASSUME TypeInv, Grants, NEW r \in Requests, Joined(r)
  PROVE  Grants'
<1>1. /\ UNCHANGED <<row, entry, admin, issued, dead, lost>>
      /\ req \in [Requests -> Request] /\ flight \in [Tokens -> Flight]
  BY DEF Joined, memory, world, TypeInv, TypeOK
<1>2. \A t \in Requests : req'[t].cfg = req[t].cfg /\ req'[t].mine = req[t].mine
  BY <1>1 DEF Joined
<1>3. CASE UNCHANGED flight
  BY <1>1, <1>2, <1>3, NothingLearnt DEF SameTokens, SwapsLogin, Known
<1>4. ASSUME NEW a \in Tokens, NEW f \in Flight,
             flight[a].stage = "none", flight' = [flight EXCEPT ![a] = f],
             f.stage = "begin", f.rt = req[r].mine.rt, f.cfg = None, req[r].mine \in Credential
      PROVE  Grants'
  <2>1. /\ \A b \in Tokens : b # a => flight'[b] = flight[b]
        /\ flight'[a] = f /\ ~Pending(f) /\ ~Held(a, f) /\ ~Pending(flight[a])
    BY <1>1, <1>4 DEF Pending, Held
  <2>2. Awaited' = Awaited /\ a \notin Awaited
    BY <2>1 DEF Awaited
  <2>3. \A x \in Tokens : Known(x)' => Known(x)
    BY <1>1, <1>2, <1>4, <2>1, NoneAssumption DEF Known, Has
  <2>4. \A b \in Awaited : b \in Tokens /\ flight'[b] = flight[b] /\ flight[b].new \in Tokens
    BY <2>1, <2>2, FlightTypes DEF Awaited
  <2>5. KnownIssued' /\ PendingFresh'
    BY <1>1, <2>2, <2>3, <2>4 DEF Grants, KnownIssued, PendingFresh
  <2>6. LoginFresh'
    <3>1. SwapsLogin => admin.new.rt \in Tokens
      BY DEF SwapsLogin, TypeInv, Sound, Credential
    <3> QED
      BY <1>1, <2>2, <2>3, <2>4, <3>1 DEF Grants, LoginFresh, SwapsLogin
  <2>7. KeyOfRow'
    BY <1>1, <2>1 DEF Grants, KeyOfRow
  <2>8. SuccessorComes'
    BY <1>1, <2>2, <2>4 DEF Grants, SuccessorComes
  <2> QED
    BY <2>5, <2>6, <2>7, <2>8 DEF Grants
<1> QED
  BY <1>3, <1>4 DEF Joined

LEMMA FlightKeepsGrants ==
  ASSUME TypeInv, Grants, NEW a \in Tokens, FlightMoves(a)
  PROVE  Grants'
<1>1. PICK f \in Flight : FlightMovesTo(a, f)
  BY DEF FlightMoves
<1>2. /\ UNCHANGED <<row, admin, issued, dead>> /\ lost \subseteq lost' /\ Answered(flight[a].cfg)
      /\ entry' \in {entry, flight[a].cfg} /\ flight \in [Tokens -> Flight] /\ row.cred \in Credential
  BY DEF FlightMoves, TypeInv, TypeOK
<1>3. /\ \A b \in Tokens : b # a => flight'[b] = flight[b]
      /\ flight'[a] = f
  BY <1>1, <1>2 DEF FlightMovesTo
<1>4. \A x \in Tokens : Known(x)' => Known(x)
  <2>1. ASSUME NEW x \in Tokens
        PROVE  /\ Has(f.cfg, x) => Known(x)
               /\ f.rt = x => Known(x)
               /\ \A r \in Requests : Has(req'[r].cfg, x) \/ Has(req'[r].mine, x) => Known(x)
    <3>1. Has(f.cfg, x) => Known(x)
      BY <1>1, NoneAssumption DEF FlightMovesTo, Known, Has
    <3>2. f.rt = x => Known(x)
      BY <1>1, BoundAssumption DEF FlightMovesTo, Known, Tokens
    <3>3. \A r \in Requests : Has(req'[r].cfg, x) \/ Has(req'[r].mine, x) => Known(x)
      BY <1>2, NoneAssumption DEF Answered, Known, Has
    <3> QED
      BY <3>1, <3>2, <3>3
  <2>2. \A x \in Tokens : Has(entry, x)' => Known(x)
    BY <1>2 DEF Known, Has
  <2> QED
    BY <1>2, <1>3, <2>1, <2>2 DEF Known
<1>5. \A b \in Awaited' : b \in Awaited /\ flight'[b].new = flight[b].new /\ flight'[b].rt = flight[b].rt
  BY <1>1, <1>3 DEF Awaited, FlightMovesTo
<1>6. \A b \in Awaited : b \in Tokens /\ flight[b].new \in Tokens /\ Held(b, flight[b])
  BY FlightTypes DEF Awaited
<1>7. KnownIssued' /\ PendingFresh'
  BY <1>2, <1>4, <1>5, <1>6 DEF Grants, KnownIssued, PendingFresh
<1>8. LoginFresh'
  <2>1. SwapsLogin => admin.new.rt \in Tokens
    BY DEF SwapsLogin, TypeInv, Sound, Credential
  <2> QED
    BY <1>2, <1>4, <1>5, <2>1 DEF Grants, LoginFresh, SwapsLogin
<1>9. KeyOfRow'
  BY <1>1, <1>2, <1>3 DEF Grants, KeyOfRow, FlightMovesTo
<1>10. SuccessorComes'
  <2> SUFFICES ASSUME row.cred.rt \in dead, row.cred.rt \notin lost'
               PROVE  \E b \in Awaited' : flight'[b].rt = row.cred.rt
    BY <1>2 DEF SuccessorComes
  <2>1. PICK b \in Awaited : flight[b].rt = row.cred.rt
    BY <1>2 DEF Grants, SuccessorComes
  <2>2. row.cred.at = b
    BY <1>6, <2>1 DEF Grants, KeyOfRow
  <2>3. CASE b # a
    BY <1>3, <1>6, <2>1, <2>3 DEF Awaited
  <2>4. CASE b = a
    <3>1. Pending(f) /\ f.rt = flight[a].rt
      BY <1>1, <2>1, <2>2, <2>4 DEF FlightMovesTo, Awaited
    <3> QED
      BY <1>3, <1>6, <2>1, <2>4, <3>1 DEF Awaited
  <2> QED
    BY <2>3, <2>4
<1> QED
  BY <1>7, <1>8, <1>9, <1>10 DEF Grants

\* The provider answers: the new grant is nobody's, the old one is known.
LEMMA IssuedKeepsGrants ==
  ASSUME TypeInv, Grants, NEW a \in Tokens, NEW rotates \in BOOLEAN, Issued(a, rotates)
  PROVE  Grants'
<1>1. PICK f \in Flight :
        /\ flight' = [flight EXCEPT ![a] = f] /\ f.rt = flight[a].rt /\ f.cfg = flight[a].cfg
        /\ \/ f.stage = "persist" /\ f.rotated = rotates /\ f.new = issued'
           \/ f.stage = "failed" /\ (rotates => flight[a].rt \in lost')
  BY DEF Issued
<1>2. /\ UNCHANGED <<row, admin, entry, req>> /\ lost \subseteq lost' /\ issued' = issued + 1
      /\ dead' = (IF rotates THEN dead \cup {flight[a].rt} ELSE dead) /\ flight[a].rt \notin dead
      /\ Held(a, flight[a]) /\ ~Pending(flight[a]) /\ issued \in Nat /\ issued' \in Tokens
      /\ flight \in [Tokens -> Flight] /\ Tokens \subseteq Nat
  BY TokensAreNumbers DEF Issued, Pending, TypeInv, TypeOK
<1>3. /\ \A b \in Tokens : b # a => flight'[b] = flight[b]
      /\ flight'[a] = f
  BY <1>1, <1>2
<1>4. \A x \in Tokens : Known(x)' => Known(x)
  BY <1>1, <1>2, <1>3 DEF Known
<1>5. \A b \in Awaited : b \in Tokens /\ b # a /\ flight[b].new \in Tokens /\ flight[b].new <= issued
  BY <1>2, FlightTypes DEF Awaited
<1>6. \A b \in Awaited' : \/ b = a /\ flight'[b].new = issued'
                          \/ b \in Awaited /\ flight'[b] = flight[b]
  BY <1>1, <1>3 DEF Awaited, Pending
<1>7. ~Known(issued')
  BY <1>2 DEF Grants, KnownIssued
<1>8. KnownIssued'
  BY <1>2, <1>4 DEF Grants, KnownIssued
<1>9. PendingFresh'
  <2>1. \A b \in Awaited' : flight'[b].new \in Tokens /\ ~Known(flight'[b].new)
    BY <1>2, <1>5, <1>6, <1>7 DEF Grants, PendingFresh
  <2>2. \A b, c \in Awaited' : flight'[b].new = flight'[c].new => b = c
    BY <1>2, <1>5, <1>6 DEF Grants, PendingFresh
  <2> QED
    BY <1>4, <2>1, <2>2 DEF PendingFresh
<1>10. LoginFresh'
  <2>1. SwapsLogin => admin.new.rt \in Tokens
    BY DEF SwapsLogin, TypeInv, Sound, Credential
  <2> QED
    <3> SUFFICES ASSUME SwapsLogin
                 PROVE  /\ ~Known(admin.new.rt)' /\ admin.new.rt <= issued'
                        /\ \A b \in Awaited' : flight'[b].new # admin.new.rt
      BY <1>2 DEF LoginFresh, SwapsLogin
    <3>1. /\ ~Known(admin.new.rt) /\ admin.new.rt <= issued /\ admin.new.rt \in Nat
          /\ \A b \in Awaited : flight[b].new # admin.new.rt
      BY <1>2, <2>1 DEF Grants, LoginFresh
    <3>2. admin.new.rt <= issued' /\ admin.new.rt # issued'
      BY <1>2, <3>1
    <3> QED
      BY <1>2, <1>4, <1>6, <2>1, <3>1, <3>2
<1>11. KeyOfRow'
  BY <1>1, <1>2, <1>3 DEF Grants, KeyOfRow
<1>12. SuccessorComes'
  <2> SUFFICES ASSUME row.cred.rt \in dead', row.cred.rt \notin lost'
               PROVE  \E b \in Awaited' : flight'[b].rt = row.cred.rt
    BY <1>2 DEF SuccessorComes
  <2>1. CASE row.cred.rt \in dead
    <3>1. PICK b \in Awaited : flight[b].rt = row.cred.rt
      BY <1>2, <2>1 DEF Grants, SuccessorComes
    <3> QED
      BY <1>3, <1>5, <3>1 DEF Awaited
  <2>2. CASE row.cred.rt \notin dead
    <3>1. rotates /\ row.cred.rt = flight[a].rt
      BY <1>2, <2>2
    <3>2. Pending(f) /\ f.rt = row.cred.rt
      BY <1>1, <3>1 DEF Pending
    <3> QED
      BY <1>3, <3>2 DEF Awaited
  <2> QED
    BY <2>1, <2>2
<1> QED
  BY <1>8, <1>9, <1>10, <1>11, <1>12 DEF Grants

\* What was pending is in the row, and its flight has nothing more to store.
LEMMA StoredKeepsGrants ==
  ASSUME TypeInv, Grants, NEW a \in Tokens, Stored(a)
  PROVE  Grants'
<1>1. PICK f \in Flight :
        /\ flight' = [flight EXCEPT ![a] = f] /\ f.rt \in {0, flight[a].rt}
        /\ f.cfg \in {None, row'.cred} /\ f.stage \in {"none", "publish"}
  BY DEF Stored
<1>2. /\ UNCHANGED <<admin, entry, issued, dead, lost>> /\ Answered(None)
      /\ row.cred.at = a /\ row.cred.rt = flight[a].rt /\ flight[a].stage = "persist"
      /\ row'.cred.rt = (IF flight[a].rotated THEN flight[a].new ELSE flight[a].rt)
      /\ flight[a].new \in Tokens /\ flight[a].new <= issued /\ row'.cred \in Credential
      /\ flight \in [Tokens -> Flight]
  BY DEF Stored, TypeInv, TypeOK
<1>3. /\ \A b \in Tokens : b # a => flight'[b] = flight[b]
      /\ flight'[a] = f /\ ~Pending(f) /\ ~Held(a, f)
      /\ a \in Awaited <=> flight[a].rotated
  BY <1>1, <1>2 DEF Pending, Held, Awaited
<1>4. \A x \in Tokens : Known(x)' => Known(x) \/ (a \in Awaited /\ x = flight[a].new)
  <2>1. \A x \in Tokens : f.rt = x => Known(x)
    BY <1>1, BoundAssumption DEF Known, Tokens
  <2>2. \A x \in Tokens : row'.cred.rt = x => Known(x) \/ (a \in Awaited /\ x = flight[a].new)
    <3>1. CASE a \in Awaited
      BY <1>2, <1>3, <3>1
    <3>2. CASE a \notin Awaited
      BY <1>2, <1>3, <3>2 DEF Known
    <3> QED
      BY <3>1, <3>2
  <2>3. \A x \in Tokens : Has(f.cfg, x) => row'.cred.rt = x
    BY <1>1, NoneAssumption DEF Has
  <2>4. \A x \in Tokens, r \in Requests : Has(req'[r].cfg, x) \/ Has(req'[r].mine, x) => Known(x)
    BY <1>2, NoneAssumption DEF Answered, Known, Has
  <2>5. \A x \in Tokens : (x \in dead' \/ Has(entry, x)') => Known(x)
    BY <1>2 DEF Known, Has
  <2> QED
    BY <1>3, <2>1, <2>2, <2>3, <2>4, <2>5 DEF Known
<1>5. \A b \in Awaited' : b \in Awaited /\ b # a /\ b \in Tokens /\ flight'[b] = flight[b]
  BY <1>3 DEF Awaited
<1>6. \A b \in Awaited : flight[b].new \in Tokens /\ b \in Tokens /\ Held(b, flight[b])
  BY FlightTypes DEF Awaited
<1>7. KnownIssued'
  BY <1>2, <1>4 DEF Grants, KnownIssued
<1>8. PendingFresh'
  BY <1>4, <1>5, <1>6 DEF Grants, PendingFresh
<1>9. LoginFresh'
  <2>1. SwapsLogin => admin.new.rt \in Tokens
    BY DEF SwapsLogin, TypeInv, Sound, Credential
  <2> QED
    BY <1>2, <1>4, <1>5, <2>1 DEF Grants, LoginFresh, SwapsLogin
<1>10. ASSUME NEW b \in Tokens, b # a, Held(b, flight[b])
       PROVE  flight[b].rt # row'.cred.rt
  <2>1. CASE a \in Awaited
    BY <1>2, <1>3, <2>1 DEF Grants, PendingFresh, Known
  <2>2. CASE a \notin Awaited
    BY <1>2, <1>3, <1>10, <2>2 DEF Grants, KeyOfRow
  <2> QED
    BY <2>1, <2>2
<1>11. KeyOfRow'
  BY <1>3, <1>10 DEF KeyOfRow
<1>12. SuccessorComes'
  <2>1. CASE a \in Awaited
    <3>1. row'.cred.rt \notin dead
      BY <1>2, <1>3, <2>1 DEF Grants, PendingFresh, Known
    <3> QED
      BY <1>2, <3>1 DEF SuccessorComes
  <2>2. CASE a \notin Awaited
    <3>1. row.cred.rt \notin dead \ lost
      BY <1>2, <1>6, <2>2 DEF Grants, SuccessorComes, KeyOfRow
    <3> QED
      BY <1>2, <1>3, <2>2, <3>1 DEF SuccessorComes
  <2> QED
    BY <2>1, <2>2
<1> QED
  BY <1>7, <1>8, <1>9, <1>11, <1>12 DEF Grants

LEMMA LoginKeepsGrants ==
  ASSUME TypeInv, Grants, Login
  PROVE  Grants'
<1>1. /\ UNCHANGED <<row, entry, flight, req, dead, lost>>
      /\ issued' = issued + 1 /\ issued \in Nat /\ issued' \in Tokens /\ Tokens \subseteq Nat
      /\ admin'.new.rt = issued'
  BY TokensAreNumbers, BoundAssumption DEF Login, Issue, memory, TypeInv, TypeOK, Tokens
<1>2. \A x \in Tokens : Known(x)' <=> Known(x)
  BY <1>1 DEF Known
<1>3. Awaited' = Awaited /\ \A a \in Awaited : flight[a].new \in Tokens /\ flight[a].new <= issued
  BY <1>1, FlightTypes DEF Awaited
<1>4. KnownIssued' /\ PendingFresh'
  <2>1. ASSUME NEW x \in Tokens, x <= issued PROVE x <= issued'
    BY <1>1, <2>1
  <2>2. KnownIssued'
    BY <1>2, <2>1 DEF Grants, KnownIssued
  <2>3. PendingFresh'
    BY <1>1, <1>2, <1>3 DEF Grants, PendingFresh
  <2> QED
    BY <2>2, <2>3
<1>5. ~Known(issued')
  BY <1>1 DEF Grants, KnownIssued
<1>6. LoginFresh'
  BY <1>1, <1>2, <1>3, <1>5 DEF LoginFresh
<1>7. KeyOfRow' /\ SuccessorComes'
  BY <1>1, <1>3 DEF Grants, KeyOfRow, SuccessorComes
<1> QED
  BY <1>4, <1>6, <1>7 DEF Grants

LEMMA SwapLoginKeepsGrants ==
  ASSUME TypeInv, Grants, SwapLogin
  PROVE  Grants'
<1>1. /\ UNCHANGED <<entry, flight, req, issued, dead, lost>> /\ SwapsLogin
      /\ admin.new \in Credential /\ admin.new.rt \in Tokens
      /\ row \in [cred : Credential, enabled : BOOLEAN]
      /\ admin \in [stage : {"idle", "read", "swap", "enable", "forget"},
                    cfg : MaybeCredential, new : MaybeCredential]
  BY DEF SwapLogin, memory, world, SwapsLogin, AdminAt, TypeInv, TypeOK, Sound, Credential
<1>2. CASE row.cred # admin.cfg
  <2>1. row' = row /\ admin'.new = admin.new
    BY <1>1, <1>2 DEF SwapLogin, AdminGoes
  <2> QED
    BY <1>1, <2>1, NothingLearnt DEF SameTokens, Known
<1>3. CASE row.cred = admin.cfg
  <2>1. row'.cred.rt = admin.new.rt /\ admin'.stage = "enable"
    <3>1. row' = [row EXCEPT !.cred = [admin.new EXCEPT !.usage = row.cred.usage]] /\ AdminGoes("enable")
      BY <1>3 DEF SwapLogin
    <3> QED
      BY <1>1, <3>1 DEF AdminGoes, Credential
  <2>2. \A x \in Tokens : Known(x)' => Known(x) \/ x = admin.new.rt
    BY <1>1, <2>1 DEF Known
  <2>3. Awaited' = Awaited /\ \A a \in Awaited : flight[a].new \in Tokens
    BY <1>1, FlightTypes DEF Awaited
  <2>4. /\ ~Known(admin.new.rt) /\ admin.new.rt <= issued
        /\ \A a \in Awaited : flight[a].new # admin.new.rt
    BY <1>1 DEF Grants, LoginFresh
  <2>5. KnownIssued' /\ PendingFresh'
    BY <1>1, <2>2, <2>3, <2>4 DEF Grants, KnownIssued, PendingFresh
  <2>6. LoginFresh'
    BY <2>1 DEF LoginFresh, SwapsLogin
  <2>7. KeyOfRow' /\ SuccessorComes'
    BY <1>1, <2>1, <2>4 DEF KeyOfRow, SuccessorComes, Known
  <2> QED
    BY <2>5, <2>6, <2>7 DEF Grants
<1> QED
  BY <1>2, <1>3

LEMMA RevokeKeepsGrants ==
  ASSUME TypeInv, Grants, Revoke
  PROVE  Grants'
<1>1. /\ UNCHANGED <<row, entry, flight, req, issued, admin>>
      /\ dead' = dead \cup {row.cred.rt} /\ row.cred.rt \in lost'
  BY DEF Revoke, memory
<1>2. \A x \in Tokens : Known(x)' => Known(x)
  BY <1>1 DEF Known
<1>3. Awaited' = Awaited /\ \A a \in Awaited : flight[a].new \in Tokens
  BY <1>1, FlightTypes DEF Awaited
<1>4. KnownIssued' /\ PendingFresh'
  BY <1>1, <1>2, <1>3 DEF Grants, KnownIssued, PendingFresh
<1>5. LoginFresh'
  <2>1. SwapsLogin => admin.new.rt \in Tokens
    BY DEF SwapsLogin, TypeInv, Sound, Credential
  <2> QED
    BY <1>1, <1>2, <1>3, <2>1 DEF Grants, LoginFresh, SwapsLogin
<1>6. KeyOfRow' /\ SuccessorComes'
  BY <1>1 DEF Grants, KeyOfRow, SuccessorComes
<1> QED
  BY <1>4, <1>5, <1>6 DEF Grants

LEMMA CrashKeepsGrants ==
  ASSUME TypeInv, Grants, Crash
  PROVE  Grants'
<1>1. /\ UNCHANGED <<row, issued, dead>> /\ entry' = None /\ admin'.stage = "idle"
      /\ \A a \in Tokens : flight'[a] = NoFlight
      /\ \A r \in Requests : req'[r] = NoRequest
  BY DEF Crash, AdminIdle
<1>2. NoFlight.rt = 0 /\ NoFlight.cfg = None /\ ~Pending(NoFlight) /\ NoRequest.cfg = None /\ NoRequest.mine = None
      /\ \A a : ~Held(a, NoFlight)
  BY DEF NoFlight, NoRequest, Pending, Held
<1>3. \A x \in Tokens : Known(x)' => Known(x)
  BY <1>1, <1>2, NoneAssumption, BoundAssumption DEF Known, Has, Tokens
<1>4. Awaited' = {}
  BY <1>1, <1>2 DEF Awaited
<1>5. KnownIssued' /\ PendingFresh' /\ LoginFresh' /\ KeyOfRow'
  BY <1>1, <1>2, <1>3, <1>4 DEF Grants, KnownIssued, PendingFresh, LoginFresh, SwapsLogin, KeyOfRow
<1>6. SuccessorComes'
  <2>1. \A a \in Awaited : Wasted(a) = {flight[a].rt} /\ Wasted(a) \subseteq lost'
    BY DEF Crash, Awaited, Pending, Wasted
  <2>2. lost \subseteq lost'
    BY DEF Crash
  <2> QED
    BY <1>1, <2>1, <2>2 DEF Grants, SuccessorComes
<1> QED
  BY <1>5, <1>6 DEF Grants

LEMMA InitGrants == Init => Grants
<1> SUFFICES ASSUME Init PROVE Grants
  OBVIOUS
<1>1. /\ row.cred.rt = 1 /\ dead = {} /\ entry = None /\ issued = 1 /\ admin.stage = "idle"
      /\ \A a \in Tokens : flight[a] = NoFlight
      /\ \A r \in Requests : req[r] = NoRequest
  BY DEF Init, AdminIdle
<1>2. NoFlight.rt = 0 /\ NoFlight.cfg = None /\ ~Pending(NoFlight) /\ NoRequest.cfg = None /\ NoRequest.mine = None
      /\ \A a : ~Held(a, NoFlight)
  BY DEF NoFlight, NoRequest, Pending, Held
<1>3. \A x \in Tokens : Known(x) => x = 1
  BY <1>1, <1>2, NoneAssumption, BoundAssumption DEF Known, Has, Tokens
<1>4. Awaited = {}
  BY <1>1, <1>2 DEF Awaited
<1> QED
  BY <1>1, <1>2, <1>3, <1>4
     DEF Grants, KnownIssued, PendingFresh, LoginFresh, SwapsLogin, KeyOfRow, SuccessorComes

LEMMA GrantsKept == TypeInv /\ Grants /\ [Next]_vars => Grants'
BY EveryStep, AsideKeepsGrants, JoinedKeepsGrants, FlightKeepsGrants, StoredKeepsGrants, IssuedKeepsGrants,
   LoginKeepsGrants, SwapLoginKeepsGrants, RevokeKeepsGrants, CrashKeepsGrants
   DEF Kinds

\* The account is not locked out: however many requests, refreshes, logins and
\* quota samples meet, a grant is used up by one flight only, and that flight
\* still has its successor to store, unless a fault took it.
THEOREM GrantKept == Spec => []GrantNotLost
<1>1. Grants => GrantNotLost
  BY DEF Grants, SuccessorComes, GrantNotLost, Awaited, Pending
<1> QED
  BY <1>1, InitGrants, GrantsKept, AlwaysTyped, PTL DEF Spec
=============================================================================
