---------------------------- MODULE OAuthTokens -----------------------------
(***************************************************************************)
(* The OAuth server and its token store: client registration, the          *)
(* authorization code grant, the rotation of refresh tokens, the anonymous *)
(* agents whose claim an operator approves, the two purges, over the       *)
(* memory, JSON and SQLite stores. Requests run concurrently; the process  *)
(* may restart, a store write may fail, the random source may fail.        *)
(*                                                                         *)
(* Tokens are random: a pair (an access token, most often with a refresh   *)
(* token) is a number, as is a code. What the server keeps with a token    *)
(* never changes while it keeps it, so the data stand in pairs and grants  *)
(* and the maps of the code are the sets of the numbers they hold.         *)
(***************************************************************************)
EXTENDS Naturals

CONSTANTS
  Static,       \* clients of the registry file, known after every start
  Writers,      \* those of them whose configured scope is write
  Dynamic,      \* identifiers that dynamic registration can draw
  Agents,       \* identifiers that anonymous agents can draw
  Nobody,       \* the owner of what has none
  Requests,     \* requests of POST /token and POST /agent/identity/verify
  Backends,     \* the stores a deployment may configure
  SelfRegistration,                         \* allow_reader_self_registration
  CodeTTL, AccessTTL, RefreshTTL,           \* the configured lifetimes,
  AssertionTTL, ClaimTTL,                   \* and the fixed ones, in ticks
  Faults,       \* the faults that may happen: "restart", "store", "random"
  MaxFaults,    \* bound: how many of them
  MaxClock,     \* bound: ticks of the clock
  MaxCodes,     \* bound: authorization codes issued
  MaxPairs      \* bound: pairs minted

Clients == Static \cup Dynamic

ASSUME KindsDiffer ==
  /\ Writers \subseteq Static /\ Static \cap Dynamic = {} /\ Clients \cap Agents = {}
  /\ Nobody \notin Clients \cup Agents

ASSUME BackendsAreKnown == Backends \subseteq {"memory", "json", "sqlite"}

ASSUME NumbersAreNatural ==
  /\ CodeTTL \in Nat /\ AccessTTL \in Nat /\ RefreshTTL \in Nat
  /\ AssertionTTL \in Nat /\ ClaimTTL \in Nat
  /\ MaxFaults \in Nat /\ MaxClock \in Nat /\ MaxCodes \in Nat /\ MaxPairs \in Nat

ASSUME ModesAreBoolean == SelfRegistration \in BOOLEAN

VARIABLES
  backend,      \* the store this deployment has
  now,          \* the clock
  clients,      \* volatile: the clients the service knows
  codes,        \* volatile: the codes not yet taken or purged
  regs, claims, claimed, \* volatile: agents registered, with a claim token, approved
  access, refresh,       \* volatile: the tokens the running store answers from
  diskAccess, diskRefresh, \* durable: the tokens in its file
  req,          \* per request: where it is and what it holds
  grants,       \* per code issued: its data
  pairs,        \* per pair minted: its data, and the credential it came from
  born,         \* per agent: when it registered
  drawn,        \* identifiers drawn so far
  asked, minted, faults, \* counters, each with a bound
  answered      \* history: the pairs callers hold

service == <<clients, codes, regs, claims, claimed>>
store   == <<access, refresh, diskAccess, diskRefresh>>
data    == <<grants, pairs, born, drawn, asked, minted>>
vars    == <<backend, now, service, store, req, data, faults, answered>>

Codes  == 1..MaxCodes
Pairs  == 1..MaxPairs
Scopes == {"read", "write"}
Owners == Clients \cup Agents \cup {Nobody}

\* What a pair was minted from: a code, an earlier pair's refresh token, or an
\* agent's assertion.
Sources == [kind : {"code", "refresh", "assertion", "none"}, no : Nat]
Source(kind, no) == [kind |-> kind, no |-> no]

Grants  == [owner : Owners, scope : Scopes, until : Nat]
Tokens  == [from : Sources, owner : Owners, scope : Scopes, until : Nat, renew : Nat]

Steps == {"idle", "mint", "half", "rotate", "assert", "approve", "answer"}

\* A request: its step, whose it is, the code or refresh token it presented,
\* when it read the clock, the pair it minted.
Calls == [at : Steps, who : Owners, no : Nat, clock : Nat, pair : Nat]

NoCall  == [at |-> "idle", who |-> Nobody, no |-> 0, clock |-> 0, pair |-> 0]
NoGrant == [owner |-> Nobody, scope |-> "read", until |-> 0]
NoToken == [from |-> Source("none", 0), owner |-> Nobody, scope |-> "read",
            until |-> 0, renew |-> 0]

Init ==
  /\ backend \in Backends
  /\ now = 0
  /\ clients = Static
  /\ codes = {} /\ regs = {} /\ claims = {} /\ claimed = {}
  /\ access = {} /\ refresh = {} /\ diskAccess = {} /\ diskRefresh = {}
  /\ req = [r \in Requests |-> NoCall]
  /\ grants = [k \in Codes |-> NoGrant]
  /\ pairs = [n \in Pairs |-> NoToken]
  /\ born = [a \in Agents |-> 0]
  /\ drawn = {}
  /\ asked = 0 /\ minted = 0 /\ faults = 0
  /\ answered = {}

---------------------------------------------------------------------------
\* The store. Each operation is one step: the memory and JSON stores hold
\* their mutex throughout, SQLite has one connection.

Durable == backend # "memory"

Fault(kind) ==
  /\ kind \in Faults /\ faults < MaxFaults
  /\ faults' = faults + 1

\* Mutant: the operation forgets to save.
SavesNothing(a, r) ==
  /\ access' = a /\ refresh' = r
  /\ UNCHANGED <<diskAccess, diskRefresh>>

\* An operation that leaves the access tokens a and the refresh tokens r.
Saves(a, r) ==
  /\ access' = a /\ refresh' = r
  /\ diskAccess'  = IF Durable THEN a ELSE diskAccess
  /\ diskRefresh' = IF Durable THEN r ELSE diskRefresh

\* One that fails: JSON has changed its maps before it saves, SQLite nothing.
FailsToSave(a, r) ==
  /\ Durable /\ Fault("store")
  /\ access'  = IF backend = "json" THEN a ELSE access
  /\ refresh' = IF backend = "json" THEN r ELSE refresh
  /\ UNCHANGED <<diskAccess, diskRefresh>>

---------------------------------------------------------------------------
\* Registration and authorization.

Register(c) ==
  /\ c \in Dynamic \ drawn
  /\ clients' = clients \cup {c}
  /\ drawn' = drawn \cup {c}
  /\ UNCHANGED <<backend, now, codes, regs, claims, claimed, store, req, grants, pairs, born,
                 asked, minted, faults, answered>>

Allowed(c) == IF c \in Writers THEN "write" ELSE "read"

\* The scope asked for, the client's own when none is, never more than that.
ResolveScope(c, want) == IF want \in {"unset", "write"} THEN Allowed(c) ELSE "read"

Authorize(c, want) ==
  /\ c \in clients /\ asked < MaxCodes
  /\ asked' = asked + 1
  /\ codes' = codes \cup {asked + 1}
  /\ grants' = [grants EXCEPT ![asked + 1] = [owner |-> c, scope |-> ResolveScope(c, want),
                                              until |-> now + CodeTTL]]
  /\ UNCHANGED <<backend, now, clients, regs, claims, claimed, store, req, pairs, born, drawn,
                 minted, faults, answered>>

---------------------------------------------------------------------------
\* POST /token. A client presents what it was given, as often as it likes and
\* in several requests at once. What is refused without a change is left out.

Goto(r, call) == req' = [req EXCEPT ![r] = call]
Become(r, step) == Goto(r, [req[r] EXCEPT !.at = step])

\* Mutant: the code stays until its pair is stored.
KeepsCode(k) == codes

WithoutCode(k) == codes \ {k}

\* The code is gone whatever the checks that follow say of it.
Takes(r, c, k, right) ==
  LET good == k \in codes /\ now <= grants[k].until /\ grants[k].owner = c /\ right IN
  /\ req[r].at = "idle"
  /\ codes' = WithoutCode(k)
  /\ IF good THEN Goto(r, [NoCall EXCEPT !.at = "mint", !.no = k]) ELSE UNCHANGED req
  /\ UNCHANGED <<backend, now, clients, regs, claims, claimed, store, data, faults, answered>>

TakeCode(r) ==
  \E c \in clients, k \in 1..asked, right \in BOOLEAN : Takes(r, c, k, right)

\* A new pair: its number and its data.
Mint(token) ==
  /\ minted < MaxPairs
  /\ minted' = minted + 1
  /\ pairs' = [pairs EXCEPT ![minted + 1] = token]

\* The first half of issueBearerPair.
AddAccess(r) ==
  LET g == grants[req[r].no]
      n == minted + 1 IN
  /\ req[r].at = "mint"
  /\ Mint([from |-> Source("code", req[r].no), owner |-> g.owner, scope |-> g.scope,
           until |-> now + AccessTTL, renew |-> 0])
  /\ \/ Saves(access \cup {n}, refresh) /\ Goto(r, [req[r] EXCEPT !.at = "half", !.pair = n])
        /\ UNCHANGED faults
     \/ FailsToSave(access \cup {n}, refresh) /\ Goto(r, NoCall)
  /\ UNCHANGED <<backend, now, service, grants, born, drawn, asked, answered>>

\* The second half.
AddRefresh(r) ==
  LET n == req[r].pair IN
  /\ req[r].at = "half"
  /\ pairs' = [pairs EXCEPT ![n].renew = now + RefreshTTL]
  /\ \/ Saves(access, refresh \cup {n}) /\ Become(r, "answer") /\ UNCHANGED faults
     \/ FailsToSave(access, refresh \cup {n}) /\ Goto(r, NoCall)
  /\ UNCHANGED <<backend, now, service, grants, born, drawn, asked, minted, answered>>

\* No random number for the next token: the request fails.
NoRandom(r) ==
  /\ req[r].at \in {"mint", "half", "assert"}
  /\ Fault("random")
  /\ Goto(r, NoCall)
  /\ UNCHANGED <<backend, now, service, store, data, answered>>

\* exchangeRefreshToken: the client is known, and the lifetimes start.
PresentRefresh(r) ==
  /\ req[r].at = "idle"
  /\ \E c \in clients, m \in answered :
       Goto(r, [NoCall EXCEPT !.at = "rotate", !.who = c, !.no = m, !.clock = now])
  /\ UNCHANGED <<backend, now, service, store, data, faults, answered>>

Redeemable(m, c) == m \in refresh /\ pairs[m].owner = c /\ now < pairs[m].renew

\* Mutant: the maps are changed before the file is saved.
LosesOld(m) == /\ Durable /\ Fault("store") /\ refresh' = refresh \ {m}
               /\ UNCHANGED <<access, diskAccess, diskRefresh>>

\* JSON saves a copy of its maps first, SQLite rolls its transaction back.
KeepsOld(m) == Durable /\ Fault("store") /\ UNCHANGED store

\* ExchangeRefreshToken of the store.
Rotate(r) ==
  LET m == req[r].no
      n == minted + 1 IN
  /\ req[r].at = "rotate" /\ Redeemable(m, req[r].who)
  /\ \/ /\ Mint([from |-> Source("refresh", m), owner |-> req[r].who, scope |-> pairs[m].scope,
                 until |-> req[r].clock + AccessTTL, renew |-> req[r].clock + RefreshTTL])
        /\ Saves(access \cup {n}, (refresh \ {m}) \cup {n})
        /\ Goto(r, [req[r] EXCEPT !.at = "answer", !.pair = n])
        /\ UNCHANGED faults
     \/ KeepsOld(m) /\ Goto(r, NoCall) /\ UNCHANGED <<pairs, minted>>
  /\ UNCHANGED <<backend, now, service, grants, born, drawn, asked, answered>>

RotateRefused(r) ==
  /\ req[r].at = "rotate" /\ ~Redeemable(req[r].no, req[r].who)
  /\ Goto(r, NoCall)
  /\ UNCHANGED <<backend, now, service, store, data, faults, answered>>

\* The response: the caller holds the pair.
Answer(r) ==
  /\ req[r].at = "answer"
  /\ answered' = answered \cup {req[r].pair}
  /\ Goto(r, NoCall)
  /\ UNCHANGED <<backend, now, service, store, data, faults>>

---------------------------------------------------------------------------
\* Anonymous agents.

RegisterAgent(a) ==
  /\ a \in Agents \ drawn
  /\ drawn' = drawn \cup {a}
  /\ born' = [born EXCEPT ![a] = now]
  /\ regs' = regs \cup {a}
  /\ claims'  = IF SelfRegistration THEN claims ELSE claims \cup {a}
  /\ claimed' = IF SelfRegistration THEN claimed \cup {a} ELSE claimed
  /\ UNCHANGED <<backend, now, clients, codes, store, req, grants, pairs, asked, minted, faults,
                 answered>>

\* ValidateBearerDetails: the token is stored and has not expired.
Accepted(n) == n \in access /\ now < pairs[n].until

\* An operator's token opens POST /agent/identity/verify ...
PresentClaim(r) ==
  /\ req[r].at = "idle"
  /\ \E a \in Agents \cap drawn, m \in answered :
       /\ Accepted(m) /\ pairs[m].scope = "write"
       /\ Goto(r, [NoCall EXCEPT !.at = "approve", !.who = a])
  /\ UNCHANGED <<backend, now, service, store, data, faults, answered>>

\* ... and verifyAgentClaim spends the claim token.
Approve(r) ==
  LET a == req[r].who
      good == a \in claims /\ a \in regs /\ now <= born[a] + ClaimTTL IN
  /\ req[r].at = "approve"
  /\ claimed' = IF good THEN claimed \cup {a} ELSE claimed
  /\ claims'  = IF good THEN claims \ {a} ELSE claims
  /\ Goto(r, NoCall)
  /\ UNCHANGED <<backend, now, clients, codes, regs, store, data, faults, answered>>

\* exchangeAgentAssertion reads the registration under the lock ...
PresentAssertion(r) ==
  /\ req[r].at = "idle"
  /\ \E a \in regs \cap claimed :
       /\ now <= born[a] + AssertionTTL
       /\ Goto(r, [NoCall EXCEPT !.at = "assert", !.who = a])
  /\ UNCHANGED <<backend, now, service, store, data, faults, answered>>

\* ... and stores a token for it without.
AddAgentAccess(r) ==
  LET n == minted + 1 IN
  /\ req[r].at = "assert"
  /\ Mint([from |-> Source("assertion", 0), owner |-> req[r].who, scope |-> "read",
           until |-> now + AccessTTL, renew |-> 0])
  /\ \/ Saves(access \cup {n}, refresh) /\ Goto(r, [req[r] EXCEPT !.at = "answer", !.pair = n])
        /\ UNCHANGED faults
     \/ FailsToSave(access \cup {n}, refresh) /\ Goto(r, NoCall)
  /\ UNCHANGED <<backend, now, service, grants, born, drawn, asked, answered>>

---------------------------------------------------------------------------
\* The purges, the clock, the restart.

LiveCodes  == {k \in codes : now <= grants[k].until}
LiveAgents == {a \in regs : now <= born[a] + AssertionTTL}

LiveClaims == claims \ (regs \ LiveAgents)

PurgeService ==
  /\ codes' = LiveCodes
  /\ regs' = LiveAgents /\ claimed' = claimed \cap LiveAgents /\ claims' = LiveClaims
  /\ UNCHANGED <<backend, now, clients, store, req, data, faults, answered>>

LiveAccess  == {n \in access : now < pairs[n].until}

\* Mutant: a refresh token is kept after its time.
EveryRefresh == refresh

LiveRefresh == {n \in refresh : now < pairs[n].renew}

\* SQLite deletes from two tables, and the second may fail.
PurgeStore ==
  /\ \/ Saves(LiveAccess, LiveRefresh) /\ UNCHANGED faults
     \/ FailsToSave(LiveAccess, LiveRefresh)
     \/ backend = "sqlite" /\ Fault("store") /\ Saves(LiveAccess, refresh)
  /\ UNCHANGED <<backend, now, service, req, data, answered>>

Tick ==
  /\ now < MaxClock
  /\ now' = now + 1
  /\ UNCHANGED <<backend, service, store, req, data, faults, answered>>

\* The process ends and another starts: the registry file and the token store
\* are read again, everything else is lost.
Restart ==
  /\ Fault("restart")
  /\ clients' = Static
  /\ codes' = {} /\ regs' = {} /\ claims' = {} /\ claimed' = {}
  /\ access' = diskAccess /\ refresh' = diskRefresh
  /\ req' = [r \in Requests |-> NoCall]
  /\ answered' = IF Durable THEN answered ELSE {}
  /\ UNCHANGED <<backend, now, diskAccess, diskRefresh, data>>

Next ==
  \/ \E c \in Clients : Register(c) \/ \E want \in Scopes \cup {"unset"} : Authorize(c, want)
  \/ \E a \in Agents : RegisterAgent(a)
  \/ \E r \in Requests :
       \/ TakeCode(r) \/ AddAccess(r) \/ AddRefresh(r) \/ NoRandom(r)
       \/ PresentRefresh(r) \/ Rotate(r) \/ RotateRefused(r) \/ Answer(r)
       \/ PresentClaim(r) \/ Approve(r) \/ PresentAssertion(r) \/ AddAgentAccess(r)
  \/ PurgeService \/ PurgeStore \/ Tick \/ Restart

\* The tickers of Server.Run call both purges for as long as the server runs.
Spec == Init /\ [][Next]_vars /\ WF_vars(PurgeService) /\ WF_vars(PurgeStore)

---------------------------------------------------------------------------
\* Properties.

TypeOK ==
  /\ backend \in Backends
  /\ now \in Nat
  /\ clients \subseteq Clients
  /\ codes \subseteq Codes
  /\ regs \subseteq Agents /\ claims \subseteq Agents /\ claimed \subseteq Agents
  /\ access \subseteq Pairs /\ refresh \subseteq Pairs
  /\ diskAccess \subseteq Pairs /\ diskRefresh \subseteq Pairs
  /\ req \in [Requests -> Calls]
  /\ grants \in [Codes -> Grants]
  /\ pairs \in [Pairs -> Tokens]
  /\ born \in [Agents -> Nat]
  /\ drawn \subseteq Dynamic \cup Agents
  /\ asked \in 0..MaxCodes /\ minted \in 0..MaxPairs /\ faults \in 0..MaxFaults
  /\ answered \subseteq Pairs

\* A code or a refresh token yields one pair at most, whatever the number of
\* requests that present it at once, again after an answer was lost, or after
\* a restart (exchangeAuthorizationCode, Store.ExchangeRefreshToken).
RedeemedOnce ==
  \A m, n \in 1..minted :
    m # n /\ pairs[m].from.kind \in {"code", "refresh"} => pairs[m].from # pairs[n].from

\* What a caller was answered with works until it expires or is exchanged: the
\* pair was stored before the answer, and a persistent store has it on disk
\* too, so that a restart does not take it back (issueBearerPair).
AnsweredSurvives ==
  \A n \in answered :
    LET rotated == \E m \in 1..minted : pairs[m].from = Source("refresh", n) IN
    /\ now < pairs[n].until => n \in access /\ (Durable => n \in diskAccess)
    /\ now < pairs[n].renew /\ ~rotated => n \in refresh /\ (Durable => n \in diskRefresh)

\* Every token with the scope write belongs to a client whose entry in the
\* registry file has it: neither dynamic registration nor an agent's claim nor
\* any chain of renewals gives more (registerClient, resolveClientScope).
WriteComesFromRegistry ==
  \A n \in 1..minted : pairs[n].scope = "write" => pairs[n].owner \in Writers

\* A claim token stands for a registration that waits for its approval: it is
\* spent with the approval and goes with the registration (verifyAgentClaim,
\* PurgeExpired).
ClaimsAwaitApproval == claims \subseteq regs \ claimed

\* A refresh token leaves the running store or its file only when it has
\* expired or together with its successor's arrival; else the running store
\* was read from its file again (Store.ExchangeRefreshToken).
Succeeded(n) ==
  \E m \in Pairs : m \in access' \cap refresh' /\ pairs'[m].from = Source("refresh", n)

RotationIsAtomic ==
  [][\A n \in Pairs : now < pairs[n].renew =>
       /\ n \in refresh \ refresh' => (Succeeded(n) \/ refresh' = diskRefresh)
       /\ n \in diskRefresh \ diskRefresh' => Succeeded(n)]_vars

\* Nothing is kept for ever after its time: again and again the service holds
\* no expired code and no claim token of an expired registration, and the
\* store no expired token (PurgeExpired, PurgeExpiredTokens).
ExpiredAreForgotten ==
  /\ []<>( /\ \A k \in codes : now <= grants[k].until
           /\ \A a \in regs \cup claims : now <= born[a] + AssertionTTL )
  /\ []<>( /\ \A n \in access : now < pairs[n].until
           /\ \A n \in refresh : now < pairs[n].renew )
=============================================================================
