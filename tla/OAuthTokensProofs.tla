------------------------- MODULE OAuthTokensProofs --------------------------
(***************************************************************************)
(* Codes and refresh tokens are redeemed once, write scope comes from the  *)
(* registry, a rotation is all or nothing, what was answered is kept, and  *)
(* a claim is spent by its approval: for any number of clients, agents,    *)
(* requests, pairs, ticks and faults, and each of the three stores.        *)
(***************************************************************************)
EXTENDS OAuthTokensInvariant, TLAPS

---------------------------------------------------------------------------
\* Types.

\* The values that stand for nothing have their types.
LEMMA EmptyTypes ==
  /\ NoCall \in Calls /\ NoGrant \in Grants /\ NoToken \in Tokens
  /\ \A kind \in {"code", "refresh", "assertion", "none"}, no \in Nat : Source(kind, no) \in Sources
BY DEF NoCall, Calls, Steps, Owners, NoGrant, Grants, Scopes, NoToken, Tokens, Sources, Source

\* The initial states are well typed.
LEMMA InitType == Init => TypeOK
BY EmptyTypes, NumbersAreNatural DEF Init, TypeOK, Clients

\* A request that moves keeps its type.
LEMMA GotoType ==
  ASSUME TypeOK, NEW r \in Requests, NEW call \in Calls, Goto(r, call)
  PROVE  req' \in [Requests -> Calls]
BY DEF TypeOK, Goto

\* A write of the store keeps its types, whether it succeeds or fails.
LEMMA StoreType ==
  ASSUME TypeOK, NEW a \in SUBSET Pairs, NEW f \in SUBSET Pairs,
         (Saves(a, f) /\ UNCHANGED faults) \/ FailsToSave(a, f)
  PROVE  /\ access' \subseteq Pairs /\ refresh' \subseteq Pairs
         /\ diskAccess' \subseteq Pairs /\ diskRefresh' \subseteq Pairs
         /\ faults' \in 0..MaxFaults
BY NumbersAreNatural DEF TypeOK, Saves, FailsToSave, Fault

\* A minted pair has a number and its data have their type.
LEMMA MintType ==
  ASSUME TypeOK, NEW token \in Tokens, Mint(token)
  PROVE  /\ minted + 1 \in Pairs /\ minted' = minted + 1 /\ minted' \in 0..MaxPairs
         /\ pairs' = [pairs EXCEPT ![minted + 1] = token] /\ pairs' \in [Pairs -> Tokens]
BY NumbersAreNatural DEF TypeOK, Mint, Pairs

\* Registration and authorization keep the types.
LEMMA AuthorizeType ==
  ASSUME TypeOK, NEW c \in Clients, NEW want \in Scopes \cup {"unset"},
         Register(c) \/ Authorize(c, want)
  PROVE  TypeOK'
<1>1. CASE Register(c)
  BY <1>1 DEF Register, TypeOK, store, Clients
<1>2. CASE Authorize(c, want)
  <2>1. ResolveScope(c, want) \in Scopes
    <3>1. Allowed(c) \in Scopes
      BY DEF Allowed, Scopes
    <3> QED
      BY <3>1 DEF ResolveScope, Scopes
  <2>0. c \in Owners
    BY DEF Owners
  <2>2. now + CodeTTL \in Nat
    BY NumbersAreNatural DEF TypeOK
  <2>3. [owner |-> c, scope |-> ResolveScope(c, want), until |-> now + CodeTTL] \in Grants
    BY <2>0, <2>1, <2>2 DEF Grants
  <2>4. asked < MaxCodes /\ asked \in 0..MaxCodes
    BY <1>2 DEF Authorize, TypeOK
  <2>5. asked + 1 \in Codes /\ asked + 1 \in 0..MaxCodes
    BY <2>4, NumbersAreNatural DEF Codes
  <2> QED
    BY <1>2, <2>3, <2>5 DEF Authorize, TypeOK, store
<1> QED
  BY <1>1, <1>2

\* The steps of a request that come before it has a pair.
Entering(r) == TakeCode(r) \/ PresentRefresh(r) \/ RotateRefused(r) \/ PresentClaim(r)
                 \/ Approve(r) \/ PresentAssertion(r) \/ NoRandom(r) \/ Answer(r)

\* The steps that mint a pair or complete it.
Minting(r) == AddAccess(r) \/ AddRefresh(r) \/ Rotate(r) \/ AddAgentAccess(r)

\* The former keep the types.
LEMMA EnteringType ==
  ASSUME TypeOK, MintedPairs, NEW r \in Requests, Entering(r)
  PROVE  TypeOK'
<1>0. req[r] \in Calls /\ NoCall \in Calls
  BY EmptyTypes DEF TypeOK
<1>1. CASE TakeCode(r)
  <2>1. PICK c \in clients, k \in 1..asked, right \in BOOLEAN : Takes(r, c, k, right)
    BY <1>1 DEF TakeCode
  <2>0. k \in Nat
    BY DEF TypeOK
  <2>2. [NoCall EXCEPT !.at = "mint", !.no = k] \in Calls
    BY <2>0 DEF NoCall, Calls, Steps, Owners
  <2>3. req' \in [Requests -> Calls]
    BY <2>1, <2>2, GotoType DEF Takes, TypeOK
  <2> QED
    BY <2>1, <2>3 DEF Takes, TypeOK, WithoutCode, store, data
<1>2. CASE PresentRefresh(r)
  <2>1. PICK c \in clients, m \in answered :
          Goto(r, [NoCall EXCEPT !.at = "rotate", !.who = c, !.no = m, !.clock = now])
    BY <1>2 DEF PresentRefresh
  <2>0. c \in Owners /\ m \in Nat /\ now \in Nat
    BY DEF TypeOK, Owners, Pairs
  <2>2. [NoCall EXCEPT !.at = "rotate", !.who = c, !.no = m, !.clock = now] \in Calls
    BY <2>0 DEF NoCall, Calls, Steps
  <2>3. req' \in [Requests -> Calls]
    BY <2>1, <2>2, GotoType
  <2> QED
    BY <1>2, <2>3 DEF PresentRefresh, TypeOK, service, store, data
<1>3. CASE RotateRefused(r)
  <2>1. req' \in [Requests -> Calls]
    BY <1>0, <1>3, GotoType DEF RotateRefused
  <2> QED
    BY <1>3, <2>1 DEF RotateRefused, TypeOK, service, store, data
<1>4. CASE PresentClaim(r)
  <2>1. PICK a \in Agents : Goto(r, [NoCall EXCEPT !.at = "approve", !.who = a])
    BY <1>4 DEF PresentClaim
  <2>2. [NoCall EXCEPT !.at = "approve", !.who = a] \in Calls
    BY DEF NoCall, Calls, Steps, Owners
  <2>3. req' \in [Requests -> Calls]
    BY <2>1, <2>2, GotoType
  <2> QED
    BY <1>4, <2>3 DEF PresentClaim, TypeOK, service, store, data
<1>5. CASE Approve(r)
  <2>1. req' \in [Requests -> Calls]
    BY <1>0, <1>5, GotoType DEF Approve
  <2>2. claimed' \subseteq Agents /\ claims' \subseteq Agents
    BY <1>5 DEF Approve, TypeOK
  <2> QED
    BY <1>5, <2>1, <2>2 DEF Approve, TypeOK, store, data
<1>6. CASE PresentAssertion(r)
  <2>1. PICK a \in regs : Goto(r, [NoCall EXCEPT !.at = "assert", !.who = a])
    BY <1>6 DEF PresentAssertion
  <2>2. [NoCall EXCEPT !.at = "assert", !.who = a] \in Calls
    BY DEF NoCall, Calls, Steps, Owners, TypeOK
  <2>3. req' \in [Requests -> Calls]
    BY <2>1, <2>2, GotoType
  <2> QED
    BY <1>6, <2>3 DEF PresentAssertion, TypeOK, service, store, data
<1>7. CASE NoRandom(r)
  <2>1. req' \in [Requests -> Calls]
    BY <1>0, <1>7, GotoType DEF NoRandom
  <2> QED
    BY <1>7, <2>1, NumbersAreNatural DEF NoRandom, Fault, TypeOK, service, store, data
<1>8. CASE Answer(r)
  <2>1. req' \in [Requests -> Calls]
    BY <1>0, <1>8, GotoType DEF Answer
  <2>2. req[r].pair \in 1..minted
    BY <1>8 DEF Answer, MintedPairs, At
  <2>3. req[r].pair \in Pairs
    BY <2>2, NumbersAreNatural DEF TypeOK, Pairs
  <2> QED
    BY <1>8, <2>1, <2>3 DEF Answer, TypeOK, service, store, data
<1> QED
  BY <1>1, <1>2, <1>3, <1>4, <1>5, <1>6, <1>7, <1>8 DEF Entering

\* A request takes the number of the pair it has minted.
LEMMA MintedType ==
  ASSUME NEW call \in Calls, NEW step \in Steps, minted + 1 \in Pairs
  PROVE  [call EXCEPT !.at = step, !.pair = minted + 1] \in Calls
<1>1. minted + 1 \in Nat
  BY NumbersAreNatural DEF Pairs
<1> QED
  BY <1>1 DEF Calls

\* The steps that mint or complete a pair keep the types.
LEMMA MintingType ==
  ASSUME TypeOK, MintedPairs, NEW r \in Requests, Minting(r)
  PROVE  TypeOK'
<1>0. req[r] \in Calls /\ NoCall \in Calls /\ now \in Nat /\ req[r].no \in Nat /\ req[r].who \in Owners
      /\ req[r].clock \in Nat /\ access \subseteq Pairs /\ refresh \subseteq Pairs
  BY EmptyTypes DEF TypeOK, Calls
<1>1. CASE AddAccess(r)
  <2> DEFINE k == req[r].no
             token == [from |-> Source("code", k), owner |-> grants[k].owner,
                       scope |-> grants[k].scope, until |-> now + AccessTTL, renew |-> 0]
  <2>1. k \in Codes
    <3>1. k \in 1..asked
      BY <1>1 DEF AddAccess, MintedPairs, At
    <3> QED
      BY <3>1, NumbersAreNatural DEF TypeOK, Codes
  <2>2. grants[k].owner \in Owners /\ grants[k].scope \in Scopes
    BY <2>1 DEF TypeOK, Grants
  <2>3. now + AccessTTL \in Nat /\ Source("code", k) \in Sources
    BY <1>0, NumbersAreNatural, EmptyTypes
  <2>4. token \in Tokens
    BY <2>2, <2>3 DEF Tokens
  <2>5. Mint(token)
    BY <1>1 DEF AddAccess
  <2>6. minted + 1 \in Pairs /\ minted' \in 0..MaxPairs /\ pairs' \in [Pairs -> Tokens]
    BY <2>4, <2>5, MintType
  <2>7. /\ access' \subseteq Pairs /\ refresh' \subseteq Pairs
        /\ diskAccess' \subseteq Pairs /\ diskRefresh' \subseteq Pairs /\ faults' \in 0..MaxFaults
    <3>1. access \cup {minted + 1} \in SUBSET Pairs /\ refresh \in SUBSET Pairs
      BY <1>0, <2>6
    <3>2. \/ Saves(access \cup {minted + 1}, refresh) /\ UNCHANGED faults
          \/ FailsToSave(access \cup {minted + 1}, refresh)
      BY <1>1 DEF AddAccess
    <3> QED
      BY <3>1, <3>2, StoreType
  <2>8. req' \in [Requests -> Calls]
    <3>1. [req[r] EXCEPT !.at = "half", !.pair = minted + 1] \in Calls
      BY <1>0, <2>6, MintedType DEF Steps
    <3>2. Goto(r, [req[r] EXCEPT !.at = "half", !.pair = minted + 1]) \/ Goto(r, NoCall)
      BY <1>1 DEF AddAccess
    <3> QED
      BY <1>0, <3>1, <3>2, GotoType
  <2> QED
    BY <1>1, <2>6, <2>7, <2>8 DEF AddAccess, TypeOK, service
<1>2. CASE AddRefresh(r)
  <2> DEFINE n == req[r].pair
  <2>1. n \in Pairs
    <3>1. n \in 1..minted
      BY <1>2 DEF AddRefresh, MintedPairs, At
    <3> QED
      BY <3>1, NumbersAreNatural DEF TypeOK, Pairs
  <2>2. pairs' \in [Pairs -> Tokens]
    <3>1. now + RefreshTTL \in Nat /\ pairs[n] \in Tokens
      BY <1>0, <2>1, NumbersAreNatural DEF TypeOK
    <3>2. [pairs[n] EXCEPT !.renew = now + RefreshTTL] \in Tokens
      BY <3>1 DEF Tokens
    <3> QED
      BY <1>2, <2>1, <3>2 DEF AddRefresh, TypeOK
  <2>3. /\ access' \subseteq Pairs /\ refresh' \subseteq Pairs
        /\ diskAccess' \subseteq Pairs /\ diskRefresh' \subseteq Pairs /\ faults' \in 0..MaxFaults
    <3>1. access \in SUBSET Pairs /\ refresh \cup {n} \in SUBSET Pairs
      BY <1>0, <2>1
    <3>2. \/ Saves(access, refresh \cup {n}) /\ UNCHANGED faults
          \/ FailsToSave(access, refresh \cup {n})
      BY <1>2 DEF AddRefresh
    <3> QED
      BY <3>1, <3>2, StoreType
  <2>4. req' \in [Requests -> Calls]
    <3>1. [req[r] EXCEPT !.at = "answer"] \in Calls
      BY <1>0 DEF Calls, Steps
    <3>2. Goto(r, [req[r] EXCEPT !.at = "answer"]) \/ Goto(r, NoCall)
      BY <1>2 DEF AddRefresh, Become
    <3> QED
      BY <1>0, <3>1, <3>2, GotoType
  <2> QED
    BY <1>2, <2>2, <2>3, <2>4 DEF AddRefresh, TypeOK, service
<1>3. CASE Rotate(r)
  <2> DEFINE m == req[r].no
             token == [from |-> Source("refresh", m), owner |-> req[r].who,
                       scope |-> pairs[m].scope, until |-> req[r].clock + AccessTTL,
                       renew |-> req[r].clock + RefreshTTL]
  <2>1. m \in Pairs /\ pairs[m].scope \in Scopes
    BY <1>0, <1>3 DEF Rotate, Redeemable, TypeOK, Tokens
  <2>2. CASE KeepsOld(m) /\ Goto(r, NoCall) /\ UNCHANGED <<pairs, minted>>
    <3>1. req' \in [Requests -> Calls]
      BY <1>0, <2>2, GotoType
    <3>2. faults' \in 0..MaxFaults
      BY <2>2, NumbersAreNatural DEF KeepsOld, Fault, TypeOK
    <3> QED
      BY <1>3, <2>2, <3>1, <3>2 DEF Rotate, KeepsOld, store, TypeOK, service
  <2>3. CASE /\ Mint(token)
             /\ Saves(access \cup {minted + 1}, (refresh \ {m}) \cup {minted + 1})
             /\ Goto(r, [req[r] EXCEPT !.at = "answer", !.pair = minted + 1])
             /\ UNCHANGED faults
    <3>1. /\ req[r].clock + AccessTTL \in Nat /\ req[r].clock + RefreshTTL \in Nat
          /\ Source("refresh", m) \in Sources
      BY <1>0, NumbersAreNatural, EmptyTypes
    <3>2. token \in Tokens
      BY <1>0, <2>1, <3>1 DEF Tokens
    <3>3. minted + 1 \in Pairs /\ minted' \in 0..MaxPairs /\ pairs' \in [Pairs -> Tokens]
      BY <2>3, <3>2, MintType
    <3>4. [req[r] EXCEPT !.at = "answer", !.pair = minted + 1] \in Calls
      BY <1>0, <3>3, MintedType DEF Steps
    <3>5. req' \in [Requests -> Calls]
      BY <2>3, <3>4, GotoType
    <3>6. access \cup {minted + 1} \in SUBSET Pairs
          /\ (refresh \ {m}) \cup {minted + 1} \in SUBSET Pairs
      BY <1>0, <3>3
    <3>7. /\ access' \subseteq Pairs /\ refresh' \subseteq Pairs
          /\ diskAccess' \subseteq Pairs /\ diskRefresh' \subseteq Pairs
          /\ faults' \in 0..MaxFaults
      BY <2>3, <3>6, StoreType
    <3> QED
      BY <1>3, <3>3, <3>5, <3>7 DEF Rotate, TypeOK, service
  <2> QED
    BY <1>3, <2>2, <2>3 DEF Rotate
<1>4. CASE AddAgentAccess(r)
  <2> DEFINE token == [from |-> Source("assertion", 0), owner |-> req[r].who, scope |-> "read",
                       until |-> now + AccessTTL, renew |-> 0]
  <2>1. now + AccessTTL \in Nat /\ Source("assertion", 0) \in Sources /\ "read" \in Scopes
    BY <1>0, NumbersAreNatural, EmptyTypes DEF Scopes
  <2>2. token \in Tokens
    BY <1>0, <2>1 DEF Tokens
  <2>3. Mint(token)
    BY <1>4 DEF AddAgentAccess
  <2>4. minted + 1 \in Pairs /\ minted' \in 0..MaxPairs /\ pairs' \in [Pairs -> Tokens]
    BY <2>2, <2>3, MintType
  <2>5. /\ access' \subseteq Pairs /\ refresh' \subseteq Pairs
        /\ diskAccess' \subseteq Pairs /\ diskRefresh' \subseteq Pairs /\ faults' \in 0..MaxFaults
    <3>1. access \cup {minted + 1} \in SUBSET Pairs /\ refresh \in SUBSET Pairs
      BY <1>0, <2>4
    <3>2. \/ Saves(access \cup {minted + 1}, refresh) /\ UNCHANGED faults
          \/ FailsToSave(access \cup {minted + 1}, refresh)
      BY <1>4 DEF AddAgentAccess
    <3> QED
      BY <3>1, <3>2, StoreType
  <2>6. req' \in [Requests -> Calls]
    <3>1. [req[r] EXCEPT !.at = "answer", !.pair = minted + 1] \in Calls
      BY <1>0, <2>4, MintedType DEF Steps
    <3>2. Goto(r, [req[r] EXCEPT !.at = "answer", !.pair = minted + 1]) \/ Goto(r, NoCall)
      BY <1>4 DEF AddAgentAccess
    <3> QED
      BY <1>0, <3>1, <3>2, GotoType
  <2> QED
    BY <1>4, <2>4, <2>5, <2>6 DEF AddAgentAccess, TypeOK, service
<1> QED
  BY <1>1, <1>2, <1>3, <1>4 DEF Minting

\* The steps that belong to no request of these kinds keep the types.
LEMMA OtherType ==
  ASSUME TypeOK,
         (\E a \in Agents : RegisterAgent(a)) \/ PurgeService \/ PurgeStore \/ Tick \/ Restart
  PROVE  TypeOK'
<1>1. ASSUME NEW a \in Agents, RegisterAgent(a) PROVE TypeOK'
  BY <1>1 DEF RegisterAgent, TypeOK, store
<1>2. CASE PurgeService
  BY <1>2 DEF PurgeService, LiveCodes, LiveAgents, LiveClaims, TypeOK, store, data
<1>3. CASE PurgeStore
  <2>1. LiveAccess \in SUBSET Pairs /\ LiveRefresh \in SUBSET Pairs /\ refresh \in SUBSET Pairs
    BY DEF LiveAccess, LiveRefresh, TypeOK
  <2>2. CASE \/ Saves(LiveAccess, LiveRefresh) /\ UNCHANGED faults
             \/ FailsToSave(LiveAccess, LiveRefresh)
    <3>1. /\ access' \subseteq Pairs /\ refresh' \subseteq Pairs
          /\ diskAccess' \subseteq Pairs /\ diskRefresh' \subseteq Pairs /\ faults' \in 0..MaxFaults
      BY <2>1, <2>2, StoreType
    <3> QED
      BY <1>3, <3>1 DEF PurgeStore, TypeOK, service, data
  <2>3. CASE Fault("store") /\ Saves(LiveAccess, refresh)
    BY <1>3, <2>1, <2>3, NumbersAreNatural DEF PurgeStore, Saves, Fault, TypeOK, service, data
  <2> QED
    BY <1>3, <2>2, <2>3 DEF PurgeStore
<1>4. CASE Tick
  BY <1>4 DEF Tick, TypeOK, service, store, data
<1>5. CASE Restart
  BY <1>5, EmptyTypes, NumbersAreNatural DEF Restart, Fault, TypeOK, data, Clients
<1> QED
  BY <1>1, <1>2, <1>3, <1>4, <1>5

---------------------------------------------------------------------------
\* Redemption.

\* A step that mints nothing, adds to no set, and leaves each request alone or
\* empty-handed.
Quiet ==
  /\ pairs' = pairs /\ minted' = minted /\ asked' = asked
  /\ codes' \subseteq codes /\ answered' \subseteq answered
  /\ access' \cup diskAccess' \subseteq access \cup diskAccess
  /\ refresh' \cup diskRefresh' \subseteq refresh \cup diskRefresh
  /\ \A r \in Requests : req'[r] = req[r] \/ req'[r].at \notin {"mint", "half", "answer"}

\* Such a step keeps all parts of the invariant.
LEMMA QuietKeeps ==
  ASSUME TypeOK, Redemption, Quiet
  PROVE  Redemption'
<1>1. MintedPairs'
  BY DEF Redemption, Quiet, MintedPairs, At
<1>2. TakenByOne'
  BY DEF Redemption, Quiet, TakenByOne, At
<1>3. SourcesSpent'
  BY DEF Redemption, Quiet, SourcesSpent
<1>4. HeldByOne'
  BY DEF Redemption, Quiet, HeldByOne, At
<1>5. RedeemedOnce'
  BY DEF Redemption, Quiet, RedeemedOnce
<1> QED
  BY <1>1, <1>2, <1>3, <1>4, <1>5 DEF Redemption

\* A request that goes anywhere but to a pair or a code leaves the others alone.
LEMMA GotoQuiet ==
  ASSUME TypeOK, NEW r \in Requests, NEW call, Goto(r, call), call.at \notin {"mint", "half", "answer"}
  PROVE  \A q \in Requests : req'[q] = req[q] \/ req'[q].at \notin {"mint", "half", "answer"}
BY DEF TypeOK, Goto

\* The steps of a request that are quiet.
LEMMA QuietRequest ==
  ASSUME TypeOK, NEW r \in Requests,
         \/ PresentRefresh(r) \/ RotateRefused(r) \/ PresentClaim(r) \/ Approve(r)
         \/ PresentAssertion(r) \/ NoRandom(r)
  PROVE  Quiet
<1>0. NoCall.at \notin {"mint", "half", "answer"}
  BY DEF NoCall
<1>1. CASE PresentRefresh(r)
  <2>1. PICK c \in clients, m \in answered :
          Goto(r, [NoCall EXCEPT !.at = "rotate", !.who = c, !.no = m, !.clock = now])
    BY <1>1 DEF PresentRefresh
  <2>2. \A q \in Requests : req'[q] = req[q] \/ req'[q].at \notin {"mint", "half", "answer"}
    BY <2>1, GotoQuiet DEF NoCall
  <2> QED
    BY <1>1, <2>2 DEF PresentRefresh, Quiet, service, store, data
<1>2. CASE RotateRefused(r)
  <2>1. \A q \in Requests : req'[q] = req[q] \/ req'[q].at \notin {"mint", "half", "answer"}
    BY <1>0, <1>2, GotoQuiet DEF RotateRefused
  <2> QED
    BY <1>2, <2>1 DEF RotateRefused, Quiet, service, store, data
<1>3. CASE PresentClaim(r)
  <2>1. PICK a \in Agents : Goto(r, [NoCall EXCEPT !.at = "approve", !.who = a])
    BY <1>3 DEF PresentClaim
  <2>2. \A q \in Requests : req'[q] = req[q] \/ req'[q].at \notin {"mint", "half", "answer"}
    BY <2>1, GotoQuiet DEF NoCall
  <2> QED
    BY <1>3, <2>2 DEF PresentClaim, Quiet, service, store, data
<1>4. CASE Approve(r)
  <2>1. \A q \in Requests : req'[q] = req[q] \/ req'[q].at \notin {"mint", "half", "answer"}
    BY <1>0, <1>4, GotoQuiet DEF Approve
  <2> QED
    BY <1>4, <2>1 DEF Approve, Quiet, store, data
<1>5. CASE PresentAssertion(r)
  <2>1. PICK a \in regs : Goto(r, [NoCall EXCEPT !.at = "assert", !.who = a])
    BY <1>5 DEF PresentAssertion
  <2>2. \A q \in Requests : req'[q] = req[q] \/ req'[q].at \notin {"mint", "half", "answer"}
    BY <2>1, GotoQuiet DEF NoCall
  <2> QED
    BY <1>5, <2>2 DEF PresentAssertion, Quiet, service, store, data
<1>6. CASE NoRandom(r)
  <2>1. \A q \in Requests : req'[q] = req[q] \/ req'[q].at \notin {"mint", "half", "answer"}
    BY <1>0, <1>6, GotoQuiet DEF NoRandom
  <2> QED
    BY <1>6, <2>1 DEF NoRandom, Quiet, service, store, data
<1> QED
  BY <1>1, <1>2, <1>3, <1>4, <1>5, <1>6

\* The steps of no request that are quiet.
LEMMA QuietOther ==
  ASSUME TypeOK,
         \/ \E c \in Clients : Register(c)
         \/ \E a \in Agents : RegisterAgent(a)
         \/ PurgeService \/ PurgeStore \/ Tick \/ Restart \/ UNCHANGED vars
  PROVE  Quiet
<1>1. ASSUME NEW c \in Clients, Register(c) PROVE Quiet
  BY <1>1 DEF Register, Quiet, store
<1>2. ASSUME NEW a \in Agents, RegisterAgent(a) PROVE Quiet
  BY <1>2 DEF RegisterAgent, Quiet, store
<1>3. CASE PurgeService
  BY <1>3 DEF PurgeService, LiveCodes, Quiet, store, data
<1>4. CASE PurgeStore
  <2>1. LiveAccess \subseteq access /\ LiveRefresh \subseteq refresh
    BY DEF LiveAccess, LiveRefresh
  <2> QED
    BY <1>4, <2>1 DEF PurgeStore, Saves, FailsToSave, Quiet, service, data
<1>5. CASE Tick
  BY <1>5 DEF Tick, Quiet, service, store, data
<1>6. CASE Restart
  BY <1>6 DEF Restart, Quiet, data, NoCall
<1>7. CASE UNCHANGED vars
  BY <1>7 DEF vars, Quiet, service, store, data
<1> QED
  BY <1>1, <1>2, <1>3, <1>4, <1>5, <1>6, <1>7

\* A new code is in nobody's hands and has yielded nothing.
LEMMA AuthorizeRedeems ==
  ASSUME TypeOK, Redemption, NEW c \in Clients, NEW want, Authorize(c, want)
  PROVE  Redemption'
<1>0. /\ asked \in Nat /\ asked' = asked + 1 /\ codes' = codes \cup {asked + 1}
      /\ UNCHANGED <<store, req, pairs, minted, answered>>
  BY NumbersAreNatural DEF Authorize, TypeOK
<1>1. MintedPairs'
  BY <1>0 DEF Redemption, MintedPairs, At, store
<1>2. TakenByOne'
  BY <1>0 DEF Redemption, MintedPairs, TakenByOne, At
<1>3. SourcesSpent'
  BY <1>0 DEF Redemption, SourcesSpent, store
<1>4. HeldByOne'
  BY <1>0 DEF Redemption, HeldByOne, At, store
<1>5. RedeemedOnce'
  BY <1>0 DEF Redemption, RedeemedOnce
<1> QED
  BY <1>1, <1>2, <1>3, <1>4, <1>5 DEF Redemption

\* A code that is taken was in the map, so in nobody's hands.
LEMMA TakesRedeems ==
  ASSUME TypeOK, Redemption, NEW r \in Requests, TakeCode(r)
  PROVE  Redemption'
<1>0. PICK c \in clients, k \in 1..asked, right \in BOOLEAN : Takes(r, c, k, right)
  BY DEF TakeCode
<1>1. /\ codes' = codes \ {k} /\ pairs' = pairs /\ minted' = minted /\ asked' = asked
      /\ answered' = answered /\ access' = access /\ diskAccess' = diskAccess
      /\ refresh' = refresh /\ diskRefresh' = diskRefresh
  BY <1>0 DEF Takes, WithoutCode, store, data
<1>2. CASE UNCHANGED req
  <2>1. Quiet
    BY <1>1, <1>2 DEF Quiet
  <2> QED
    BY <2>1, QuietKeeps
<1>3. CASE k \in codes /\ Goto(r, [NoCall EXCEPT !.at = "mint", !.no = k])
  <2>0. /\ req'[r].at = "mint" /\ req'[r].no = k /\ \A q \in Requests : q # r => req'[q] = req[q]
    BY <1>3 DEF Goto, NoCall, TypeOK
  <2>1. MintedPairs'
    BY <1>1, <2>0 DEF Redemption, MintedPairs, At
  <2>2. TakenByOne'
    BY <1>1, <1>3, <2>0, EmptyTypes DEF Redemption, TakenByOne, SourcesSpent, At, Source
  <2>3. SourcesSpent'
    BY <1>1 DEF Redemption, SourcesSpent
  <2>4. HeldByOne'
    BY <1>1, <2>0 DEF Redemption, HeldByOne, At
  <2>5. RedeemedOnce'
    BY <1>1 DEF Redemption, RedeemedOnce
  <2> QED
    BY <2>1, <2>2, <2>3, <2>4, <2>5 DEF Redemption
<1> QED
  BY <1>0, <1>2, <1>3 DEF Takes

\* An answer gives a pair nobody else has to its caller.
LEMMA AnswerRedeems ==
  ASSUME TypeOK, Redemption, NEW r \in Requests, Answer(r)
  PROVE  Redemption'
<1>0. /\ codes' = codes /\ pairs' = pairs /\ minted' = minted /\ asked' = asked
      /\ answered' = answered \cup {req[r].pair} /\ req[r].at = "answer"
      /\ access' = access /\ diskAccess' = diskAccess
      /\ refresh' = refresh /\ diskRefresh' = diskRefresh
      /\ req'[r].at = "idle" /\ \A q \in Requests : q # r => req'[q] = req[q]
  BY DEF Answer, service, store, data, Goto, NoCall, TypeOK
<1>1. MintedPairs'
  BY <1>0 DEF Redemption, MintedPairs, At
<1>2. TakenByOne'
  BY <1>0 DEF Redemption, TakenByOne, At
<1>3. SourcesSpent'
  BY <1>0 DEF Redemption, SourcesSpent
<1>4. HeldByOne'
  BY <1>0 DEF Redemption, HeldByOne, At
<1>5. RedeemedOnce'
  BY <1>0 DEF Redemption, RedeemedOnce
<1> QED
  BY <1>1, <1>2, <1>3, <1>4, <1>5 DEF Redemption

\* What a write may leave in the store.
LEMMA StoreBound ==
  ASSUME NEW a, NEW f, Saves(a, f) \/ FailsToSave(a, f)
  PROVE  /\ access' \cup diskAccess' \subseteq a \cup access \cup diskAccess
         /\ refresh' \cup diskRefresh' \subseteq f \cup refresh \cup diskRefresh
BY DEF Saves, FailsToSave

\* Minting from what no other request holds leaves the taken codes alone.
LEMMA MintKeepsTaken ==
  ASSUME TakenByOne, NEW r \in Requests, minted \in Nat, minted' = minted + 1, codes' = codes,
         \A m \in 1..minted : pairs'[m] = pairs[m],
         req'[r].at # "mint", \A q \in Requests : q # r => req'[q] = req[q],
         \A q \in Requests : q # r /\ At(q, "mint") =>
           pairs'[minted + 1].from # Source("code", req[q].no)
  PROVE  TakenByOne'
<1> SUFFICES ASSUME NEW q \in Requests, At(q, "mint")'
             PROVE  /\ req'[q].no \notin codes'
                    /\ \A i \in 1..minted' : pairs'[i].from # Source("code", req'[q].no)
                    /\ \A p \in Requests : p # q /\ At(p, "mint")' => req'[p].no # req'[q].no
  BY DEF TakenByOne
<1>1. q # r /\ req'[q] = req[q] /\ At(q, "mint")
  BY DEF At
<1>2. \A i \in 1..minted' : pairs'[i].from # Source("code", req[q].no)
  BY <1>1 DEF TakenByOne
<1>3. \A p \in Requests : p # q /\ At(p, "mint")' => req'[p].no # req'[q].no
  BY <1>1 DEF TakenByOne, At
<1> QED
  BY <1>1, <1>2, <1>3 DEF TakenByOne

\* Storing the first half spends the code the request had taken.
LEMMA AddAccessRedeems ==
  ASSUME TypeOK, Redemption, NEW r \in Requests, AddAccess(r)
  PROVE  Redemption'
<1> DEFINE k == req[r].no
           n == minted + 1
<1>0. /\ minted \in Nat /\ minted' = n /\ n \in Pairs
      /\ pairs'[n].from = Source("code", k)
      /\ \A m \in 1..minted : pairs'[m] = pairs[m]
      /\ codes' = codes /\ asked' = asked /\ answered' = answered /\ req[r].at = "mint"
  BY NumbersAreNatural DEF AddAccess, Mint, Pairs, TypeOK, service
<1>1. \/ req'[r].at = "half" /\ req'[r].pair = n
      \/ req'[r].at = "idle"
  <2>1. Goto(r, [req[r] EXCEPT !.at = "half", !.pair = n]) \/ Goto(r, NoCall)
    BY DEF AddAccess
  <2>2. req \in [Requests -> Calls]
    BY DEF TypeOK
  <2>3. CASE Goto(r, [req[r] EXCEPT !.at = "half", !.pair = n])
    BY <2>2, <2>3 DEF Goto, Calls
  <2>4. CASE Goto(r, NoCall)
    BY <2>2, <2>4 DEF Goto, NoCall
  <2> QED
    BY <2>1, <2>3, <2>4
<1>2. \A q \in Requests : q # r => req'[q] = req[q]
  BY DEF AddAccess, Goto, TypeOK
<1>3. /\ access' \cup diskAccess' \subseteq access \cup diskAccess \cup {n}
      /\ refresh' \cup diskRefresh' \subseteq refresh \cup diskRefresh
  BY StoreBound DEF AddAccess
<1>4. k \in 1..asked /\ k \notin codes
  BY <1>0 DEF Redemption, MintedPairs, TakenByOne, At
<1>5. MintedPairs'
  BY <1>0, <1>1, <1>2, <1>3 DEF Redemption, MintedPairs, At
<1>6. TakenByOne'
  <2>1. \A q \in Requests : q # r /\ At(q, "mint") => Source("code", k) # Source("code", req[q].no)
    BY <1>0 DEF Redemption, TakenByOne, At, Source
  <2> QED
    BY <1>0, <1>1, <1>2, <2>1, MintKeepsTaken DEF Redemption
<1>7. SourcesSpent'
  BY <1>0, <1>3, <1>4 DEF Redemption, SourcesSpent, Source
<1>8. HeldByOne'
  BY <1>0, <1>1, <1>2, <1>3 DEF Redemption, MintedPairs, SourcesSpent, HeldByOne, At, Source
<1>9. RedeemedOnce'
  BY <1>0 DEF Redemption, TakenByOne, RedeemedOnce, At, Source
<1> QED
  BY <1>5, <1>6, <1>7, <1>8, <1>9 DEF Redemption

\* Storing the second half puts a refresh token there that nothing came from.
LEMMA AddRefreshRedeems ==
  ASSUME TypeOK, Redemption, NEW r \in Requests, AddRefresh(r)
  PROVE  Redemption'
<1> DEFINE n == req[r].pair
<1>0. /\ n \in 1..minted /\ minted' = minted /\ req[r].at = "half"
      /\ codes' = codes /\ asked' = asked /\ answered' = answered
  BY DEF AddRefresh, Redemption, MintedPairs, At, service
<1>1. \A m \in 1..minted : pairs'[m].from = pairs[m].from /\ pairs'[m].scope = pairs[m].scope
  <2>1. 1..minted \subseteq Pairs
    BY NumbersAreNatural DEF TypeOK, Pairs
  <2> QED
    BY <2>1 DEF AddRefresh, TypeOK, Tokens
<1>2. /\ \/ req'[r].at = "answer" /\ req'[r].pair = n
         \/ req'[r].at = "idle"
      /\ \A q \in Requests : q # r => req'[q] = req[q]
  BY DEF AddRefresh, Become, Goto, NoCall, TypeOK, Calls
<1>3. /\ access' \cup diskAccess' \subseteq access \cup diskAccess
      /\ refresh' \cup diskRefresh' \subseteq refresh \cup diskRefresh \cup {n}
  BY StoreBound DEF AddRefresh
<1>5. MintedPairs'
  BY <1>0, <1>2, <1>3 DEF Redemption, MintedPairs, At
<1>6. TakenByOne'
  BY <1>0, <1>1, <1>2 DEF Redemption, TakenByOne, At
<1>4. \A i \in 1..minted : pairs[i].from.kind = "refresh" => pairs[i].from.no # n
  <2>1. \A i \in 1..minted : pairs[i].from \in Sources
    BY NumbersAreNatural DEF TypeOK, Pairs, Tokens
  <2>2. \A i \in 1..minted : pairs[i].from # Source("refresh", n)
    BY <1>0 DEF Redemption, HeldByOne, At
  <2> QED
    BY <2>1, <2>2 DEF Sources, Source
<1>7. SourcesSpent'
  BY <1>0, <1>1, <1>3, <1>4 DEF Redemption, SourcesSpent
<1>8. HeldByOne'
  BY <1>0, <1>1, <1>2, <1>3 DEF Redemption, HeldByOne, At
<1>9. RedeemedOnce'
  BY <1>0, <1>1 DEF Redemption, RedeemedOnce
<1> QED
  BY <1>5, <1>6, <1>7, <1>8, <1>9 DEF Redemption

\* A rotation spends a refresh token that was in the store.
LEMMA RotateRedeems ==
  ASSUME TypeOK, FileIfDurable, Redemption, NEW r \in Requests, Rotate(r)
  PROVE  Redemption'
<1> DEFINE m == req[r].no
           n == minted + 1
<1>1. CASE KeepsOld(m) /\ Goto(r, NoCall) /\ UNCHANGED <<pairs, minted>>
  <2>1. \A q \in Requests : req'[q] = req[q] \/ req'[q].at \notin {"mint", "half", "answer"}
    BY <1>1, GotoQuiet DEF NoCall
  <2>2. Quiet
    BY <1>1, <2>1 DEF Rotate, KeepsOld, Quiet, service, store
  <2> QED
    BY <2>2, QuietKeeps
<1>2. CASE ~(KeepsOld(m) /\ Goto(r, NoCall) /\ UNCHANGED <<pairs, minted>>)
  <2>0. /\ minted \in Nat /\ minted' = n /\ n \in Pairs
        /\ pairs'[n].from = Source("refresh", m)
        /\ \A i \in 1..minted : pairs'[i] = pairs[i]
        /\ codes' = codes /\ asked' = asked /\ answered' = answered /\ req[r].at = "rotate"
    BY <1>2, NumbersAreNatural DEF Rotate, Mint, Pairs, TypeOK, service
  <2>1. /\ req'[r].at = "answer" /\ req'[r].pair = n
        /\ \A q \in Requests : q # r => req'[q] = req[q]
    BY <1>2 DEF Rotate, Goto, TypeOK, Calls
  <2>2. m \in refresh /\ m \in 1..minted
    BY DEF Rotate, Redeemable, Redemption, MintedPairs
  <2>3. /\ access' \cup diskAccess' \subseteq access \cup diskAccess \cup {n}
        /\ refresh' \cup diskRefresh' \subseteq (refresh \cup diskRefresh \cup {n})
        /\ refresh' = (refresh \ {m}) \cup {n}
        /\ diskRefresh' = refresh' \/ diskRefresh' = {}
    BY <1>2 DEF Rotate, Saves, FileIfDurable
  <2>4. m \notin refresh' \cup diskRefresh'
    BY <2>0, <2>2, <2>3
  <2>5. MintedPairs'
    BY <2>0, <2>1, <2>3 DEF Redemption, MintedPairs, At
  <2>6. TakenByOne'
    <3>1. \A q \in Requests : Source("refresh", m) # Source("code", req[q].no)
      BY DEF Source
    <3> QED
      BY <2>0, <2>1, <3>1, MintKeepsTaken DEF Redemption
  <2>7. SourcesSpent'
    BY <2>0, <2>2, <2>3, <2>4 DEF Redemption, SourcesSpent, Source
  <2>8. HeldByOne'
    BY <2>0, <2>1, <2>2, <2>3 DEF Redemption, MintedPairs, HeldByOne, At, Source
  <2>9. RedeemedOnce'
    BY <2>0, <2>2 DEF Redemption, SourcesSpent, RedeemedOnce, Source
  <2> QED
    BY <2>5, <2>6, <2>7, <2>8, <2>9 DEF Redemption
<1> QED
  BY <1>1, <1>2

\* An agent's token comes from an assertion, which is not spent.
LEMMA AgentRedeems ==
  ASSUME TypeOK, Redemption, NEW r \in Requests, AddAgentAccess(r)
  PROVE  Redemption'
<1> DEFINE n == minted + 1
<1>0. /\ minted \in Nat /\ minted' = n /\ n \in Pairs
      /\ pairs'[n].from = Source("assertion", 0)
      /\ \A m \in 1..minted : pairs'[m] = pairs[m]
      /\ codes' = codes /\ asked' = asked /\ answered' = answered
  BY NumbersAreNatural DEF AddAgentAccess, Mint, Pairs, TypeOK, service
<1>1. \/ req'[r].at = "answer" /\ req'[r].pair = n
      \/ req'[r].at = "idle"
  <2>1. Goto(r, [req[r] EXCEPT !.at = "answer", !.pair = n]) \/ Goto(r, NoCall)
    BY DEF AddAgentAccess
  <2>2. req \in [Requests -> Calls]
    BY DEF TypeOK
  <2>3. CASE Goto(r, [req[r] EXCEPT !.at = "answer", !.pair = n])
    BY <2>2, <2>3 DEF Goto, Calls
  <2>4. CASE Goto(r, NoCall)
    BY <2>2, <2>4 DEF Goto, NoCall
  <2> QED
    BY <2>1, <2>3, <2>4
<1>2. \A q \in Requests : q # r => req'[q] = req[q]
  BY DEF AddAgentAccess, Goto, TypeOK
<1>3. /\ access' \cup diskAccess' \subseteq access \cup diskAccess \cup {n}
      /\ refresh' \cup diskRefresh' \subseteq refresh \cup diskRefresh
  BY StoreBound DEF AddAgentAccess
<1>5. MintedPairs'
  BY <1>0, <1>1, <1>2, <1>3 DEF Redemption, MintedPairs, At
<1>6. TakenByOne'
  <2>1. \A q \in Requests : Source("assertion", 0) # Source("code", req[q].no)
    BY DEF Source
  <2> QED
    BY <1>0, <1>1, <1>2, <2>1, MintKeepsTaken DEF Redemption
<1>7. SourcesSpent'
  BY <1>0, <1>3 DEF Redemption, SourcesSpent, Source
<1>8. HeldByOne'
  BY <1>0, <1>1, <1>2, <1>3 DEF Redemption, MintedPairs, HeldByOne, At, Source
<1>9. RedeemedOnce'
  BY <1>0 DEF Redemption, RedeemedOnce, Source
<1> QED
  BY <1>5, <1>6, <1>7, <1>8, <1>9 DEF Redemption

\* Only a persistent store writes a file.
LEMMA FileStep ==
  ASSUME FileIfDurable, [Next]_vars
  PROVE  FileIfDurable'
<1>1. backend' = backend /\ (Durable \/ UNCHANGED <<diskAccess, diskRefresh>>)
  <2>1. ASSUME NEW c \in Clients, NEW want \in Scopes \cup {"unset"}, Register(c) \/ Authorize(c, want)
        PROVE  backend' = backend /\ UNCHANGED <<diskAccess, diskRefresh>>
    BY <2>1 DEF Register, Authorize, store
  <2>2. ASSUME NEW r \in Requests, Entering(r)
        PROVE  backend' = backend /\ UNCHANGED <<diskAccess, diskRefresh>>
    BY <2>2 DEF Entering, TakeCode, Takes, PresentRefresh, RotateRefused, PresentClaim, Approve,
                PresentAssertion, NoRandom, Answer, store
  <2>3. ASSUME NEW r \in Requests, Minting(r)
        PROVE  backend' = backend /\ (Durable \/ UNCHANGED <<diskAccess, diskRefresh>>)
    BY <2>3 DEF Minting, AddAccess, AddRefresh, Rotate, AddAgentAccess, Saves, FailsToSave,
                KeepsOld, store
  <2>4. ASSUME NEW a \in Agents, RegisterAgent(a)
        PROVE  backend' = backend /\ UNCHANGED <<diskAccess, diskRefresh>>
    BY <2>4 DEF RegisterAgent, store
  <2>5. CASE PurgeService \/ PurgeStore \/ Tick \/ Restart \/ UNCHANGED vars
    BY <2>5 DEF PurgeService, PurgeStore, Tick, Restart, Saves, FailsToSave, store, vars
  <2> QED
    BY <2>1, <2>2, <2>3, <2>4, <2>5 DEF Next, Entering, Minting
<1> QED
  BY <1>1 DEF FileIfDurable, Durable

\* What the steps rest on, together.
Inv == TypeOK /\ FileIfDurable /\ Redemption

\* The initial states satisfy it.
LEMMA InitInv == Init => Inv
<1> SUFFICES ASSUME Init PROVE Inv
  OBVIOUS
<1>1. FileIfDurable
  BY DEF Init, FileIfDurable
<1>2. \A r \in Requests : req[r].at = "idle"
  BY DEF Init, NoCall
<1>3. MintedPairs /\ TakenByOne /\ HeldByOne
  BY <1>2 DEF Init, MintedPairs, TakenByOne, HeldByOne, At
<1>4. SourcesSpent /\ RedeemedOnce
  BY DEF Init, SourcesSpent, RedeemedOnce
<1> QED
  BY <1>1, <1>3, <1>4, InitType DEF Inv, Redemption

\* Every step keeps it.
LEMMA NextInv ==
  ASSUME Inv, [Next]_vars
  PROVE  Inv'
<1>0. TypeOK /\ FileIfDurable /\ Redemption /\ MintedPairs
  BY DEF Inv, Redemption
<1>1. FileIfDurable'
  BY <1>0, FileStep
<1>2. ASSUME NEW c \in Clients, NEW want \in Scopes \cup {"unset"}, Register(c) \/ Authorize(c, want)
      PROVE  TypeOK' /\ Redemption'
  BY <1>0, <1>2, AuthorizeType, AuthorizeRedeems, QuietOther, QuietKeeps
<1>3. ASSUME NEW r \in Requests, Entering(r)
      PROVE  TypeOK' /\ Redemption'
  BY <1>0, <1>3, EnteringType, QuietRequest, QuietKeeps, TakesRedeems, AnswerRedeems DEF Entering
<1>4. ASSUME NEW r \in Requests, Minting(r)
      PROVE  TypeOK' /\ Redemption'
  BY <1>0, <1>4, MintingType, AddAccessRedeems, AddRefreshRedeems, RotateRedeems, AgentRedeems
     DEF Minting
<1>5. ASSUME \/ \E a \in Agents : RegisterAgent(a)
             \/ PurgeService \/ PurgeStore \/ Tick \/ Restart
      PROVE  TypeOK' /\ Redemption'
  <2>1. TypeOK'
    BY <1>0, <1>5, OtherType
  <2>2. Quiet
    BY <1>0, <1>5, QuietOther
  <2> QED
    BY <1>0, <2>1, <2>2, QuietKeeps
<1>6. ASSUME UNCHANGED vars
      PROVE  TypeOK' /\ Redemption'
  <2>1. TypeOK'
    BY <1>0, <1>6 DEF TypeOK, vars, service, store, data
  <2>2. Quiet
    BY <1>0, <1>6, QuietOther
  <2> QED
    BY <1>0, <2>1, <2>2, QuietKeeps
<1>7. TypeOK' /\ Redemption'
  <2>1. CASE \E c \in Clients : Register(c) \/ \E want \in Scopes \cup {"unset"} : Authorize(c, want)
    <3>1. "unset" \in Scopes \cup {"unset"}
      OBVIOUS
    <3> QED
      BY <1>2, <2>1, <3>1
  <2>2. CASE \E r \in Requests : Entering(r) \/ Minting(r)
    BY <1>3, <1>4, <2>2
  <2>3. CASE \/ \E a \in Agents : RegisterAgent(a)
             \/ PurgeService \/ PurgeStore \/ Tick \/ Restart
    BY <1>5, <2>3
  <2>4. CASE UNCHANGED vars
    BY <1>6, <2>4
  <2> QED
    BY <2>1, <2>2, <2>3, <2>4 DEF Next, Entering, Minting
<1> QED
  BY <1>1, <1>7 DEF Inv

\* In every reachable state the variables have their types and Redemption holds.
THEOREM Invariance == Spec => []Inv
BY InitInv, NextInv, PTL DEF Spec

\* The variables have their types (the maps of Service and of the stores).
THEOREM TypeCorrect == Spec => []TypeOK
<1>1. Inv => TypeOK
  BY DEF Inv
<1> QED
  BY <1>1, Invariance, PTL

\* No code and no refresh token ever yields two pairs (exchangeAuthorizationCode,
\* Store.ExchangeRefreshToken).
THEOREM EachRedeemedOnce == Spec => []RedeemedOnce
<1>1. Inv => RedeemedOnce
  BY DEF Inv, Redemption
<1> QED
  BY <1>1, Invariance, PTL

---------------------------------------------------------------------------
\* Scopes.

\* Only a writer resolves to the scope write.
LEMMA ResolvesToWrite ==
  ASSUME NEW c, NEW want, ResolveScope(c, want) = "write"
  PROVE  c \in Writers
BY DEF ResolveScope, Allowed

\* A new pair whose scope is write is a writer's if it is made from what was.
LEMMA MintKeepsWriters ==
  ASSUME TypeOK, WritersOnly, NEW token, Mint(token), UNCHANGED <<grants, asked>>,
         token.scope = "write" => token.owner \in Writers
  PROVE  WritersOnly'
<1>1. /\ minted \in Nat /\ minted' = minted + 1 /\ pairs'[minted + 1] = token
      /\ \A n \in 1..minted : pairs'[n] = pairs[n]
  BY NumbersAreNatural DEF Mint, TypeOK, Pairs
<1>2. WriteComesFromRegistry'
  BY <1>1 DEF WritersOnly, WriteComesFromRegistry
<1> QED
  BY <1>2 DEF WritersOnly

\* The steps that mint or complete a pair give no more than they found.
LEMMA MintingScopes ==
  ASSUME TypeOK, Redemption, WritersOnly, NEW r \in Requests, Minting(r)
  PROVE  WritersOnly'
<1>0. UNCHANGED <<grants, asked>>
  BY DEF Minting, AddAccess, AddRefresh, Rotate, AddAgentAccess
<1>1. CASE AddAccess(r)
  <2> DEFINE k == req[r].no
             token == [from |-> Source("code", k), owner |-> grants[k].owner,
                       scope |-> grants[k].scope, until |-> now + AccessTTL, renew |-> 0]
  <2>1. k \in 1..asked
    BY <1>1 DEF AddAccess, Redemption, MintedPairs, At
  <2>2. Mint(token)
    BY <1>1 DEF AddAccess
  <2>3. token.scope = "write" => token.owner \in Writers
    BY <2>1 DEF WritersOnly
  <2> QED
    BY <1>0, <2>2, <2>3, MintKeepsWriters
<1>2. CASE AddRefresh(r)
  <2>1. minted' = minted /\ 1..minted \subseteq Pairs
    BY <1>2, NumbersAreNatural DEF AddRefresh, TypeOK, Pairs
  <2>2. \A n \in 1..minted : pairs'[n].scope = pairs[n].scope /\ pairs'[n].owner = pairs[n].owner
    BY <1>2, <2>1 DEF AddRefresh, TypeOK, Tokens
  <2> QED
    BY <1>0, <2>1, <2>2 DEF WritersOnly, WriteComesFromRegistry
<1>3. CASE Rotate(r)
  <2> DEFINE m == req[r].no
             token == [from |-> Source("refresh", m), owner |-> req[r].who,
                       scope |-> pairs[m].scope, until |-> req[r].clock + AccessTTL,
                       renew |-> req[r].clock + RefreshTTL]
  <2>1. m \in 1..minted /\ pairs[m].owner = req[r].who
    BY <1>3 DEF Rotate, Redeemable, Redemption, MintedPairs
  <2>2. token.scope = "write" => token.owner \in Writers
    BY <2>1 DEF WritersOnly, WriteComesFromRegistry
  <2>3. CASE Mint(token)
    BY <1>0, <2>2, <2>3, MintKeepsWriters
  <2>4. CASE UNCHANGED <<pairs, minted>>
    BY <1>0, <2>4 DEF WritersOnly, WriteComesFromRegistry
  <2> QED
    BY <1>3, <2>3, <2>4 DEF Rotate
<1>4. CASE AddAgentAccess(r)
  <2> DEFINE token == [from |-> Source("assertion", 0), owner |-> req[r].who, scope |-> "read",
                       until |-> now + AccessTTL, renew |-> 0]
  <2>1. Mint(token)
    BY <1>4 DEF AddAgentAccess
  <2>2. token.scope = "write" => token.owner \in Writers
    OBVIOUS
  <2> QED
    BY <1>0, <2>1, <2>2, MintKeepsWriters
<1> QED
  BY <1>1, <1>2, <1>3, <1>4 DEF Minting

\* Every step keeps the scopes within the registry's.
LEMMA NextScopes ==
  ASSUME TypeOK, Redemption, WritersOnly, [Next]_vars
  PROVE  WritersOnly'
<1>1. ASSUME NEW c \in Clients, NEW want \in Scopes \cup {"unset"}, Authorize(c, want)
      PROVE  WritersOnly'
  <2>1. /\ asked \in Nat /\ asked' = asked + 1 /\ UNCHANGED <<pairs, minted>>
        /\ grants'[asked + 1] = [owner |-> c, scope |-> ResolveScope(c, want),
                                 until |-> now + CodeTTL]
        /\ \A k \in 1..asked : grants'[k] = grants[k]
    BY <1>1, NumbersAreNatural DEF Authorize, TypeOK, Codes
  <2>2. \A k \in 1..asked' : grants'[k].scope = "write" => grants'[k].owner \in Writers
    BY <2>1, ResolvesToWrite DEF WritersOnly
  <2> QED
    BY <2>1, <2>2 DEF WritersOnly, WriteComesFromRegistry
<1>2. ASSUME UNCHANGED <<grants, asked, pairs, minted>>
      PROVE  WritersOnly'
  BY <1>2 DEF WritersOnly, WriteComesFromRegistry
<1>3. ASSUME NEW r \in Requests, Entering(r)
      PROVE  UNCHANGED <<grants, asked, pairs, minted>>
  BY <1>3 DEF Entering, TakeCode, Takes, PresentRefresh, RotateRefused, PresentClaim, Approve,
              PresentAssertion, NoRandom, Answer, data
<1>4. ASSUME \/ \E c \in Clients : Register(c)
             \/ \E a \in Agents : RegisterAgent(a)
             \/ PurgeService \/ PurgeStore \/ Tick \/ Restart \/ UNCHANGED vars
      PROVE  UNCHANGED <<grants, asked, pairs, minted>>
  BY <1>4 DEF Register, RegisterAgent, PurgeService, PurgeStore, Tick, Restart, vars, data
<1>5. ASSUME NEW r \in Requests, Minting(r)
      PROVE  WritersOnly'
  BY <1>5, MintingScopes
<1> QED
  BY <1>1, <1>2, <1>3, <1>4, <1>5 DEF Next, Entering, Minting

\* No token has the scope write that is not of a client the registry file gives
\* it to (registerClient, resolveClientScope, ExchangeRefreshToken).
THEOREM WriteIsConfigured == Spec => []WriteComesFromRegistry
<1>1. Init => WritersOnly
  BY DEF Init, WritersOnly, WriteComesFromRegistry
<1>2. Inv /\ WritersOnly /\ [Next]_vars => WritersOnly'
  BY NextScopes DEF Inv
<1>3. WritersOnly => WriteComesFromRegistry
  BY DEF WritersOnly
<1> QED
  BY <1>1, <1>2, <1>3, Invariance, PTL DEF Spec

---------------------------------------------------------------------------
\* Rotation.

\* A step that leaves the store and the pairs alone; the clock may go on.
Frames == /\ UNCHANGED <<store, pairs, backend>> /\ minted' = minted
          /\ (now' = now \/ now' = now + 1)

\* Of these are all but the writes and the restart.
LEMMA FramingSteps ==
  ASSUME [Next]_vars
  PROVE  \/ Frames
         \/ \E r \in Requests : Minting(r)
         \/ PurgeStore \/ Restart
<1>1. ASSUME NEW c \in Clients, NEW want \in Scopes \cup {"unset"}, Register(c) \/ Authorize(c, want)
      PROVE  Frames
  BY <1>1 DEF Register, Authorize, Frames, store
<1>2. ASSUME NEW r \in Requests, Entering(r)
      PROVE  Frames
  BY <1>2 DEF Entering, TakeCode, Takes, PresentRefresh, RotateRefused, PresentClaim, Approve,
              PresentAssertion, NoRandom, Answer, data, store, Frames
<1>3. ASSUME NEW a \in Agents, RegisterAgent(a)
      PROVE  Frames
  BY <1>3 DEF RegisterAgent, store, Frames
<1>4. CASE PurgeService \/ Tick \/ UNCHANGED vars
  BY <1>4 DEF PurgeService, Tick, vars, data, store, Frames
<1> QED
  BY <1>1, <1>2, <1>3, <1>4 DEF Next, Entering, Minting

\* After a write that succeeded the file holds what the running store does.
LEMMA SavedIsHeld ==
  ASSUME FileIfDurable, NEW a, NEW f, Saves(a, f)
  PROVE  FileIsHeld'
BY DEF FileIfDurable, Saves, FileIsHeld

\* After one that failed it holds nothing live that the running store lacks,
\* if the write was to drop nothing live.
LEMMA UnsavedIsHeld ==
  ASSUME FileIsHeld, now' = now, NEW a, NEW f, FailsToSave(a, f),
         \A n \in diskAccess : pairs'[n].until = pairs[n].until,
         \A n \in diskRefresh : pairs'[n].renew = pairs[n].renew,
         \A n \in access : now < pairs[n].until => n \in a,
         \A n \in refresh : now < pairs[n].renew => n \in f
  PROVE  FileIsHeld'
BY DEF FileIsHeld, FailsToSave

\* What is left alone stays so.
LEMMA FramesHold ==
  ASSUME TypeOK, FileIsHeld, Frames
  PROVE  FileIsHeld'
<1>1. \A n \in Pairs : /\ now' < pairs[n].until => now < pairs[n].until
                       /\ now' < pairs[n].renew => now < pairs[n].renew
  BY DEF TypeOK, Frames, Tokens
<1> QED
  BY <1>1 DEF TypeOK, Frames, FileIsHeld, store

\* How a step that mints or completes a pair writes the store: what it drops
\* is a refresh token, and only in a write that succeeded.
LEMMA MintingWrites ==
  ASSUME TypeOK, Redemption, NEW r \in Requests, Minting(r)
  PROVE  /\ now' = now /\ backend' = backend
         /\ \A n \in 1..minted : /\ pairs'[n].until = pairs[n].until
                                /\ pairs'[n].from = pairs[n].from
         /\ \A n \in refresh \cup diskRefresh : pairs'[n].renew = pairs[n].renew
         /\ \/ UNCHANGED store
            \/ \E a, f : /\ Saves(a, f) \/ FailsToSave(a, f)
                         /\ access \subseteq a /\ refresh \subseteq f
            \/ /\ Rotate(r)
               /\ Saves(access \cup {minted + 1}, (refresh \ {req[r].no}) \cup {minted + 1})
               /\ pairs'[minted + 1].from = Source("refresh", req[r].no)
               /\ minted' = minted + 1
<1>0. minted \in Nat /\ 1..minted \subseteq Pairs /\ refresh \cup diskRefresh \subseteq 1..minted
  BY NumbersAreNatural DEF TypeOK, Pairs, Redemption, MintedPairs
<1>1. ASSUME NEW token, Mint(token)
      PROVE  /\ \A n \in 1..minted : pairs'[n] = pairs[n]
             /\ pairs'[minted + 1] = token /\ minted' = minted + 1
  BY <1>0, <1>1, NumbersAreNatural DEF Mint, TypeOK, Pairs
<1>2. CASE AddAccess(r) \/ AddAgentAccess(r)
  <2>1. \A n \in 1..minted : pairs'[n] = pairs[n]
    BY <1>1, <1>2 DEF AddAccess, AddAgentAccess
  <2>2. \/ Saves(access \cup {minted + 1}, refresh)
        \/ FailsToSave(access \cup {minted + 1}, refresh)
    BY <1>2 DEF AddAccess, AddAgentAccess
  <2>3. access \subseteq access \cup {minted + 1} /\ refresh \subseteq refresh
    OBVIOUS
  <2>4. now' = now /\ backend' = backend
    BY <1>2 DEF AddAccess, AddAgentAccess
  <2> QED
    BY <1>0, <2>1, <2>2, <2>3, <2>4
<1>3. CASE AddRefresh(r)
  <2>1. req[r].pair \notin refresh \cup diskRefresh
    BY <1>3 DEF AddRefresh, Redemption, HeldByOne, At
  <2>2. \A n \in 1..minted : /\ pairs'[n].until = pairs[n].until /\ pairs'[n].from = pairs[n].from
                             /\ n # req[r].pair => pairs'[n].renew = pairs[n].renew
    BY <1>0, <1>3 DEF AddRefresh, TypeOK, Tokens
  <2>3. \/ Saves(access, refresh \cup {req[r].pair})
        \/ FailsToSave(access, refresh \cup {req[r].pair})
    BY <1>3 DEF AddRefresh
  <2>4. access \subseteq access /\ refresh \subseteq refresh \cup {req[r].pair}
    OBVIOUS
  <2>5. now' = now /\ backend' = backend
    BY <1>3 DEF AddRefresh
  <2> QED
    BY <1>0, <2>1, <2>2, <2>3, <2>4, <2>5
<1>4. CASE Rotate(r)
  <2>1. CASE KeepsOld(req[r].no) /\ UNCHANGED <<pairs, minted>>
    BY <1>4, <2>1 DEF Rotate, KeepsOld
  <2>2. CASE /\ Mint([from |-> Source("refresh", req[r].no), owner |-> req[r].who,
                      scope |-> pairs[req[r].no].scope, until |-> req[r].clock + AccessTTL,
                      renew |-> req[r].clock + RefreshTTL])
             /\ Saves(access \cup {minted + 1}, (refresh \ {req[r].no}) \cup {minted + 1})
    <3>1. /\ \A n \in 1..minted : pairs'[n] = pairs[n]
          /\ pairs'[minted + 1].from = Source("refresh", req[r].no) /\ minted' = minted + 1
      BY <1>1, <2>2
    <3>2. now' = now /\ backend' = backend
      BY <1>4 DEF Rotate
    <3> QED
      BY <1>0, <1>4, <2>2, <3>1, <3>2
  <2> QED
    BY <1>4, <2>1, <2>2 DEF Rotate
<1> QED
  BY <1>2, <1>3, <1>4 DEF Minting

\* How the purge does.
LEMMA PurgeWrites ==
  ASSUME PurgeStore
  PROVE  /\ now' = now /\ backend' = backend /\ pairs' = pairs /\ minted' = minted
         /\ req' = req /\ answered' = answered
         /\ \E a, f : /\ Saves(a, f) \/ FailsToSave(a, f)
                      /\ \A n \in access : now < pairs[n].until => n \in a
                      /\ \A n \in refresh : now < pairs[n].renew => n \in f
<1>1. /\ \A n \in access : now < pairs[n].until => n \in LiveAccess
      /\ \A n \in refresh : now < pairs[n].renew => n \in LiveRefresh
  BY DEF LiveAccess, LiveRefresh
<1>2. \/ Saves(LiveAccess, LiveRefresh) \/ FailsToSave(LiveAccess, LiveRefresh)
      \/ Saves(LiveAccess, refresh)
  BY DEF PurgeStore
<1> QED
  BY <1>1, <1>2 DEF PurgeStore, data

\* The file never has a live token the running store lacks.
LEMMA NextHeld ==
  ASSUME Inv, FileIsHeld, [Next]_vars
  PROVE  FileIsHeld'
<1>0. TypeOK /\ FileIfDurable /\ Redemption
  BY DEF Inv
<1>1. CASE Frames
  BY <1>0, <1>1, FramesHold
<1>2. ASSUME NEW r \in Requests, Minting(r)
      PROVE  FileIsHeld'
  <2>1. /\ now' = now
        /\ \A n \in diskAccess : pairs'[n].until = pairs[n].until
        /\ \A n \in diskRefresh : pairs'[n].renew = pairs[n].renew
    BY <1>0, <1>2, MintingWrites DEF Redemption, MintedPairs
  <2>2. CASE UNCHANGED store
    BY <2>1, <2>2 DEF FileIsHeld, store
  <2>3. ASSUME NEW a, NEW f, Saves(a, f)
        PROVE  FileIsHeld'
    BY <1>0, <2>3, SavedIsHeld
  <2>4. ASSUME NEW a, NEW f, FailsToSave(a, f), access \subseteq a, refresh \subseteq f
        PROVE  FileIsHeld'
    BY <2>1, <2>4, UnsavedIsHeld
  <2> QED
    BY <1>0, <1>2, <2>2, <2>3, <2>4, MintingWrites
<1>3. CASE PurgeStore
  <2>1. PICK a, f : /\ Saves(a, f) \/ FailsToSave(a, f)
                    /\ \A n \in access : now < pairs[n].until => n \in a
                    /\ \A n \in refresh : now < pairs[n].renew => n \in f
    BY <1>3, PurgeWrites
  <2>2. now' = now /\ pairs' = pairs
    BY <1>3, PurgeWrites
  <2> QED
    BY <1>0, <2>1, <2>2, SavedIsHeld, UnsavedIsHeld
<1>4. CASE Restart
  BY <1>4 DEF Restart, FileIsHeld, data
<1> QED
  BY <1>1, <1>2, <1>3, <1>4, FramingSteps

\* In every reachable state the file is held.
THEOREM HeldAlways == Spec => []FileIsHeld
<1>1. Init => FileIsHeld
  BY DEF Init, FileIsHeld
<1>2. Inv /\ FileIsHeld /\ [Next]_vars => FileIsHeld'
  BY NextHeld
<1> QED
  BY <1>1, <1>2, Invariance, PTL DEF Spec

\* What RotationIsAtomic says of a step.
KeepsRefresh ==
  \A n \in Pairs : now < pairs[n].renew =>
    /\ n \in refresh \ refresh' => (Succeeded(n) \/ refresh' = diskRefresh)
    /\ n \in diskRefresh \ diskRefresh' => Succeeded(n)

\* A write keeps each live refresh token, or brings its successor.
LEMMA WriteKeepsRefresh ==
  ASSUME FileIsHeld, NEW a, NEW f, Saves(a, f) \/ FailsToSave(a, f),
         \A n \in Pairs : n \in refresh /\ now < pairs[n].renew => n \in f \/ Succeeded(n)
  PROVE  KeepsRefresh
BY DEF FileIsHeld, Saves, FailsToSave, KeepsRefresh

\* Every step does.
LEMMA NextKeepsRefresh ==
  ASSUME Inv, FileIsHeld, [Next]_vars
  PROVE  KeepsRefresh
<1>0. TypeOK /\ Redemption
  BY DEF Inv
<1>1. CASE Frames
  BY <1>1 DEF Frames, store, KeepsRefresh
<1>2. ASSUME NEW r \in Requests, Minting(r)
      PROVE  KeepsRefresh
  <2>1. CASE UNCHANGED store
    BY <2>1 DEF store, KeepsRefresh
  <2>2. ASSUME NEW a, NEW f, Saves(a, f) \/ FailsToSave(a, f), refresh \subseteq f
        PROVE  KeepsRefresh
    BY <2>2, WriteKeepsRefresh
  <2>3. CASE /\ Rotate(r)
             /\ Saves(access \cup {minted + 1}, (refresh \ {req[r].no}) \cup {minted + 1})
             /\ pairs'[minted + 1].from = Source("refresh", req[r].no)
             /\ minted' = minted + 1
    <3>1. minted' \in 0..MaxPairs
      BY <1>0, <1>2, MintingType DEF Redemption, TypeOK
    <3>2. minted + 1 \in Pairs
      BY <1>0, <2>3, <3>1, NumbersAreNatural DEF Pairs, TypeOK
    <3>3. minted + 1 \in access' \cap refresh'
      BY <2>3 DEF Saves
    <3>4. Succeeded(req[r].no)
      BY <2>3, <3>2, <3>3 DEF Succeeded
    <3> QED
      BY <2>3, <3>4, WriteKeepsRefresh
  <2> QED
    BY <1>0, <1>2, <2>1, <2>2, <2>3, MintingWrites
<1>3. CASE PurgeStore
  <2>1. PICK a, f : /\ Saves(a, f) \/ FailsToSave(a, f)
                    /\ \A n \in refresh : now < pairs[n].renew => n \in f
    BY <1>3, PurgeWrites
  <2> QED
    BY <2>1, WriteKeepsRefresh
<1>4. CASE Restart
  BY <1>4 DEF Restart, KeepsRefresh
<1> QED
  BY <1>1, <1>2, <1>3, <1>4, FramingSteps

\* A live refresh token leaves the store or its file only as its successor
\* arrives, whatever fails (Store.ExchangeRefreshToken).
THEOREM RotatesAtOnce == Spec => RotationIsAtomic
<1>1. Inv /\ FileIsHeld /\ [Next]_vars => KeepsRefresh
  BY NextKeepsRefresh
<1>2. KeepsRefresh =>
        \A n \in Pairs : now < pairs[n].renew =>
          /\ n \in refresh \ refresh' => (Succeeded(n) \/ refresh' = diskRefresh)
          /\ n \in diskRefresh \ diskRefresh' => Succeeded(n)
  BY DEF KeepsRefresh
<1> QED
  BY <1>1, <1>2, Invariance, HeldAlways, PTL DEF Spec, RotationIsAtomic

---------------------------------------------------------------------------
\* What was answered.

\* A step that keeps what is kept of a pair that was there before.
Keeping ==
  /\ \A n \in 1..minted : AccessKept(n) => AccessKept(n)'
  /\ \A n \in 1..minted : pairs'[n].renew = pairs[n].renew /\ RefreshKept(n) => RefreshKept(n)'

\* One that leaves the store alone does.
LEMMA FramesKeep ==
  ASSUME TypeOK, Redemption, Frames
  PROVE  Keeping
<1>1. 1..minted \subseteq Pairs
  BY NumbersAreNatural DEF TypeOK, Pairs
<1>2. \A n \in Pairs : /\ now' < pairs[n].until => now < pairs[n].until
                       /\ now' < pairs[n].renew => now < pairs[n].renew
  BY DEF TypeOK, Frames, Tokens
<1>3. \A n \in 1..minted : AccessKept(n) => AccessKept(n)'
  BY <1>1, <1>2 DEF Frames, store, AccessKept, Durable
<1>4. \A n \in 1..minted : RefreshKept(n) => RefreshKept(n)'
  BY <1>1, <1>2 DEF Frames, store, RefreshKept, Durable, Rotated
<1> QED
  BY <1>3, <1>4 DEF Keeping

\* One that writes the store does, if what it drops is dead or rotated.
LEMMA WriteKeeps ==
  ASSUME TypeOK, now' = now, backend' = backend, minted' \in Nat, minted <= minted',
         NEW a, NEW f, Saves(a, f) \/ FailsToSave(a, f),
         \A n \in 1..minted : pairs'[n].until = pairs[n].until /\ pairs'[n].from = pairs[n].from,
         \A n \in access : now < pairs[n].until => n \in a,
         \A n \in refresh : now < pairs[n].renew => n \in f \/ Rotated(n)'
  PROVE  Keeping
<1>1. \A n \in 1..minted : AccessKept(n) => AccessKept(n)'
  BY DEF AccessKept, Durable, Saves, FailsToSave
<1>2. \A n : Rotated(n) => Rotated(n)'
  BY DEF Rotated, TypeOK
<1>3. \A n \in 1..minted : pairs'[n].renew = pairs[n].renew /\ RefreshKept(n) => RefreshKept(n)'
  BY <1>2 DEF RefreshKept, Durable, Saves, FailsToSave
<1> QED
  BY <1>1, <1>3 DEF Keeping

\* The steps that mint or complete a pair do.
LEMMA MintingKeeps ==
  ASSUME TypeOK, Redemption, NEW r \in Requests, Minting(r)
  PROVE  Keeping /\ minted' \in Nat /\ minted <= minted'
<1>1. minted' \in Nat /\ minted <= minted' /\ minted \in Nat
  <2>1. minted' \in 0..MaxPairs
    BY MintingType DEF Redemption, TypeOK
  <2>2. minted' = minted \/ minted' = minted + 1
    BY DEF Minting, AddAccess, AddRefresh, Rotate, AddAgentAccess, Mint
  <2> QED
    BY <2>1, <2>2, NumbersAreNatural DEF TypeOK
<1>2. /\ now' = now /\ backend' = backend
      /\ \A n \in 1..minted : pairs'[n].until = pairs[n].until /\ pairs'[n].from = pairs[n].from
  BY MintingWrites
<1>3. ASSUME NEW a, NEW f, Saves(a, f) \/ FailsToSave(a, f), access \subseteq a, refresh \subseteq f
      PROVE  Keeping
  BY <1>1, <1>2, <1>3, WriteKeeps
<1>4. CASE UNCHANGED store
  <2>1. \A n : Rotated(n) => Rotated(n)'
    BY <1>1, <1>2 DEF Rotated
  <2> QED
    BY <1>1, <1>2, <1>4, <2>1 DEF store, Keeping, AccessKept, RefreshKept, Durable
<1>5. CASE /\ Saves(access \cup {minted + 1}, (refresh \ {req[r].no}) \cup {minted + 1})
           /\ pairs'[minted + 1].from = Source("refresh", req[r].no)
           /\ minted' = minted + 1
  <2>1. ASSUME NEW n, n = req[r].no
        PROVE  Rotated(n)'
    <3>1. minted + 1 \in 1..minted' /\ pairs'[minted + 1].from = Source("refresh", n)
      BY <1>1, <1>5, <2>1
    <3> QED
      BY <3>1 DEF Rotated, Source
  <2>2. \A n \in refresh : n \in (refresh \ {req[r].no}) \cup {minted + 1} \/ Rotated(n)'
    BY <2>1
  <2> QED
    BY <1>1, <1>2, <1>5, <2>2, WriteKeeps
<1> QED
  BY <1>1, <1>3, <1>4, <1>5, MintingWrites

\* The pair in a request's hands is kept.
HolderKept(r) ==
  /\ At(r, "half") => AccessKept(req[r].pair)
  /\ At(r, "answer") => AccessKept(req[r].pair) /\ RefreshKept(req[r].pair)

\* The callers, and the requests that stand still, keep what they held.
OldAnswersKept ==
  /\ \A n \in answered : AccessKept(n)' /\ RefreshKept(n)'
  /\ \A r \in Requests : req'[r] = req[r] => HolderKept(r)'

\* A keeping step that changes no time of a pair they hold does that.
LEMMA KeepingKeepsOld ==
  ASSUME MintedPairs, AnswersKept, Keeping,
         \A n \in answered : pairs'[n].renew = pairs[n].renew,
         \A r \in Requests : At(r, "answer") /\ req'[r] = req[r] =>
           pairs'[req[r].pair].renew = pairs[req[r].pair].renew
  PROVE  OldAnswersKept
<1>1. \A n \in answered : AccessKept(n)' /\ RefreshKept(n)'
  BY DEF MintedPairs, AnswersKept, Keeping
<1>2. ASSUME NEW r \in Requests, req'[r] = req[r]
      PROVE  HolderKept(r)'
  <2>1. PICK n : n = req[r].pair
    OBVIOUS
  <2>2. CASE At(r, "half")
    <3>1. n \in 1..minted /\ AccessKept(n)
      BY <2>1, <2>2 DEF MintedPairs, AnswersKept
    <3>2. AccessKept(n)'
      BY <3>1 DEF Keeping
    <3> QED
      BY <1>2, <2>1, <2>2, <3>2 DEF HolderKept, AccessKept, At
  <2>3. CASE At(r, "answer")
    <3>1. n \in 1..minted /\ AccessKept(n) /\ RefreshKept(n)
      BY <2>1, <2>3 DEF MintedPairs, AnswersKept
    <3>2. pairs'[n].renew = pairs[n].renew
      BY <1>2, <2>1, <2>3
    <3>3. AccessKept(n)' /\ RefreshKept(n)'
      BY <3>1, <3>2 DEF Keeping
    <3> QED
      BY <1>2, <2>1, <2>3, <3>3 DEF HolderKept, AccessKept, RefreshKept, Rotated, Source, At
  <2>4. CASE ~At(r, "half") /\ ~At(r, "answer")
    BY <1>2, <2>4 DEF HolderKept, At
  <2> QED
    BY <2>2, <2>3, <2>4
<1> QED
  BY <1>1, <1>2 DEF OldAnswersKept

\* A pair the running store has just saved is kept.
LEMMA SavedIsKept ==
  ASSUME backend' = backend, NEW a, NEW f, Saves(a, f), NEW n
  PROVE  /\ n \in a => AccessKept(n)'
         /\ n \in f => RefreshKept(n)'
BY DEF Saves, AccessKept, RefreshKept, Durable

\* A step that mints or completes a pair keeps what was answered, and what it
\* is about to answer.
LEMMA MintingKeepsAnswers ==
  ASSUME TypeOK, Redemption, AnswersKept, NEW r \in Requests, Minting(r)
  PROVE  AnswersKept'
<1>0. /\ MintedPairs /\ HeldByOne /\ req \in [Requests -> Calls] /\ minted \in Nat
      /\ 1..minted \subseteq Pairs
  BY NumbersAreNatural DEF Redemption, TypeOK, Pairs
<1>1. /\ \A q \in Requests : q # r => req'[q] = req[q]
      /\ answered' = answered /\ backend' = backend /\ now' = now
  BY <1>0 DEF Minting, AddAccess, AddRefresh, Rotate, AddAgentAccess, Become, Goto
<1>2. ~At(r, "answer") /\ req'[r] # req[r]
  <2>1. req[r].at \in {"mint", "half", "rotate", "assert"}
    BY DEF Minting, AddAccess, AddRefresh, Rotate, AddAgentAccess
  <2>2. req'[r].at \in {"half", "answer", "idle"} /\ (req'[r].at = "half" => req[r].at = "mint")
    <3>1. CASE AddAccess(r)
      <4>1. req[r].at = "mint"
        BY <3>1 DEF AddAccess
      <4>2. CASE Goto(r, [req[r] EXCEPT !.at = "half", !.pair = minted + 1])
        BY <1>0, <4>1, <4>2 DEF Goto, Calls
      <4>3. CASE Goto(r, NoCall)
        BY <1>0, <4>3 DEF Goto, NoCall
      <4> QED
        BY <3>1, <4>2, <4>3 DEF AddAccess
    <3>2. CASE AddRefresh(r)
      BY <1>0, <3>2 DEF AddRefresh, Become, Goto, NoCall, Calls
    <3>3. CASE Rotate(r)
      <4>1. req[r].at = "rotate"
        BY <3>3 DEF Rotate
      <4>2. CASE Goto(r, [req[r] EXCEPT !.at = "answer", !.pair = minted + 1])
        BY <1>0, <4>1, <4>2 DEF Goto, Calls
      <4>3. CASE Goto(r, NoCall)
        BY <1>0, <4>3 DEF Goto, NoCall
      <4> QED
        BY <3>3, <4>2, <4>3 DEF Rotate
    <3>4. CASE AddAgentAccess(r)
      <4>1. req[r].at = "assert"
        BY <3>4 DEF AddAgentAccess
      <4>2. CASE Goto(r, [req[r] EXCEPT !.at = "answer", !.pair = minted + 1])
        BY <1>0, <4>1, <4>2 DEF Goto, Calls
      <4>3. CASE Goto(r, NoCall)
        BY <1>0, <4>3 DEF Goto, NoCall
      <4> QED
        BY <3>4, <4>2, <4>3 DEF AddAgentAccess
    <3> QED
      BY <3>1, <3>2, <3>3, <3>4 DEF Minting
  <2> QED
    BY <2>1, <2>2 DEF At
<1>3. OldAnswersKept
  <2>1. \A n \in 1..minted : (At(r, "half") => n # req[r].pair) => pairs'[n].renew = pairs[n].renew
    BY <1>0 DEF Minting, AddAccess, AddRefresh, Rotate, AddAgentAccess, Mint, At, TypeOK
  <2>2. \A n \in answered : pairs'[n].renew = pairs[n].renew
    BY <1>0, <2>1 DEF MintedPairs, HeldByOne
  <2>3. ASSUME NEW q \in Requests, At(q, "answer"), req'[q] = req[q]
        PROVE  pairs'[req[q].pair].renew = pairs[req[q].pair].renew
    <3>1. q # r /\ req[q].pair \in 1..minted
      BY <1>0, <1>2, <2>3 DEF MintedPairs
    <3>2. At(r, "half") => req[q].pair # req[r].pair
      BY <1>0, <2>3, <3>1 DEF HeldByOne
    <3> QED
      BY <2>1, <3>1, <3>2
  <2> QED
    BY <1>0, <2>2, <2>3, MintingKeeps, KeepingKeepsOld
<1>4. HolderKept(r)'
  <2>1. CASE req'[r].at = "idle"
    BY <2>1 DEF HolderKept, At
  <2>2. ASSUME NEW n, n = req'[r].pair, At(r, "half")' \/ At(r, "answer")', AccessKept(n)',
               At(r, "answer")' => RefreshKept(n)'
        PROVE  HolderKept(r)'
    BY <2>2 DEF HolderKept, AccessKept, RefreshKept, Rotated, Source
  <2>3. PICK n : n = minted + 1
    OBVIOUS
  <2>4. CASE AddAccess(r)
    <3>1. CASE /\ Saves(access \cup {n}, refresh)
               /\ Goto(r, [req[r] EXCEPT !.at = "half", !.pair = n])
      <4>1. At(r, "half")' /\ ~At(r, "answer")' /\ n = req'[r].pair
        BY <1>0, <3>1 DEF Goto, Calls, At
      <4>2. AccessKept(n)'
        BY <1>1, <3>1, SavedIsKept
      <4> QED
        BY <2>2, <4>1, <4>2
    <3>2. CASE Goto(r, NoCall)
      BY <1>0, <2>1, <3>2 DEF Goto, NoCall
    <3> QED
      BY <2>3, <2>4, <3>1, <3>2 DEF AddAccess
  <2>5. CASE AddRefresh(r)
    <3>1. PICK m : m = req[r].pair
      OBVIOUS
    <3>2. CASE Saves(access, refresh \cup {m}) /\ Become(r, "answer")
      <4>1. At(r, "answer")' /\ m = req'[r].pair
        BY <1>0, <3>1, <3>2 DEF Become, Goto, Calls, At
      <4>2. At(r, "half")
        BY <2>5 DEF AddRefresh, At
      <4>3. m \in 1..minted /\ AccessKept(m)
        BY <1>0, <3>1, <4>2 DEF MintedPairs, AnswersKept
      <4>4. AccessKept(m)'
        BY <4>3, MintingKeeps DEF Keeping
      <4>5. RefreshKept(m)'
        BY <1>1, <3>2, SavedIsKept
      <4> QED
        BY <2>2, <4>1, <4>4, <4>5
    <3>3. CASE Goto(r, NoCall)
      BY <1>0, <2>1, <3>3 DEF Goto, NoCall
    <3> QED
      BY <2>5, <3>1, <3>2, <3>3 DEF AddRefresh
  <2>6. CASE Rotate(r)
    <3>1. CASE /\ Saves(access \cup {n}, (refresh \ {req[r].no}) \cup {n})
               /\ Goto(r, [req[r] EXCEPT !.at = "answer", !.pair = n])
      <4>1. At(r, "answer")' /\ n = req'[r].pair
        BY <1>0, <3>1 DEF Goto, Calls, At
      <4>2. AccessKept(n)' /\ RefreshKept(n)'
        BY <1>1, <3>1, SavedIsKept
      <4> QED
        BY <2>2, <4>1, <4>2
    <3>2. CASE Goto(r, NoCall)
      BY <1>0, <2>1, <3>2 DEF Goto, NoCall
    <3> QED
      BY <2>3, <2>6, <3>1, <3>2 DEF Rotate
  <2>7. CASE AddAgentAccess(r)
    <3>1. CASE /\ Saves(access \cup {n}, refresh)
               /\ Goto(r, [req[r] EXCEPT !.at = "answer", !.pair = n])
      <4>1. At(r, "answer")' /\ n = req'[r].pair
        BY <1>0, <3>1 DEF Goto, Calls, At
      <4>2. AccessKept(n)'
        BY <1>1, <3>1, SavedIsKept
      <4>3. n \in Pairs /\ pairs'[n].renew = 0
        BY <1>0, <2>3, <2>7, NumbersAreNatural DEF AddAgentAccess, Mint, Pairs, TypeOK
      <4>4. RefreshKept(n)'
        BY <1>1, <4>3 DEF RefreshKept, TypeOK
      <4> QED
        BY <2>2, <4>1, <4>2, <4>4
    <3>2. CASE Goto(r, NoCall)
      BY <1>0, <2>1, <3>2 DEF Goto, NoCall
    <3> QED
      BY <2>3, <2>7, <3>1, <3>2 DEF AddAgentAccess
  <2> QED
    BY <2>4, <2>5, <2>6, <2>7 DEF Minting
<1> QED
  BY <1>1, <1>3, <1>4 DEF OldAnswersKept, AnswersKept, HolderKept

\* Every step keeps what was answered.
LEMMA NextKept ==
  ASSUME Inv, Kept, [Next]_vars
  PROVE  AnswersKept'
<1>0. TypeOK /\ Redemption /\ MintedPairs /\ FileIfDurable /\ FileIsHeld /\ AnswersKept
  BY DEF Inv, Redemption, Kept
<1>1. ASSUME Keeping, pairs' = pairs, answered' \subseteq answered,
             \A r \in Requests : req'[r] = req[r] \/ req'[r].at \notin {"half", "answer"}
      PROVE  AnswersKept'
  <2>1. OldAnswersKept
    BY <1>0, <1>1, KeepingKeepsOld
  <2> QED
    BY <1>1, <2>1 DEF OldAnswersKept, AnswersKept, HolderKept, At
<1>2. ASSUME NEW r \in Requests, Minting(r)
      PROVE  AnswersKept'
  BY <1>0, <1>2, MintingKeepsAnswers
<1>3. CASE PurgeStore
  <2>1. PICK a, f : /\ Saves(a, f) \/ FailsToSave(a, f)
                    /\ \A n \in access : now < pairs[n].until => n \in a
                    /\ \A n \in refresh : now < pairs[n].renew => n \in f
    BY <1>3, PurgeWrites
  <2>2. /\ now' = now /\ backend' = backend /\ pairs' = pairs /\ minted' = minted
        /\ req' = req /\ answered' = answered
    BY <1>3, PurgeWrites
  <2>3. minted' \in Nat /\ minted <= minted'
    BY <1>0, <2>2, NumbersAreNatural DEF TypeOK
  <2>4. Keeping
    BY <1>0, <2>1, <2>2, <2>3, WriteKeeps
  <2> QED
    BY <1>1, <2>2, <2>4
<1>4. CASE Restart
  <2>0. /\ now' = now /\ backend' = backend /\ pairs' = pairs /\ minted' = minted
        /\ access' = diskAccess /\ refresh' = diskRefresh
        /\ diskAccess' = diskAccess /\ diskRefresh' = diskRefresh
        /\ answered' = (IF Durable THEN answered ELSE {})
    BY <1>4 DEF Restart, data
  <2>1. \A r \in Requests : req'[r].at = "idle"
    BY <1>4 DEF Restart, NoCall
  <2>2. ASSUME NEW n \in answered', AccessKept(n), RefreshKept(n)
        PROVE  AccessKept(n)' /\ RefreshKept(n)'
    BY <2>0, <2>2 DEF AccessKept, RefreshKept, Rotated, Durable
  <2>3. \A n \in answered' : AccessKept(n)' /\ RefreshKept(n)'
    BY <1>0, <2>0, <2>2 DEF AnswersKept
  <2> QED
    BY <2>1, <2>3 DEF AnswersKept, At
<1>5. CASE Frames
  <2>1. Keeping
    BY <1>0, <1>5, FramesKeep
  <2>2. pairs' = pairs
    BY <1>5 DEF Frames
  <2>3. CASE /\ answered' \subseteq answered
             /\ \A r \in Requests : req'[r] = req[r] \/ req'[r].at \notin {"half", "answer"}
    BY <1>1, <2>1, <2>2, <2>3
  <2>4. ASSUME NEW r \in Requests, Answer(r)
        PROVE  AnswersKept'
    <3>1. PICK n : n = req[r].pair
      OBVIOUS
    <3>2. n \in 1..minted /\ AccessKept(n) /\ RefreshKept(n)
      BY <1>0, <2>4, <3>1 DEF Answer, MintedPairs, AnswersKept, At
    <3>3. AccessKept(n)' /\ RefreshKept(n)'
      BY <2>1, <2>2, <3>2 DEF Keeping
    <3>4. /\ answered' = answered \cup {n} /\ req'[r].at = "idle"
          /\ \A q \in Requests : q # r => req'[q] = req[q]
      BY <1>0, <2>4, <3>1 DEF Answer, Goto, NoCall, TypeOK
    <3>5. OldAnswersKept
      BY <1>0, <2>1, <2>2, KeepingKeepsOld
    <3> QED
      BY <3>3, <3>4, <3>5 DEF OldAnswersKept, AnswersKept, HolderKept, At
  <2>5. \/ \E r \in Requests : Answer(r) \/ Minting(r)
        \/ /\ answered' \subseteq answered
           /\ \A r \in Requests : req'[r] = req[r] \/ req'[r].at \notin {"half", "answer"}
    <3>1. ASSUME Quiet
          PROVE  /\ answered' \subseteq answered
                 /\ \A r \in Requests : req'[r] = req[r] \/ req'[r].at \notin {"half", "answer"}
      BY <3>1 DEF Quiet
    <3>2. ASSUME NEW r \in Requests, TakeCode(r)
          PROVE  /\ answered' = answered
                 /\ \A q \in Requests : req'[q] = req[q] \/ req'[q].at \notin {"half", "answer"}
      BY <1>0, <3>2 DEF TakeCode, Takes, Goto, NoCall, TypeOK
    <3>3. ASSUME NEW c \in Clients, NEW want \in Scopes \cup {"unset"}, Authorize(c, want)
          PROVE  answered' = answered /\ req' = req
      BY <3>3 DEF Authorize
    <3>4. ASSUME NEW r \in Requests,
                 \/ PresentRefresh(r) \/ RotateRefused(r) \/ PresentClaim(r) \/ Approve(r)
                 \/ PresentAssertion(r) \/ NoRandom(r)
          PROVE  Quiet
      BY <1>0, <3>4, QuietRequest
    <3>5. ASSUME \/ \E c \in Clients : Register(c)
                 \/ \E a \in Agents : RegisterAgent(a)
                 \/ PurgeService \/ PurgeStore \/ Tick \/ Restart \/ UNCHANGED vars
          PROVE  Quiet
      BY <1>0, <3>5, QuietOther
    <3> QED
      BY <3>1, <3>2, <3>3, <3>4, <3>5 DEF Next, Minting
  <2> QED
    BY <1>2, <2>3, <2>4, <2>5
<1> QED
  BY <1>2, <1>3, <1>4, <1>5, FramingSteps

\* A pair a caller was answered with works until it expires or is exchanged;
\* with a persistent store, also after any restart (issueBearerPair).
THEOREM AnswersStand == Spec => []AnsweredSurvives
<1>1. Init => Kept
  BY DEF Init, Kept, FileIsHeld, AnswersKept, At, NoCall
<1>2. Inv /\ Kept /\ [Next]_vars => Kept'
  <2> SUFFICES ASSUME Inv, Kept, [Next]_vars PROVE Kept'
    OBVIOUS
  <2> QED
    BY NextHeld, NextKept DEF Kept
<1>3. Kept => AnsweredSurvives
  BY DEF Kept, AnswersKept, AccessKept, RefreshKept, Rotated, AnsweredSurvives
<1> QED
  BY <1>1, <1>2, <1>3, Invariance, PTL DEF Spec

---------------------------------------------------------------------------
\* Agents.

\* Every step keeps the claim tokens to registrations that wait.
LEMMA NextAgents ==
  ASSUME AgentsDrawn, [Next]_vars
  PROVE  AgentsDrawn'
<1>1. ASSUME UNCHANGED <<regs, claims, claimed>>, drawn \subseteq drawn'
      PROVE  AgentsDrawn'
  BY <1>1 DEF AgentsDrawn, ClaimsAwaitApproval
<1>2. ASSUME NEW c \in Clients, NEW want \in Scopes \cup {"unset"}, Register(c) \/ Authorize(c, want)
      PROVE  AgentsDrawn'
  BY <1>1, <1>2 DEF Register, Authorize
<1>3. ASSUME NEW a \in Agents, RegisterAgent(a)
      PROVE  AgentsDrawn'
  BY <1>3 DEF RegisterAgent, AgentsDrawn, ClaimsAwaitApproval
<1>4. ASSUME NEW r \in Requests, Approve(r)
      PROVE  AgentsDrawn'
  BY <1>4 DEF Approve, AgentsDrawn, ClaimsAwaitApproval, data
<1>5. ASSUME NEW r \in Requests, Entering(r) \/ Minting(r), ~Approve(r)
      PROVE  UNCHANGED <<regs, claims, claimed, drawn>>
  BY <1>5 DEF Entering, TakeCode, Takes, PresentRefresh, RotateRefused, PresentClaim,
              PresentAssertion, NoRandom, Answer, Minting, AddAccess, AddRefresh, Rotate,
              AddAgentAccess, service, data
<1>6. CASE PurgeService
  BY <1>6 DEF PurgeService, LiveAgents, LiveClaims, AgentsDrawn, ClaimsAwaitApproval, data
<1>7. CASE Restart
  BY <1>7 DEF Restart, AgentsDrawn, ClaimsAwaitApproval, data
<1>8. CASE PurgeStore \/ Tick \/ UNCHANGED vars
  BY <1>1, <1>8 DEF PurgeStore, Tick, vars, service, data
<1> QED
  BY <1>1, <1>2, <1>3, <1>4, <1>5, <1>6, <1>7, <1>8 DEF Next, Entering, Minting

\* A claim token is spent with its approval and never outlives its
\* registration (verifyAgentClaim, PurgeExpired).
THEOREM ClaimsWait == Spec => []ClaimsAwaitApproval
<1>1. Init => AgentsDrawn
  BY DEF Init, AgentsDrawn, ClaimsAwaitApproval
<1>2. AgentsDrawn /\ [Next]_vars => AgentsDrawn'
  BY NextAgents
<1>3. AgentsDrawn => ClaimsAwaitApproval
  BY DEF AgentsDrawn
<1> QED
  BY <1>1, <1>2, <1>3, PTL DEF Spec
=============================================================================
