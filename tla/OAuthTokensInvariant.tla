------------------------ MODULE OAuthTokensInvariant ------------------------
(***************************************************************************)
(* What the theorems about OAuthTokens are proved from: each part names    *)
(* what a step relies on and another step must not have undone.            *)
(***************************************************************************)
EXTENDS OAuthTokens

At(r, step) == req[r].at = step

\* The server stores and hands out only pairs it has minted, takes only codes
\* it has issued.
MintedPairs ==
  /\ codes \subseteq 1..asked
  /\ access \cup refresh \cup diskAccess \cup diskRefresh \cup answered \subseteq 1..minted
  /\ \A r \in Requests :
       /\ At(r, "mint") => req[r].no \in 1..asked
       /\ At(r, "half") \/ At(r, "answer") => req[r].pair \in 1..minted

\* The memory store has no file.
FileIfDurable == Durable \/ (diskAccess = {} /\ diskRefresh = {})

\* A code in a request's hands is nobody else's, and has yielded nothing.
TakenByOne ==
  \A r \in Requests : At(r, "mint") =>
    /\ req[r].no \notin codes
    /\ \A n \in 1..minted : pairs[n].from # Source("code", req[r].no)
    /\ \A q \in Requests : q # r /\ At(q, "mint") => req[q].no # req[r].no

\* What a pair came from is gone.
SourcesSpent ==
  \A n \in 1..minted :
    /\ pairs[n].from.kind = "code" => pairs[n].from.no \in 1..asked \ codes
    /\ pairs[n].from.kind = "refresh" =>
         pairs[n].from.no \in 1..minted \ (refresh \cup diskRefresh)

\* A pair in a request's hands is nobody else's; before its refresh token is
\* stored, it is nowhere and has yielded nothing.
HeldByOne ==
  \A r \in Requests :
    /\ At(r, "half") \/ At(r, "answer") =>
         /\ req[r].pair \notin answered
         /\ \A q \in Requests : q # r /\ (At(q, "half") \/ At(q, "answer")) =>
              req[q].pair # req[r].pair
    /\ At(r, "half") =>
         /\ req[r].pair \notin refresh \cup diskRefresh
         /\ \A n \in 1..minted : pairs[n].from # Source("refresh", req[r].pair)

Redemption == MintedPairs /\ TakenByOne /\ SourcesSpent /\ HeldByOne /\ RedeemedOnce

\* A code or pair of scope write is a writer's.
WritersOnly ==
  /\ \A k \in 1..asked : grants[k].scope = "write" => grants[k].owner \in Writers
  /\ WriteComesFromRegistry

\* The file has no live token that the running store lacks.
FileIsHeld ==
  /\ \A n \in diskAccess : now < pairs[n].until => n \in access
  /\ \A n \in diskRefresh : now < pairs[n].renew => n \in refresh

Rotated(n) == \E m \in 1..minted : pairs[m].from = Source("refresh", n)

\* The access token of n, and its refresh token, are kept until their time.
AccessKept(n)  == now < pairs[n].until => n \in access /\ (Durable => n \in diskAccess)
RefreshKept(n) ==
  now < pairs[n].renew /\ ~Rotated(n) => n \in refresh /\ (Durable => n \in diskRefresh)

\* So it is with what was answered, and with what is about to be.
AnswersKept ==
  /\ \A n \in answered : AccessKept(n) /\ RefreshKept(n)
  /\ \A r \in Requests :
       /\ At(r, "half") => AccessKept(req[r].pair)
       /\ At(r, "answer") => AccessKept(req[r].pair) /\ RefreshKept(req[r].pair)

Kept == FileIsHeld /\ AnswersKept

\* What an agent has goes by an identifier that was drawn.
AgentsDrawn == regs \cup claimed \subseteq drawn /\ ClaimsAwaitApproval
=============================================================================
