---------------------------- MODULE Workspace_proofs ----------------------------
(***************************************************************************)
(* The safety of a workspace that sets up its shop.  First the connections *)
(* and the preview server: for the one what has to be carried along is     *)
(* where each refresh token is (in one row, in one call, or replaced) and  *)
(* who holds the lock of a shop, for the other what the call in its turn   *)
(* has counted.  Last the composition:                                     *)
(* every part of the run of MCWorkspace is a behaviour of each component,  *)
(* so what is proved of the components holds of it.                        *)
(***************************************************************************)
EXTENDS MCWorkspace, BrandRevisions_proofs, Storefront_proofs,
        NaturalsInduction, WellFoundedInduction

(* The connections to shops.                                                *)

\* The states of a callback and of a rotation.
Calls == [pc : {"idle", "exchange", "save", "store"}, of : SUBSET Grants, token : 0 .. MaxTokens]
Resolution == [pc : {"idle", "wait", "fetch", "save", "store", "reauth"}, of : SUBSET Workspaces,
               shop : Shops \cup {NoShop}, token : 0 .. MaxTokens, next : 0 .. MaxTokens]

\* The rotations that hold the lock, and those that hold a token of the table.
Holding(r) == resolver[r].pc \in {"fetch", "save", "store", "reauth"}
Using(r) == resolver[r].pc \in {"fetch", "save", "store"}

\* A callback has used its grant; a rotation is about one workspace, alone.
CallsWellFormed ==
  /\ \A c \in Callbacks : callback[c].of # {} =>
       \E g \in Grants : callback[c].of = {g} /\ grant[g].status = "USED"
  /\ \A c \in Callbacks : callback[c].of = {} <=> callback[c].pc = "idle"
  /\ \A c, d \in Callbacks : callback[c].of # {} /\ callback[c].of = callback[d].of => c = d
  /\ \A r \in Resolvers : resolver[r].pc # "idle" => \E w \in Workspaces : resolver[r].of = {w}
  /\ \A r, q \in Resolvers : Holding(r) /\ Holding(q) /\ resolver[r].of = resolver[q].of => r = q

\* A shop has one connected workspace, and a row that was taken away no credential.
Owners ==
  /\ \A w, v \in Workspaces :
       conn[w].status = "CONNECTED" /\ conn[v].status = "CONNECTED" /\ conn[w].shop = conn[v].shop => w = v
  /\ \A w \in Workspaces : conn[w].status \in {"NONE", "DISCONNECTED"} => conn[w].token = 0

\* Tokens that Shopify has issued and no row has had yet.
Fetched(c) == callback[c].pc \in {"save", "store"}
ConnectionRenewed(r) == resolver[r].pc \in {"save", "store"}

Unused(t) ==
  /\ t \in 1 .. issued /\ t \notin spent
  /\ \A w \in Workspaces : conn[w].token # t
  /\ \A r \in Resolvers : Using(r) => resolver[r].token # t

NewTokens ==
  /\ \A c \in Callbacks : Fetched(c) => Unused(callback[c].token)
  /\ \A r \in Resolvers : ConnectionRenewed(r) => Unused(resolver[r].next)
  /\ \A c, d \in Callbacks : Fetched(c) /\ Fetched(d) /\ callback[c].token = callback[d].token => c = d
  /\ \A r, q \in Resolvers : ConnectionRenewed(r) /\ ConnectionRenewed(q) /\ resolver[r].next = resolver[q].next => r = q
  /\ \A c \in Callbacks, r \in Resolvers : Fetched(c) /\ ConnectionRenewed(r) => callback[c].token # resolver[r].next

\* A token in the table is in one row; a connected row's has not been replaced.
RowTokens ==
  /\ spent \subseteq 1 .. issued
  /\ \A w \in Workspaces : conn[w].token \in 0 .. issued
  /\ \A w \in Workspaces : conn[w].status = "CONNECTED" => conn[w].token # 0 /\ conn[w].token \notin spent
  /\ \A w, v \in Workspaces : conn[w].token # 0 /\ conn[w].token = conn[v].token => w = v

\* The token a rotation sends is its workspace's or nobody's, and no other's.
SentTokens ==
  \A r \in Resolvers : Using(r) =>
    /\ resolver[r].token \in 1 .. issued /\ resolver[r].token \notin spent
    /\ \A w \in Workspaces : conn[w].token = resolver[r].token =>
         resolver[r].of = {w} /\ conn[w].shop = resolver[r].shop
    /\ \A q \in Resolvers : Using(q) /\ resolver[q].token = resolver[r].token => q = r

ConnectionInv == ConnectionTypeOK /\ Owners /\ CallsWellFormed /\ NewTokens /\ RowTokens /\ SentTokens

-----------------------------------------------------------------------------
\* The invariant says what the properties say.
LEMMA ConnectionInvImplies == ConnectionInv => UsedOnce
BY DEF ConnectionInv, UsedOnce, CallsWellFormed, SentTokens, Using

\* No callback, rotation or connection has its type.
LEMMA ConnectionRecords ==
  /\ NoConnection \in Connection
  /\ NoCallback \in Calls
  /\ NoResolve \in Resolution
BY ConnectionBounds DEF Calls, Resolution, NoConnection, Connection, NoCallback, NoResolve

\* Nothing is connected and no token has been issued.
LEMMA ConnectionInitInv == ConnectionInit => ConnectionInv
<1> SUFFICES ASSUME ConnectionInit PROVE ConnectionInv
  OBVIOUS
<1>1. ConnectionTypeOK
  BY ConnectionRecords, ConnectionBounds DEF ConnectionInit, ConnectionTypeOK, Tokens, Calls, Resolution
<1>2. Owners /\ CallsWellFormed
  BY DEF ConnectionInit, Owners, CallsWellFormed, NoConnection, NoCallback, NoResolve, Holding
<1>3. NewTokens /\ RowTokens /\ SentTokens
  BY DEF ConnectionInit, NewTokens, RowTokens, SentTokens, NoConnection, NoCallback, NoResolve,
         Fetched, ConnectionRenewed, Using
<1> QED  BY <1>1, <1>2, <1>3 DEF ConnectionInv

-----------------------------------------------------------------------------
(* Rows that lose their token, or only change in what the token is worth.   *)

Weaker ==
  \A w \in Workspaces :
    /\ conn'[w].status = "CONNECTED" => conn[w].status = "CONNECTED" /\ conn'[w].token = conn[w].token
    /\ conn'[w].token \in {0, conn[w].token} /\ conn'[w].shop = conn[w].shop
    /\ conn'[w].status \in {"NONE", "DISCONNECTED"} => conn'[w].token = 0

\* A step that only weakens rows preserves the invariant.
LEMMA WeakerStep ==
  ASSUME ConnectionInv, Weaker, conn' \in [Workspaces -> Connection],
         UNCHANGED <<spent, grant, callback, resolver, issued>>,
         accepted' \in [Shops -> SUBSET Tokens],
         uninstalls' \in [1 .. MaxUninstalls -> Shops \cup {NoShop}], receipts' \subseteq 1 .. MaxUninstalls
  PROVE  ConnectionInv'
<1> USE DEF ConnectionInv
<1>1. ConnectionTypeOK'
  BY DEF ConnectionTypeOK
<1>2. Owners'
  BY DEF Owners, Weaker
<1>3. CallsWellFormed'
  BY DEF CallsWellFormed, Holding
<1>4. RowTokens'
  <2>1. 0 \in 0 .. issued
    BY ConnectionBounds DEF ConnectionTypeOK
  <2>2. \A w \in Workspaces : conn'[w].token \in 0 .. issued
    BY <2>1 DEF RowTokens, Weaker
  <2> QED  BY <2>2 DEF RowTokens, Weaker
<1>5. \A t : t # 0 /\ Unused(t) => Unused(t)'
  BY DEF Unused, Weaker, Using
<1>6. NewTokens'
  <2>1. 0 \notin 1 .. issued
    OBVIOUS
  <2> QED  BY <1>5, <2>1 DEF NewTokens, Fetched, ConnectionRenewed, Unused
<1>7. SentTokens'
  <2>1. 0 \notin 1 .. issued
    OBVIOUS
  <2> QED  BY <2>1 DEF SentTokens, Using, Weaker
<1> QED  BY <1>1, <1>2, <1>3, <1>4, <1>6, <1>7

\* The rows that an operator, a webhook, a failure or time weaken.
LEMMA WeakensRow ==
  ASSUME ConnectionTypeOK, Owners, NEW w \in Workspaces,
         \/ Destroy(w) \/ RecordFailure(w) \/ UNCHANGED conn
         \/ conn[w].status = "CONNECTED" /\ conn' = [conn EXCEPT ![w].fresh = FALSE]
         \/ conn[w].status = "CONNECTED" /\ conn' = [conn EXCEPT ![w].live = FALSE]
         \/ conn' = [conn EXCEPT ![w].status = "REAUTH_REQUIRED"]
  PROVE  Weaker /\ conn' \in [Workspaces -> Connection]
<1>1. conn \in [Workspaces -> Connection]
  BY DEF ConnectionTypeOK
<1>2. CASE Destroy(w)
  <2>1. DEFINE gone == [NoConnection EXCEPT !.status = "DISCONNECTED", !.shop = conn[w].shop]
  <2>2. gone \in Connection /\ gone.status = "DISCONNECTED" /\ gone.shop = conn[w].shop /\ gone.token = 0
    BY <1>1, ConnectionRecords DEF NoConnection, Connection
  <2>3. conn' = [conn EXCEPT ![w] = gone]
    BY <1>2 DEF Destroy
  <2> HIDE DEF gone
  <2> QED  BY <1>1, <2>2, <2>3 DEF Weaker, Owners
<1>3. CASE RecordFailure(w)
  <2>1. CASE conn[w].status = "CONNECTED"
    <3>1. conn' = [conn EXCEPT ![w].failing = TRUE]
      BY <1>3, <2>1 DEF RecordFailure
    <3> QED  BY <1>1, <2>1, <3>1 DEF Weaker, Owners, Connection
  <2>2. CASE conn[w].status # "CONNECTED"
    BY <1>1, <1>3, <2>2 DEF RecordFailure, Weaker, Owners
  <2> QED  BY <2>1, <2>2
<1>4. CASE UNCHANGED conn
  BY <1>1, <1>4 DEF Weaker, Owners
<1>5. CASE conn[w].status = "CONNECTED" /\ conn' = [conn EXCEPT ![w].fresh = FALSE]
  BY <1>1, <1>5 DEF Weaker, Owners, Connection
<1>6. CASE conn[w].status = "CONNECTED" /\ conn' = [conn EXCEPT ![w].live = FALSE]
  BY <1>1, <1>6 DEF Weaker, Owners, Connection
<1>7. CASE conn' = [conn EXCEPT ![w].status = "REAUTH_REQUIRED"]
  BY <1>1, <1>7 DEF Weaker, Owners, Connection
<1> QED  BY <1>2, <1>3, <1>4, <1>5, <1>6, <1>7

-----------------------------------------------------------------------------
(* Upsert: the row takes a token that none has had.                         *)

Row(s, t) == [status |-> "CONNECTED", shop |-> s, token |-> t, fresh |-> TRUE, live |-> TRUE,
              failing |-> FALSE]

Connects(w, s, t) ==
  /\ conn'[w].status = "CONNECTED" /\ conn'[w].shop = s /\ conn'[w].token = t
  /\ \A v \in Workspaces \ {w} : conn'[v] = conn[v]

\* Either the shop is another workspace's, or the row becomes its connection.
LEMMA UpsertCases ==
  ASSUME ConnectionTypeOK, NEW w \in Workspaces, NEW s \in Shops \cup {NoShop},
         NEW t \in 0 .. MaxTokens, Upsert(w, s, t)
  PROVE  /\ conn' \in [Workspaces -> Connection]
         /\ \/ /\ \E v \in Workspaces \ {w} : conn[v].status = "CONNECTED" /\ conn[v].shop = s
               /\ conn' = conn
            \/ /\ \A v \in Workspaces \ {w} : ~(conn[v].status = "CONNECTED" /\ conn[v].shop = s)
               /\ Connects(w, s, t)
<1>1. conn \in [Workspaces -> Connection]
  BY DEF ConnectionTypeOK
<1>2. Row(s, t) \in Connection
  BY DEF Row, Connection
<1>3. CASE \E v \in Workspaces \ {w} : conn[v].status = "CONNECTED" /\ conn[v].shop = s
  BY <1>1, <1>3 DEF Upsert, Owned
<1>4. CASE ~\E v \in Workspaces \ {w} : conn[v].status = "CONNECTED" /\ conn[v].shop = s
  <2>1. conn' = [conn EXCEPT ![w] = Row(s, t)]
    BY <1>4 DEF Upsert, Owned, Row
  <2> QED  BY <1>1, <1>2, <1>4, <2>1 DEF Connects, Row
<1> QED  BY <1>3, <1>4

\* Whatever it does, a shop keeps one owner.
LEMMA UpsertOwner ==
  ASSUME ConnectionTypeOK, Owners, NEW w \in Workspaces, NEW s \in Shops \cup {NoShop},
         NEW t \in 0 .. MaxTokens, Upsert(w, s, t)
  PROVE  Owners'
<1>1. CASE conn' = conn
  BY <1>1 DEF Owners
<1>2. CASE /\ \A v \in Workspaces \ {w} : ~(conn[v].status = "CONNECTED" /\ conn[v].shop = s)
           /\ Connects(w, s, t)
  <2>1. \A u, v \in Workspaces :
          conn'[u].status = "CONNECTED" /\ conn'[v].status = "CONNECTED" /\ conn'[u].shop = conn'[v].shop
            => u = v
    BY <1>2 DEF Owners, Connects
  <2>2. \A v \in Workspaces : conn'[v].status \in {"NONE", "DISCONNECTED"} => conn'[v].token = 0
    BY <1>2 DEF Owners, Connects
  <2> QED  BY <2>1, <2>2 DEF Owners
<1> QED  BY <1>1, <1>2, UpsertCases

\* A callback stores its token.
LEMMA SaveGrantStep == ASSUME ConnectionInv, NEW c \in Callbacks, SaveGrant(c) PROVE ConnectionInv'
<1> USE DEF ConnectionInv
<1>0. PICK g \in callback[c].of : \E w \in grant[g].of : Upsert(w, grant[g].shop, callback[c].token)
  BY DEF SaveGrant
<1>1. PICK w \in grant[g].of : Upsert(w, grant[g].shop, callback[c].token)
  BY <1>0
<1> DEFINE t == callback[c].token  s == grant[g].shop
<1>2. /\ g \in Grants /\ w \in Workspaces /\ s \in Shops \cup {NoShop} /\ t \in 0 .. MaxTokens
      /\ Fetched(c) /\ Unused(t) /\ callback' = [callback EXCEPT ![c] = NoCallback]
      /\ UNCHANGED <<spent, grant, resolver, remote, receipts>>
  BY <1>1 DEF SaveGrant, ConnectionTypeOK, Fetched, NewTokens
<1> HIDE DEF t, s
<1>3. Owners' /\ conn' \in [Workspaces -> Connection]
  BY <1>1, <1>2, UpsertOwner, UpsertCases DEF t, s
<1>4. conn' = conn \/ Connects(w, s, t)
  BY <1>1, <1>2, UpsertCases DEF t, s
<1>5. ConnectionTypeOK'
  BY <1>2, <1>3, ConnectionRecords DEF ConnectionTypeOK, remote, Calls
<1>6. CallsWellFormed'
  <2>1. /\ callback'[c].pc = "idle" /\ callback'[c].of = {}
        /\ \A d \in Callbacks : d # c => callback'[d] = callback[d]
    BY <1>2 DEF NoCallback, ConnectionTypeOK
  <2> QED  BY <1>2, <2>1 DEF CallsWellFormed, Holding
<1>7. RowTokens'
  <2>1. CASE conn' = conn
    BY <1>2, <2>1 DEF RowTokens, remote
  <2>2. CASE Connects(w, s, t)
    BY <1>2, <2>2 DEF RowTokens, Unused, Connects, remote
  <2> QED  BY <1>4, <2>1, <2>2
<1>8. NewTokens'
  <2>1. \A u : Unused(u) /\ u # t => Unused(u)'
    BY <1>2, <1>4 DEF Unused, Connects, Using, remote
  <2>2. \A d \in Callbacks : Fetched(d)' => d # c /\ Fetched(d) /\ callback'[d] = callback[d]
    BY <1>2 DEF Fetched, NoCallback, ConnectionTypeOK
  <2>3. \A r \in Resolvers : ConnectionRenewed(r)' <=> ConnectionRenewed(r)
    BY <1>2 DEF ConnectionRenewed
  <2> QED  BY <1>2, <2>1, <2>2, <2>3 DEF NewTokens, t
<1>9. SentTokens'
  <2>1. CASE conn' = conn
    BY <1>2, <2>1 DEF SentTokens, Using, remote
  <2>2. CASE Connects(w, s, t)
    BY <1>2, <2>2 DEF SentTokens, Unused, Connects, Using, remote
  <2> QED  BY <1>4, <2>1, <2>2
<1> QED  BY <1>3, <1>5, <1>6, <1>7, <1>8, <1>9

\* A rotation stores the pair it got, and its token is spent.
LEMMA SaveRotationStep == ASSUME ConnectionInv, NEW r \in Resolvers, SaveRotation(r) PROVE ConnectionInv'
<1> USE DEF ConnectionInv
<1>1. PICK w \in resolver[r].of :
        /\ Upsert(w, resolver[r].shop, resolver[r].next)
        /\ spent' = IF Owned(w, resolver[r].shop) THEN spent ELSE spent \cup {resolver[r].token}
  BY DEF SaveRotation
<1> DEFINE t == resolver[r].next  s == resolver[r].shop  old == resolver[r].token
<1>2. /\ ConnectionRenewed(r) /\ Using(r) /\ resolver' = [resolver EXCEPT ![r] = NoResolve]
      /\ UNCHANGED <<grant, callback, remote, receipts>>
  BY DEF SaveRotation, ConnectionRenewed, Using
<1>3. /\ w \in Workspaces /\ resolver[r].of = {w} /\ s \in Shops \cup {NoShop} /\ t \in 0 .. MaxTokens
      /\ Unused(t) /\ old \in 1 .. issued /\ old # t
  <2>1. resolver[r].of = {w}
    BY <1>1, <1>2 DEF CallsWellFormed, Using
  <2>2. w \in Workspaces /\ s \in Shops \cup {NoShop} /\ t \in 0 .. MaxTokens
    BY <1>1 DEF ConnectionTypeOK
  <2>3. Unused(t) /\ old \in 1 .. issued
    BY <1>2 DEF NewTokens, SentTokens
  <2> QED  BY <1>2, <2>1, <2>2, <2>3 DEF Unused
<1>4. \A v \in Workspaces : conn[v].token = old => v = w /\ conn[v].shop = s
  BY <1>2, <1>3 DEF SentTokens
<1>5. \A q \in Resolvers : q # r /\ Using(q) => resolver[q].token # old
  BY <1>2 DEF SentTokens
<1>6. /\ \A c \in Callbacks : Fetched(c) => callback[c].token \notin {t, old}
      /\ \A q \in Resolvers : q # r /\ ConnectionRenewed(q) => resolver[q].next \notin {t, old}
  BY <1>2 DEF NewTokens, Unused
<1> HIDE DEF t, s, old
<1>7. Owners' /\ conn' \in [Workspaces -> Connection]
  BY <1>1, <1>3, UpsertOwner, UpsertCases DEF t, s
<1>8. \/ conn' = conn /\ spent' = spent
      \/ Connects(w, s, t) /\ spent' = spent \cup {old}
  BY <1>1, <1>3, UpsertCases DEF t, s, old, Owned
<1>9. ConnectionTypeOK'
  <2>1. old \in Tokens
    BY <1>3, ConnectionBounds DEF ConnectionTypeOK, Tokens
  <2> QED  BY <1>2, <1>7, <1>8, <2>1, ConnectionRecords DEF ConnectionTypeOK, remote, Resolution
<1>10. /\ resolver'[r] = NoResolve /\ resolver'[r].pc = "idle"
       /\ \A q \in Resolvers : q # r => resolver'[q] = resolver[q]
  BY <1>2 DEF ConnectionTypeOK, NoResolve
<1>11. CallsWellFormed'
  BY <1>2, <1>10 DEF CallsWellFormed, Holding
<1>12. \A q \in Resolvers : /\ Using(q)' => q # r /\ Using(q) /\ resolver'[q] = resolver[q]
                            /\ ConnectionRenewed(q)' => q # r /\ ConnectionRenewed(q) /\ resolver'[q] = resolver[q]
  BY <1>10 DEF Using, ConnectionRenewed
<1>13. RowTokens'
  <2>1. CASE conn' = conn /\ spent' = spent
    BY <1>2, <2>1 DEF RowTokens, remote
  <2>2. CASE Connects(w, s, t) /\ spent' = spent \cup {old}
    BY <1>2, <1>3, <1>4, <2>2 DEF RowTokens, Unused, Connects, remote
  <2> QED  BY <1>8, <2>1, <2>2
<1>14. NewTokens'
  <2>1. \A u : Unused(u) /\ u \notin {t, old} => Unused(u)'
    BY <1>2, <1>8, <1>12 DEF Unused, Connects, remote
  <2> QED  BY <1>2, <1>6, <1>12, <2>1 DEF NewTokens, Fetched
<1>15. SentTokens'
  <2>1. \A q \in Resolvers : q # r /\ Using(q) => resolver[q].token # t
    BY <1>3 DEF Unused
  <2> QED  BY <1>2, <1>5, <1>8, <1>12, <2>1 DEF SentTokens, Connects, remote
<1> QED  BY <1>7, <1>9, <1>11, <1>13, <1>14, <1>15

-----------------------------------------------------------------------------
(* The other steps.                                                         *)

Same(r) == resolver'[r] = resolver[r]

\* A step that only moves one rotation, to a stage at which it sends nothing.
LEMMA RestStep ==
  ASSUME ConnectionInv, NEW r \in Resolvers, Weaker, conn' \in [Workspaces -> Connection],
         UNCHANGED <<spent, grant, callback, uninstalls, receipts>>,
         issued' \in issued .. MaxTokens, accepted' \in [Shops -> SUBSET Tokens],
         resolver' \in [Resolvers -> Resolution],
         \A q \in Resolvers : q # r => Same(q),
         resolver'[r].pc \in {"idle", "wait", "reauth"},
         resolver'[r].pc = "reauth" =>
           resolver'[r].of = resolver[r].of /\ (Holding(r) \/ \A q \in Resolvers : Holding(q) => resolver[q].of # resolver[r].of),
         resolver'[r].pc # "idle" => \E w \in Workspaces : resolver'[r].of = {w}
  PROVE  ConnectionInv'
<1> USE DEF ConnectionInv
<1>0. /\ issued \in Nat /\ issued' \in 0 .. MaxTokens /\ 0 \in 0 .. issued /\ 0 \notin 1 .. issued
      /\ 1 .. issued \subseteq 1 .. issued' /\ 0 .. issued \subseteq 0 .. issued'
  BY ConnectionBounds DEF ConnectionTypeOK
<1>1. ConnectionTypeOK'
  BY <1>0 DEF ConnectionTypeOK, Resolution
<1>2. Owners'
  BY DEF Owners, Weaker
<1>3. CallsWellFormed'
  <2>1. \A q \in Resolvers : resolver'[q].pc # "idle" => \E w \in Workspaces : resolver'[q].of = {w}
    BY DEF CallsWellFormed, Same
  <2>2. \A q \in Resolvers : q # r /\ Holding(q)' => Holding(q) /\ resolver'[q].of = resolver[q].of
    BY DEF Holding, Same
  <2>3. Holding(r)' => resolver'[r].pc = "reauth"
    BY DEF Holding
  <2>4. \A p, q \in Resolvers : Holding(p)' /\ Holding(q)' /\ resolver'[p].of = resolver'[q].of => p = q
    BY <2>2, <2>3 DEF CallsWellFormed
  <2> QED  BY <2>1, <2>4 DEF CallsWellFormed
<1>4. \A q \in Resolvers : /\ Using(q)' => Using(q) /\ Same(q)
                           /\ ConnectionRenewed(q)' => ConnectionRenewed(q) /\ Same(q)
  BY DEF Using, ConnectionRenewed, Same
<1>5. RowTokens'
  <2>1. \A w \in Workspaces : conn'[w].token \in 0 .. issued'
    BY <1>0 DEF RowTokens, Weaker
  <2> QED  BY <1>0, <2>1 DEF RowTokens, Weaker
<1>6. NewTokens'
  <2>1. \A t : Unused(t) => Unused(t)'
    BY <1>0, <1>4 DEF Unused, Weaker, Same
  <2> QED  BY <1>4, <2>1 DEF NewTokens, Fetched, Same
<1>7. SentTokens'
  BY <1>0, <1>4 DEF SentTokens, Weaker, Same
<1> QED  BY <1>1, <1>2, <1>3, <1>5, <1>6, <1>7

\* Shopify's side is left alone.
LEMMA RemoteStays ==
  ASSUME ConnectionTypeOK, UNCHANGED remote
  PROVE  issued' \in issued .. MaxTokens /\ accepted' \in [Shops -> SUBSET Tokens] /\ uninstalls' = uninstalls
BY ConnectionBounds DEF ConnectionTypeOK, remote

\* A rotation begins, loses its lock or ends without a new token.
LEMMA RestsOrBegins ==
  ASSUME ConnectionInv, NEW r \in Resolvers,
         \/ MarkReauth(r) \/ ResolverDies(r) \/ \E w \in Workspaces : Resolve(r, w)
  PROVE  ConnectionInv'
<1> USE DEF ConnectionInv
<1>0. resolver \in [Resolvers -> Resolution] /\ NoResolve \in Resolution
  BY ConnectionRecords DEF ConnectionTypeOK, Resolution
<1>1. \E c \in Resolution :
        /\ resolver' = [resolver EXCEPT ![r] = c] /\ c.pc \in {"idle", "wait"}
        /\ c.pc # "idle" => \E w \in Workspaces : c.of = {w}
  <2>1. CASE MarkReauth(r) \/ ResolverDies(r)
    <3>1. NoResolve.pc = "idle"
      BY DEF NoResolve
    <3> QED  BY <1>0, <2>1, <3>1 DEF MarkReauth, ResolverDies
  <2>2. CASE \E w \in Workspaces : Resolve(r, w)
    <3>1. PICK w \in Workspaces : Resolve(r, w)
      BY <2>2
    <3> DEFINE c == [NoResolve EXCEPT !.pc = "wait", !.of = {w}]
    <3>2. c \in Resolution /\ c.pc = "wait" /\ c.of = {w}
      BY <1>0 DEF NoResolve, Resolution
    <3>3. resolver' = [resolver EXCEPT ![r] = c]
      BY <3>1 DEF Resolve
    <3> HIDE DEF c
    <3> QED  BY <3>2, <3>3
  <2> QED  BY <2>1, <2>2
<1>2. UNCHANGED <<spent, grant, callback, remote, receipts>>
  BY DEF MarkReauth, ResolverDies, Resolve
<1>3. Weaker /\ conn' \in [Workspaces -> Connection]
  <2>1. CASE MarkReauth(r)
    <3>1. PICK w \in resolver[r].of : conn' = [conn EXCEPT ![w].status = "REAUTH_REQUIRED"]
      BY <2>1 DEF MarkReauth
    <3>2. w \in Workspaces
      BY <3>1 DEF ConnectionTypeOK
    <3> QED  BY <3>1, <3>2, WeakensRow
  <2>2. CASE UNCHANGED conn
    BY <2>2 DEF Weaker, Owners, ConnectionTypeOK
  <2> QED  BY <2>1, <2>2 DEF ResolverDies, Resolve
<1>4. PICK c \in Resolution :
        /\ resolver' = [resolver EXCEPT ![r] = c] /\ c.pc \in {"idle", "wait"}
        /\ c.pc # "idle" => \E w \in Workspaces : c.of = {w}
  BY <1>1
<1>5. /\ resolver' \in [Resolvers -> Resolution] /\ resolver'[r] = c
      /\ \A q \in Resolvers : q # r => Same(q)
  BY <1>0, <1>4 DEF Same
<1> QED  BY <1>2, <1>3, <1>4, <1>5, RestStep, RemoteStays

\* The lock of a workspace is free, and its row is looked at again.
LEMMA ConnectionLockStep == ASSUME ConnectionInv, NEW r \in Resolvers, LockRotation(r) PROVE ConnectionInv'
<1> USE DEF ConnectionInv
<1>0. resolver \in [Resolvers -> Resolution] /\ NoResolve \in Resolution /\ NoResolve.pc = "idle"
  BY ConnectionRecords DEF ConnectionTypeOK, Resolution, NoResolve
<1>1. PICK w \in resolver[r].of : ~Rotating(w) /\ LookAgain(r, w)
  BY DEF LockRotation
<1>2. /\ w \in Workspaces /\ resolver[r].of = {w} /\ resolver[r].pc = "wait"
      /\ UNCHANGED <<conn, spent, grant, callback, remote, receipts>>
  BY <1>0, <1>1 DEF LockRotation, CallsWellFormed, Resolution
<1>3. Weaker /\ conn' \in [Workspaces -> Connection]
  BY <1>2 DEF Weaker, Owners, ConnectionTypeOK
<1>4. \A q \in Resolvers : Holding(q) => resolver[q].of # {w}
  BY <1>1 DEF Rotating, Holding
<1>5. CASE conn[w].status # "CONNECTED" \/ conn[w].fresh
  <2>1. resolver' = [resolver EXCEPT ![r] = NoResolve]
    BY <1>1, <1>5 DEF LookAgain
  <2>2. /\ resolver' \in [Resolvers -> Resolution] /\ resolver'[r] = NoResolve
        /\ \A q \in Resolvers : q # r => Same(q)
    BY <1>0, <2>1 DEF Same
  <2> QED  BY <1>0, <1>2, <1>3, <2>2, RestStep, RemoteStays
<1>6. CASE conn[w].status = "CONNECTED" /\ ~conn[w].fresh
  <2> DEFINE c == [resolver[r] EXCEPT !.pc = IF conn[w].live THEN "fetch" ELSE "reauth",
                                      !.shop = conn[w].shop, !.token = conn[w].token]
  <2>1. resolver' = [resolver EXCEPT ![r] = c]
    BY <1>1, <1>6 DEF LookAgain
  <2>2. conn[w] \in Connection
    BY <1>2 DEF ConnectionTypeOK
  <2>3. /\ c \in Resolution /\ c.pc \in {"fetch", "reauth"} /\ c.of = {w}
        /\ c.shop = conn[w].shop /\ c.token = conn[w].token
    BY <1>0, <1>2, <2>2 DEF Resolution, Connection
  <2> HIDE DEF c
  <2>4. /\ resolver' \in [Resolvers -> Resolution] /\ resolver'[r] = c
        /\ \A q \in Resolvers : q # r => Same(q)
    BY <1>0, <2>1, <2>3 DEF Same
  <2>5. ConnectionTypeOK'
    BY <1>2, <2>4 DEF ConnectionTypeOK, Resolution, remote
  <2>6. Owners' /\ RowTokens'
    BY <1>2 DEF Owners, RowTokens, remote
  <2>7. CallsWellFormed'
    <3>1. \A q \in Resolvers : q # r /\ Holding(q)' => Holding(q) /\ resolver'[q].of # {w}
      BY <1>4, <2>4 DEF Holding, Same
    <3>2. \A q \in Resolvers : resolver'[q].pc # "idle" => \E v \in Workspaces : resolver'[q].of = {v}
      BY <1>2, <2>3, <2>4 DEF CallsWellFormed, Same
    <3>3. \A p, q \in Resolvers : Holding(p)' /\ Holding(q)' /\ resolver'[p].of = resolver'[q].of => p = q
      BY <2>3, <2>4, <3>1 DEF CallsWellFormed, Same
    <3> QED  BY <1>2, <3>2, <3>3 DEF CallsWellFormed
  <2>8. \A q \in Resolvers : q # r /\ Using(q) => resolver[q].token # conn[w].token
    BY <1>2, <1>4 DEF SentTokens, Using, Holding
  <2>9. conn[w].token \in 1 .. issued /\ conn[w].token \notin spent
    BY <1>2, <1>6, ConnectionBounds DEF RowTokens, ConnectionTypeOK
  <2>10. SentTokens'
    <3>1. \A v \in Workspaces : conn[v].token = c.token => v = w
      BY <1>2, <2>3, <2>9, ConnectionBounds DEF RowTokens, ConnectionTypeOK
    <3>2. \A q \in Resolvers : q # r /\ Using(q)' => Using(q) /\ Same(q) /\ resolver[q].token # c.token
      BY <2>3, <2>4, <2>8 DEF Using, Same
    <3> QED  BY <1>2, <2>3, <2>4, <2>9, <3>1, <3>2 DEF SentTokens, Same, remote
  <2>11. NewTokens'
    <3>1. \A t : Unused(t) => Unused(t)'
      BY <1>2, <2>3, <2>4 DEF Unused, Using, Same, remote
    <3>2. \A q \in Resolvers : ConnectionRenewed(q)' => ConnectionRenewed(q) /\ Same(q)
      BY <2>3, <2>4 DEF ConnectionRenewed, Same
    <3> QED  BY <1>2, <3>1, <3>2 DEF NewTokens, Fetched, Same
  <2> QED  BY <2>5, <2>6, <2>7, <2>10, <2>11
<1>7. conn[w].fresh \in BOOLEAN
  BY <1>2 DEF ConnectionTypeOK, Connection
<1> QED  BY <1>5, <1>6, <1>7

\* What a refreshed rotation becomes.
LEMMA RefreshedCall ==
  ASSUME NEW d \in Resolution, NEW n \in 0 .. MaxTokens
  PROVE  LET c == [d EXCEPT !.pc = "save", !.next = n]
         IN  /\ c \in Resolution /\ c.pc = "save" /\ c.next = n
             /\ c.of = d.of /\ c.shop = d.shop /\ c.token = d.token
BY DEF Resolution

\* A rotation finds its shop free, or another workspace connected to it.
LEMMA SeekOwnerAgainStep == ASSUME ConnectionInv, NEW r \in Resolvers, SeekOwnerAgain(r) PROVE ConnectionInv'
<1> USE DEF ConnectionInv
<1>0. resolver \in [Resolvers -> Resolution] /\ NoResolve \in Resolution /\ NoResolve.pc = "idle"
  BY ConnectionRecords DEF ConnectionTypeOK, Resolution, NoResolve
<1>1. resolver[r].pc = "save" /\ UNCHANGED <<conn, spent, grant, callback, remote, receipts>>
  BY DEF SeekOwnerAgain
<1>2. Weaker /\ conn' \in [Workspaces -> Connection]
  BY <1>1 DEF Weaker, Owners, ConnectionTypeOK
<1> DEFINE d == [resolver[r] EXCEPT !.pc = "store"]
<1>3. /\ d \in Resolution /\ d.pc = "store" /\ d.of = resolver[r].of /\ d.shop = resolver[r].shop
      /\ d.token = resolver[r].token /\ d.next = resolver[r].next
  BY <1>0 DEF Resolution
<1>4. resolver' = [resolver EXCEPT ![r] = NoResolve] \/ resolver' = [resolver EXCEPT ![r] = d]
  BY <1>0 DEF SeekOwnerAgain
<1> HIDE DEF d
<1>5. CASE resolver' = [resolver EXCEPT ![r] = NoResolve]
  <2>1. /\ resolver' \in [Resolvers -> Resolution] /\ resolver'[r] = NoResolve
        /\ \A q \in Resolvers : q # r => Same(q)
    BY <1>0, <1>5 DEF Same
  <2> QED  BY <1>0, <1>1, <1>2, <2>1, RestStep, RemoteStays
<1>6. CASE resolver' = [resolver EXCEPT ![r] = d]
  <2>1. /\ resolver' \in [Resolvers -> Resolution] /\ resolver'[r] = d
        /\ \A q \in Resolvers : q # r => resolver'[q] = resolver[q]
    BY <1>0, <1>3, <1>6
  <2>2. \A q \in Resolvers :
          /\ resolver'[q].token = resolver[q].token /\ resolver'[q].shop = resolver[q].shop
          /\ resolver'[q].of = resolver[q].of /\ resolver'[q].next = resolver[q].next
          /\ (resolver'[q].pc = "idle" <=> resolver[q].pc = "idle")
          /\ (Holding(q)' <=> Holding(q)) /\ (Using(q)' <=> Using(q))
          /\ (ConnectionRenewed(q)' <=> ConnectionRenewed(q))
    BY <1>1, <1>3, <2>1 DEF Holding, Using, ConnectionRenewed
  <2>3. ConnectionTypeOK' /\ Owners' /\ RowTokens'
    BY <1>1, <2>1 DEF ConnectionTypeOK, Owners, RowTokens, remote, Resolution
  <2>4. CallsWellFormed'
    BY <1>1, <2>2 DEF CallsWellFormed
  <2>5. \A t : Unused(t)' <=> Unused(t)
    BY <1>1, <2>2 DEF Unused, remote
  <2>6. NewTokens'
    BY <1>1, <2>2, <2>5 DEF NewTokens, Fetched
  <2>7. SentTokens'
    BY <1>1, <2>2 DEF SentTokens, remote
  <2> QED  BY <2>3, <2>4, <2>6, <2>7
<1> QED  BY <1>4, <1>5, <1>6

\* Shopify answers a refresh with a new token, which is kept for the moment.
LEMMA RefreshedStep ==
  ASSUME ConnectionInv, NEW r \in Resolvers, resolver[r].pc = "fetch", issued < MaxTokens, issued' = issued + 1,
         accepted' \in [Shops -> SUBSET Tokens], resolver' \in [Resolvers -> Resolution],
         resolver'[r].pc = "save", resolver'[r].next = issued + 1, resolver'[r].of = resolver[r].of,
         resolver'[r].shop = resolver[r].shop, resolver'[r].token = resolver[r].token,
         \A q \in Resolvers : q # r => Same(q),
         UNCHANGED <<conn, spent, grant, callback, uninstalls, receipts>>
  PROVE  ConnectionInv'
<1> USE DEF ConnectionInv
<1>1. /\ issued \in Nat /\ issued + 1 \in 1 .. MaxTokens /\ issued' \in 0 .. MaxTokens
      /\ 1 .. issued \subseteq 1 .. issued' /\ 0 .. issued \subseteq 0 .. issued'
      /\ issued + 1 \in 1 .. issued' /\ issued + 1 \notin 1 .. issued /\ issued + 1 \notin 0 .. issued
  BY ConnectionBounds DEF ConnectionTypeOK
<1>2. \A q \in Resolvers :
        /\ resolver'[q].token = resolver[q].token /\ resolver'[q].shop = resolver[q].shop
        /\ resolver'[q].of = resolver[q].of
        /\ (resolver'[q].pc = "idle" <=> resolver[q].pc = "idle")
        /\ (Holding(q)' <=> Holding(q)) /\ (Using(q)' <=> Using(q))
  BY DEF Holding, Using, Same
<1>3. ConnectionTypeOK'
  BY <1>1 DEF ConnectionTypeOK, Resolution
<1>4. Owners'
  BY DEF Owners
<1>5. CallsWellFormed'
  BY <1>2 DEF CallsWellFormed
<1>6. RowTokens'
  BY <1>1 DEF RowTokens
<1>7. SentTokens'
  BY <1>1, <1>2 DEF SentTokens
<1> PICK n : n = issued + 1
  OBVIOUS
<1>8. Unused(n)'
  BY <1>1, <1>2 DEF Unused, RowTokens, SentTokens
<1>9. \A t : Unused(t) => Unused(t)' /\ t # n
  BY <1>1, <1>2 DEF Unused
<1>10. \A q \in Resolvers : q # r /\ ConnectionRenewed(q)' => ConnectionRenewed(q) /\ resolver'[q].next = resolver[q].next
  BY DEF ConnectionRenewed, Same
<1>11. NewTokens'
  BY <1>8, <1>9, <1>10 DEF NewTokens, Fetched
<1> QED  BY <1>3, <1>4, <1>5, <1>6, <1>7, <1>11

\* A refresh succeeds, its answer is lost, or it fails.
LEMMA RefreshStep == ASSUME ConnectionInv, NEW r \in Resolvers, RefreshToken(r) PROVE ConnectionInv'
<1> USE DEF ConnectionInv
<1>0. resolver \in [Resolvers -> Resolution] /\ NoResolve \in Resolution /\ NoResolve.pc = "idle"
  BY ConnectionRecords DEF ConnectionTypeOK, Resolution, NoResolve
<1>1. PICK w \in Workspaces : resolver[r].of = {w}
  BY DEF RefreshToken, CallsWellFormed
<1>2. resolver[r].pc = "fetch" /\ UNCHANGED <<spent, grant, callback, uninstalls, receipts>>
  BY DEF RefreshToken
<1>3. CASE UNCHANGED <<accepted, issued>>
  <2>1. Weaker /\ conn' \in [Workspaces -> Connection]
    BY <1>1, <1>3, WeakensRow, ConnectionBounds DEF RefreshToken, ConnectionTypeOK
  <2>2. PICK c \in {NoResolve, [resolver[r] EXCEPT !.pc = "reauth"]} : resolver' = [resolver EXCEPT ![r] = c]
    BY <1>0, <1>3, ConnectionBounds DEF RefreshToken, ConnectionTypeOK
  <2>3. c \in Resolution /\ c.pc \in {"idle", "reauth"} /\ (c.pc = "reauth" => c.of = resolver[r].of)
    BY <1>0, <2>2 DEF Resolution
  <2>4. /\ resolver' \in [Resolvers -> Resolution] /\ resolver'[r] = c
        /\ \A q \in Resolvers : q # r => Same(q)
    BY <1>0, <2>2, <2>3 DEF Same
  <2>5. Holding(r)
    BY <1>2 DEF Holding
  <2>6. UNCHANGED remote
    BY <1>2, <1>3 DEF remote
  <2> QED  BY <1>1, <1>2, <2>1, <2>3, <2>4, <2>5, <2>6, RestStep, RemoteStays
<1>4. CASE issued' = issued + 1
  <2>1. accepted' \in [Shops -> SUBSET Tokens] /\ issued < MaxTokens
    <3>1. issued' # issued
      BY <1>4, ConnectionBounds DEF ConnectionTypeOK
    <3>2. resolver[r].token \in accepted[resolver[r].shop] /\ issued < MaxTokens
          /\ accepted' = [accepted EXCEPT ![resolver[r].shop] = (@ \ {resolver[r].token}) \cup {issued + 1}]
      BY <3>1 DEF RefreshToken
    <3>3. issued + 1 \in Tokens
      BY <3>2, ConnectionBounds DEF ConnectionTypeOK, Tokens
    <3> QED  BY <3>2, <3>3 DEF ConnectionTypeOK
  <2>2. CASE resolver' = [resolver EXCEPT ![r].pc = "save", ![r].next = issued + 1] /\ UNCHANGED conn
    <3> DEFINE c == [resolver[r] EXCEPT !.pc = "save", !.next = issued + 1]
    <3>1. issued + 1 \in 0 .. MaxTokens
      BY <2>1, ConnectionBounds DEF ConnectionTypeOK
    <3>2. /\ c \in Resolution /\ c.pc = "save" /\ c.next = issued + 1
          /\ c.of = resolver[r].of /\ c.shop = resolver[r].shop /\ c.token = resolver[r].token
      BY <1>0, <3>1, RefreshedCall
    <3>3. resolver' = [resolver EXCEPT ![r] = c]
      BY <1>0, <2>2
    <3> HIDE DEF c
    <3>4. /\ resolver' \in [Resolvers -> Resolution] /\ resolver'[r] = c
          /\ \A q \in Resolvers : q # r => Same(q)
      BY <1>0, <3>2, <3>3 DEF Same
    <3> QED  BY <1>2, <1>4, <2>1, <2>2, <3>2, <3>4, RefreshedStep
  <2>3. CASE resolver' = [resolver EXCEPT ![r] = NoResolve] /\ RecordFailure(w)
    <3>1. Weaker /\ conn' \in [Workspaces -> Connection]
      BY <2>3, WeakensRow
    <3>2. /\ resolver' \in [Resolvers -> Resolution] /\ resolver'[r] = NoResolve
          /\ \A q \in Resolvers : q # r => Same(q)
      BY <1>0, <2>3 DEF Same
    <3>3. issued' \in issued .. MaxTokens
      BY <1>4, <2>1, ConnectionBounds DEF ConnectionTypeOK
    <3> QED  BY <1>0, <1>2, <2>1, <3>1, <3>2, <3>3, RestStep
  <2>4. issued' # issued
    BY <1>4, ConnectionBounds DEF ConnectionTypeOK
  <2> QED  BY <1>1, <2>2, <2>3, <2>4 DEF RefreshToken
<1> QED  BY <1>3, <1>4 DEF RefreshToken

\* A callback that finds its shop free, that finds it taken, or that dies.
LEMMA CallbackEndsOrStores ==
  ASSUME ConnectionInv, NEW c \in Callbacks, SeekOwner(c) \/ CallbackDies(c)
  PROVE  ConnectionInv'
<1> USE DEF ConnectionInv
<1>0. /\ callback \in [Callbacks -> Calls] /\ NoCallback \in Calls
      /\ NoCallback.pc = "idle" /\ NoCallback.of = {}
  BY ConnectionRecords DEF ConnectionTypeOK, Calls, NoCallback
<1>1. UNCHANGED <<conn, spent, grant, resolver, remote, receipts>>
  BY DEF SeekOwner, CallbackDies
<1> DEFINE e == [callback[c] EXCEPT !.pc = "store"]
<1>2. e \in Calls /\ e.pc = "store" /\ e.of = callback[c].of /\ e.token = callback[c].token
  BY <1>0 DEF Calls
<1>3. \/ callback' = [callback EXCEPT ![c] = NoCallback]
      \/ callback[c].pc = "save" /\ callback' = [callback EXCEPT ![c] = e]
  BY <1>0 DEF SeekOwner, CallbackDies
<1> HIDE DEF e
<1>4. /\ callback' \in [Callbacks -> Calls]
      /\ \A b \in Callbacks : b # c => callback'[b] = callback[b]
      /\ \/ callback'[c] = NoCallback
         \/ Fetched(c) /\ callback[c].pc # "idle" /\ callback'[c] = e
  BY <1>0, <1>2, <1>3 DEF Fetched
<1>5. ConnectionTypeOK' /\ Owners' /\ RowTokens' /\ SentTokens'
  BY <1>1, <1>4 DEF ConnectionTypeOK, Calls, Owners, RowTokens, SentTokens, Using, remote
<1>6. CallsWellFormed'
  BY <1>0, <1>1, <1>2, <1>4 DEF CallsWellFormed, Holding
<1>7. \A t : Unused(t)' <=> Unused(t)
  BY <1>1 DEF Unused, Using, remote
<1>8. \A b \in Callbacks : Fetched(b)' => Fetched(b) /\ callback'[b].token = callback[b].token
  BY <1>0, <1>2, <1>4 DEF Fetched
<1>9. NewTokens'
  BY <1>1, <1>7, <1>8 DEF NewTokens, ConnectionRenewed
<1> QED  BY <1>5, <1>6, <1>9

\* A callback gets its token from Shopify, or gives up.
LEMMA ExchangeStep == ASSUME ConnectionInv, NEW c \in Callbacks, ExchangeCode(c) PROVE ConnectionInv'
<1> USE DEF ConnectionInv
<1>0. callback \in [Callbacks -> Calls] /\ NoCallback \in Calls
  BY ConnectionRecords DEF ConnectionTypeOK, Calls
<1>1. callback[c].pc = "exchange" /\ UNCHANGED <<conn, spent, grant, resolver, uninstalls, receipts>>
  BY DEF ExchangeCode
<1>2. PICK n : n = issued + 1
  OBVIOUS
<1>3. CASE issued < MaxTokens /\ issued' = n /\ callback' = [callback EXCEPT ![c].pc = "save", ![c].token = n]
  <2>1. /\ n \in 1 .. MaxTokens /\ n \in 0 .. MaxTokens /\ n \in Tokens
        /\ 1 .. issued \subseteq 1 .. issued' /\ 0 .. issued \subseteq 0 .. issued'
        /\ n \in 1 .. issued' /\ n \notin 1 .. issued /\ n \notin 0 .. issued /\ issued' # issued
    BY <1>2, <1>3, ConnectionBounds DEF ConnectionTypeOK, Tokens
  <2>2. accepted' \in [Shops -> SUBSET Tokens]
    <3>1. PICK g \in callback[c].of : \E kept \in {{}, accepted[grant[g].shop]} :
            accepted' = [accepted EXCEPT ![grant[g].shop] = kept \cup {n}]
      BY <1>2, <1>3, <2>1 DEF ExchangeCode
    <3>2. PICK kept \in {{}, accepted[grant[g].shop]} :
            accepted' = [accepted EXCEPT ![grant[g].shop] = kept \cup {n}]
      BY <3>1
    <3>3. CASE grant[g].shop \in Shops
      BY <2>1, <3>2, <3>3 DEF ConnectionTypeOK
    <3>4. CASE grant[g].shop \notin Shops
      <4>1. accepted' = accepted
        BY <3>2, <3>4 DEF ConnectionTypeOK
      <4> QED  BY <4>1 DEF ConnectionTypeOK
    <3> QED  BY <3>3, <3>4
  <2> DEFINE d == [callback[c] EXCEPT !.pc = "save", !.token = n]
  <2>3. d \in Calls /\ d.pc = "save" /\ d.token = n /\ d.of = callback[c].of
    BY <1>0, <2>1 DEF Calls
  <2>4. callback' = [callback EXCEPT ![c] = d]
    BY <1>0, <1>3
  <2> HIDE DEF d
  <2>5. /\ callback' \in [Callbacks -> Calls] /\ callback'[c] = d
        /\ \A b \in Callbacks : b # c => callback'[b] = callback[b]
    BY <1>0, <2>3, <2>4
  <2>6. ConnectionTypeOK'
    BY <1>1, <1>3, <2>1, <2>2, <2>5 DEF ConnectionTypeOK, Calls
  <2>7. Owners' /\ SentTokens'
    BY <1>1, <2>1 DEF Owners, SentTokens, Using
  <2>8. CallsWellFormed'
    <3>1. \A b \in Callbacks : callback'[b].of = callback[b].of /\ (callback'[b].pc = "idle" <=> callback[b].pc = "idle")
      BY <1>1, <2>3, <2>5
    <3> QED  BY <1>1, <3>1 DEF CallsWellFormed, Holding
  <2>9. RowTokens'
    BY <1>1, <2>1 DEF RowTokens
  <2>10. Unused(n)'
    BY <1>1, <2>1 DEF Unused, RowTokens, SentTokens, Using
  <2>11. \A t : Unused(t) => Unused(t)' /\ t # n
    BY <1>1, <2>1 DEF Unused, Using
  <2>12. NewTokens'
    <3>1. \A b \in Callbacks : b # c /\ Fetched(b)' => Fetched(b) /\ callback'[b] = callback[b]
      BY <2>5 DEF Fetched
    <3>2. \A r \in Resolvers : (ConnectionRenewed(r)' <=> ConnectionRenewed(r)) /\ resolver'[r] = resolver[r]
      BY <1>1 DEF ConnectionRenewed
    <3> QED  BY <2>3, <2>5, <2>10, <2>11, <3>1, <3>2 DEF NewTokens
  <2> QED  BY <2>6, <2>7, <2>8, <2>9, <2>12
<1>4. CASE callback' = [callback EXCEPT ![c] = NoCallback] /\ UNCHANGED <<accepted, issued>>
  <2>1. /\ callback' \in [Callbacks -> Calls] /\ callback'[c] = NoCallback
        /\ \A b \in Callbacks : b # c => callback'[b] = callback[b]
    BY <1>0, <1>4
  <2>2. NoCallback.pc = "idle" /\ NoCallback.of = {}
    BY DEF NoCallback
  <2>3. ConnectionTypeOK'
    BY <1>1, <1>4, <2>1 DEF ConnectionTypeOK, Calls
  <2>4. Owners' /\ RowTokens' /\ SentTokens'
    BY <1>1, <1>4 DEF Owners, RowTokens, SentTokens, Using
  <2>5. CallsWellFormed'
    BY <1>1, <2>1, <2>2 DEF CallsWellFormed, Holding
  <2>6. NewTokens'
    <3>1. \A t : Unused(t) => Unused(t)'
      BY <1>1, <1>4 DEF Unused, Using
    <3>2. \A b \in Callbacks : Fetched(b)' => Fetched(b) /\ callback'[b] = callback[b]
      BY <2>1, <2>2 DEF Fetched
    <3>3. \A r \in Resolvers : (ConnectionRenewed(r)' <=> ConnectionRenewed(r)) /\ resolver'[r] = resolver[r]
      BY <1>1 DEF ConnectionRenewed
    <3> QED  BY <3>1, <3>2, <3>3 DEF NewTokens
  <2> QED  BY <2>3, <2>4, <2>5, <2>6
<1> QED  BY <1>2, <1>3, <1>4 DEF ExchangeCode

GrantRow == [status : {"NONE", "OPEN", "USED"}, of : SUBSET Workspaces, shop : Shops \cup {NoShop}]

\* The rows of the OAuth states have their type.
LEMMA GrantRows == ConnectionTypeOK => grant \in [Grants -> GrantRow]
BY DEF ConnectionTypeOK, GrantRow

\* A state row is written or runs out; the calls are left alone.
LEMMA GrantStep ==
  ASSUME ConnectionInv, NEW g \in Grants,
         GrantExpires(g) \/ \E w \in Workspaces, s \in Shops : BeginOAuth(g, w, s)
  PROVE  ConnectionInv'
<1> USE DEF ConnectionInv
<1>1. UNCHANGED <<conn, spent, callback, resolver, remote, receipts>> /\ grant[g].status # "USED"
  BY DEF GrantExpires, BeginOAuth
<1>2. ConnectionTypeOK'
  <2>1. grant' \in [Grants -> GrantRow]
    <3>1. CASE GrantExpires(g)
      <4> DEFINE e == [grant[g] EXCEPT !.status = "USED"]
      <4>1. e \in GrantRow
        BY GrantRows DEF GrantRow
      <4>2. grant' = [grant EXCEPT ![g] = e]
        BY <3>1 DEF GrantExpires
      <4> HIDE DEF e
      <4> QED  BY <4>1, <4>2, GrantRows
    <3>2. CASE \E w \in Workspaces, s \in Shops : BeginOAuth(g, w, s)
      <4>1. PICK w \in Workspaces, s \in Shops : BeginOAuth(g, w, s)
        BY <3>2
      <4> DEFINE e == [status |-> "OPEN", of |-> {w}, shop |-> s]
      <4>2. e \in GrantRow
        BY DEF GrantRow
      <4>3. grant' = [grant EXCEPT ![g] = e]
        BY <4>1 DEF BeginOAuth
      <4> HIDE DEF e
      <4> QED  BY <4>2, <4>3, GrantRows
    <3> QED  BY <3>1, <3>2
  <2> QED  BY <1>1, <2>1 DEF ConnectionTypeOK, remote, GrantRow
<1>3. \A h \in Grants : grant[h].status = "USED" => grant'[h].status = "USED"
  BY <1>1 DEF GrantExpires, BeginOAuth, ConnectionTypeOK
<1>4. CallsWellFormed'
  BY <1>1, <1>3 DEF CallsWellFormed, Holding
<1>5. Owners' /\ NewTokens' /\ RowTokens' /\ SentTokens'
  BY <1>1 DEF Owners, NewTokens, RowTokens, SentTokens, Unused, Fetched, ConnectionRenewed, Using, remote
<1> QED  BY <1>2, <1>4, <1>5

\* A callback takes a state row that nobody has taken.
LEMMA ConnectionClaimStep == ASSUME ConnectionInv, NEW c \in Callbacks, NEW g \in Grants, ClaimGrant(c, g) PROVE ConnectionInv'
<1> USE DEF ConnectionInv
<1> DEFINE d == [pc |-> "exchange", of |-> {g}, token |-> 0]
<1>1. /\ callback[c].pc = "idle" /\ grant[g].status = "OPEN"
      /\ grant' = [grant EXCEPT ![g].status = "USED"] /\ callback' = [callback EXCEPT ![c] = d]
      /\ UNCHANGED <<conn, spent, resolver, remote, receipts>>
  BY DEF ClaimGrant
<1>2. d \in Calls /\ d.pc = "exchange" /\ d.of = {g}
  BY ConnectionBounds DEF Calls
<1> HIDE DEF d
<1>3. callback'[c] = d /\ \A b \in Callbacks : b # c => callback'[b] = callback[b]
  BY <1>1 DEF ConnectionTypeOK
<1>4. ConnectionTypeOK'
  <2> DEFINE e == [grant[g] EXCEPT !.status = "USED"]
  <2>1. e \in GrantRow
    BY GrantRows DEF GrantRow
  <2>2. grant' = [grant EXCEPT ![g] = e]
    BY <1>1
  <2> HIDE DEF e
  <2>3. grant' \in [Grants -> GrantRow]
    BY <2>1, <2>2, GrantRows
  <2>4. callback' \in [Callbacks -> Calls]
    BY <1>1, <1>2 DEF ConnectionTypeOK, Calls
  <2> QED  BY <1>1, <2>3, <2>4 DEF ConnectionTypeOK, remote, GrantRow, Calls
<1>5. grant'[g].status = "USED" /\ \A h \in Grants : grant[h].status = "USED" => grant'[h].status = "USED"
  BY <1>1 DEF ConnectionTypeOK
<1>6. \A b \in Callbacks : b # c => callback[b].of # {g}
  BY <1>1 DEF CallsWellFormed
<1>7. CallsWellFormed'
  <2>1. \A b \in Callbacks : callback'[b].of # {} =>
          \E h \in Grants : callback'[b].of = {h} /\ grant'[h].status = "USED"
    BY <1>2, <1>3, <1>5 DEF CallsWellFormed
  <2>2. \A b \in Callbacks : callback'[b].of = {} <=> callback'[b].pc = "idle"
    BY <1>2, <1>3 DEF CallsWellFormed
  <2>3. \A a, b \in Callbacks : callback'[a].of # {} /\ callback'[a].of = callback'[b].of => a = b
    BY <1>2, <1>3, <1>6 DEF CallsWellFormed
  <2> QED  BY <1>1, <2>1, <2>2, <2>3 DEF CallsWellFormed, Holding
<1>8. NewTokens'
  <2>1. \A b \in Callbacks : Fetched(b)' => Fetched(b) /\ callback'[b] = callback[b]
    BY <1>2, <1>3 DEF Fetched
  <2>2. \A t : Unused(t)' <=> Unused(t)
    BY <1>1 DEF Unused, Using, remote
  <2>3. \A r \in Resolvers : (ConnectionRenewed(r)' <=> ConnectionRenewed(r)) /\ resolver'[r] = resolver[r]
    BY <1>1 DEF ConnectionRenewed
  <2> QED  BY <2>1, <2>2, <2>3 DEF NewTokens
<1>9. Owners' /\ RowTokens' /\ SentTokens'
  BY <1>1 DEF Owners, RowTokens, SentTokens, Using, remote
<1> QED  BY <1>4, <1>7, <1>8, <1>9

\* The operator, Shopify and the clock take rows away or weaken them.
LEMMA TakenAway ==
  ASSUME ConnectionInv,
         \/ \E w \in Workspaces : Disconnect(w) \/ TokenAges(w)
         \/ \E h \in 1 .. MaxUninstalls : ReceiveUninstall(h) \/ \E s \in Shops : Uninstall(h, s)
  PROVE  ConnectionInv'
<1> USE DEF ConnectionInv
<1>1. CASE \E w \in Workspaces : Disconnect(w) \/ TokenAges(w)
  <2>1. PICK w \in Workspaces : Disconnect(w) \/ TokenAges(w)
    BY <1>1
  <2>2. Weaker /\ conn' \in [Workspaces -> Connection]
    BY <2>1, WeakensRow DEF Disconnect, TokenAges
  <2>3. UNCHANGED <<spent, grant, callback, resolver, remote, receipts>>
    BY <2>1 DEF Disconnect, TokenAges
  <2> QED  BY <2>2, <2>3, WeakerStep DEF remote, ConnectionTypeOK
<1>2. CASE \E h \in 1 .. MaxUninstalls : ReceiveUninstall(h)
  <2>1. PICK h \in 1 .. MaxUninstalls : ReceiveUninstall(h)
    BY <1>2
  <2>2. UNCHANGED <<spent, grant, callback, resolver, remote>> /\ receipts' = receipts \cup {h}
    BY <2>1 DEF ReceiveUninstall
  <2>3. CASE \E w \in Workspaces : Destroy(w)
    BY <2>2, <2>3, WeakensRow, WeakerStep DEF remote, ConnectionTypeOK
  <2>4. CASE UNCHANGED conn
    <3>1. Weaker /\ conn' \in [Workspaces -> Connection]
      BY <2>4 DEF Weaker, Owners, ConnectionTypeOK
    <3> QED  BY <2>2, <3>1, WeakerStep DEF remote, ConnectionTypeOK
  <2> QED  BY <2>1, <2>3, <2>4 DEF ReceiveUninstall
<1>3. CASE \E h \in 1 .. MaxUninstalls, s \in Shops : Uninstall(h, s)
  <2>1. PICK h \in 1 .. MaxUninstalls, s \in Shops : Uninstall(h, s)
    BY <1>3
  <2>2. Weaker /\ conn' \in [Workspaces -> Connection]
    BY <2>1 DEF Uninstall, Weaker, Owners, ConnectionTypeOK
  <2>3. /\ accepted' \in [Shops -> SUBSET Tokens]
        /\ uninstalls' \in [1 .. MaxUninstalls -> Shops \cup {NoShop}]
    BY <2>1 DEF Uninstall, ConnectionTypeOK
  <2> QED  BY <2>1, <2>2, <2>3, WeakerStep DEF Uninstall, ConnectionTypeOK
<1> QED  BY <1>1, <1>2, <1>3

\* Every step preserves the invariant.
LEMMA ConnectionNextInv == ConnectionInv /\ [ConnectionNext]_connVars => ConnectionInv'
<1> SUFFICES ASSUME ConnectionInv, [ConnectionNext]_connVars PROVE ConnectionInv'
  OBVIOUS
<1>1. CASE \E g \in Grants : GrantExpires(g) \/ \E w \in Workspaces, s \in Shops : BeginOAuth(g, w, s)
  BY <1>1, GrantStep
<1>2. CASE \E g \in Grants, c \in Callbacks : ClaimGrant(c, g)
  BY <1>2, ConnectionClaimStep
<1>3. CASE \E c \in Callbacks : ExchangeCode(c) \/ SeekOwner(c) \/ CallbackDies(c)
  BY <1>3, ExchangeStep, CallbackEndsOrStores
<1>4. CASE \E c \in Callbacks : SaveGrant(c)
  BY <1>4, SaveGrantStep
<1>5. CASE \E r \in Resolvers : LockRotation(r)
  BY <1>5, ConnectionLockStep
<1>6. CASE \E r \in Resolvers : RefreshToken(r)
  BY <1>6, RefreshStep
<1>7. CASE \E r \in Resolvers : SeekOwnerAgain(r) \/ SaveRotation(r)
  BY <1>7, SeekOwnerAgainStep, SaveRotationStep
<1>8. CASE \E r \in Resolvers : MarkReauth(r) \/ ResolverDies(r) \/ \E w \in Workspaces : Resolve(r, w)
  BY <1>8, RestsOrBegins
<1>9. CASE \/ \E w \in Workspaces : Disconnect(w) \/ TokenAges(w)
           \/ \E h \in 1 .. MaxUninstalls : ReceiveUninstall(h) \/ \E s \in Shops : Uninstall(h, s)
  BY <1>9, TakenAway
<1>10. CASE UNCHANGED connVars
  <2>1. ConnectionTypeOK' /\ Owners'
    BY <1>10 DEF ConnectionInv, connVars, remote, ConnectionTypeOK, Owners
  <2>2. CallsWellFormed' /\ RowTokens' /\ SentTokens'
    BY <1>10 DEF ConnectionInv, connVars, remote, CallsWellFormed, RowTokens, SentTokens, Holding, Using
  <2>3. NewTokens'
    BY <1>10 DEF ConnectionInv, connVars, remote, NewTokens, Unused, Fetched, ConnectionRenewed, Using
  <2> QED  BY <2>1, <2>2, <2>3 DEF ConnectionInv
<1> QED  BY <1>1, <1>2, <1>3, <1>4, <1>5, <1>6, <1>7, <1>8, <1>9, <1>10 DEF ConnectionNext

\* The invariant holds whatever the callbacks, rotations and webhooks do.
LEMMA ConnectionInvHolds == ConnectionSpec => []ConnectionInv
BY ConnectionInitInv, ConnectionNextInv, PTL DEF ConnectionSpec

-----------------------------------------------------------------------------
\* The rows, the calls and Shopify's side keep their types.
THEOREM ConnectionTypes == ConnectionSpec => []ConnectionTypeOK
<1>1. ConnectionInv => ConnectionTypeOK
  BY DEF ConnectionInv
<1> QED  BY <1>1, ConnectionInvHolds, PTL

-----------------------------------------------------------------------------
(* Who holds the lock of a shop, and what that keeps away from its writer.  *)

\* At most one call has looked for the owner of a shop and not yet written.
OneWriter ==
  /\ \A c, d \in Callbacks : callback[c].pc = "store" /\ callback[d].pc = "store" =>
       \A g \in callback[c].of, h \in callback[d].of : grant[g].shop = grant[h].shop => c = d
  /\ \A q, r \in Resolvers : resolver[q].pc = "store" /\ resolver[r].pc = "store" =>
       (resolver[q].shop = resolver[r].shop => q = r)
  /\ \A c \in Callbacks, r \in Resolvers : callback[c].pc = "store" /\ resolver[r].pc = "store" =>
       \A g \in callback[c].of : grant[g].shop # resolver[r].shop

\* What it looked for is still not there.
FreeFor(c) == callback[c].pc = "store" =>
  \A g \in callback[c].of : \A w \in grant[g].of : ~Owned(w, grant[g].shop)
FreeAgain(r) == resolver[r].pc = "store" => \A w \in resolver[r].of : ~Owned(w, resolver[r].shop)
StillFree == (\A c \in Callbacks : FreeFor(c)) /\ (\A r \in Resolvers : FreeAgain(r))

\* A grant is about one workspace.
GrantOfOne == \A g \in Grants : \A v, w \in grant[g].of : v = w

WriterInv == ConnectionInv /\ GrantOfOne /\ OneWriter /\ StillFree

\* No call reaches its write, and no row changes but for the worse.
NoNewWriter ==
  /\ \A c \in Callbacks : callback'[c].pc = "store" => callback[c].pc = "store" /\ callback'[c].of = callback[c].of
  /\ \A r \in Resolvers : resolver'[r].pc = "store" => resolver'[r] = resolver[r]
  /\ \A g \in Grants : grant[g].status = "USED" => grant'[g].of = grant[g].of /\ grant'[g].shop = grant[g].shop
NoNewOwner ==
  \A w \in Workspaces : conn'[w].status = "CONNECTED" => conn[w].status = "CONNECTED" /\ conn'[w].shop = conn[w].shop

\* The grant of a callback has been used, so that its row does not change.
LEMMA WritersGrant ==
  ASSUME ConnectionInv, NoNewWriter, NEW c \in Callbacks, NEW g \in callback[c].of
  PROVE  g \in Grants /\ grant'[g].of = grant[g].of /\ grant'[g].shop = grant[g].shop
BY DEF ConnectionInv, CallsWellFormed, NoNewWriter

\* A step without a new writer keeps the writers apart ...
LEMMA WritersStayApart == ASSUME WriterInv, NoNewWriter PROVE OneWriter'
<1> USE DEF WriterInv
<1>1. \A c, d \in Callbacks : callback'[c].pc = "store" /\ callback'[d].pc = "store" =>
        \A g \in callback'[c].of, h \in callback'[d].of : grant'[g].shop = grant'[h].shop => c = d
  BY WritersGrant DEF OneWriter, NoNewWriter
<1>2. \A q, r \in Resolvers : resolver'[q].pc = "store" /\ resolver'[r].pc = "store" =>
        (resolver'[q].shop = resolver'[r].shop => q = r)
  BY DEF OneWriter, NoNewWriter
<1>3. \A c \in Callbacks, r \in Resolvers : callback'[c].pc = "store" /\ resolver'[r].pc = "store" =>
        \A g \in callback'[c].of : grant'[g].shop # resolver'[r].shop
  BY WritersGrant DEF OneWriter, NoNewWriter
<1> QED  BY <1>1, <1>2, <1>3 DEF OneWriter

\* ... and if no row is connected anew, their shops free.
LEMMA ShopsStayFree == ASSUME WriterInv, NoNewWriter, NoNewOwner PROVE StillFree'
<1> USE DEF WriterInv
<1>1. ASSUME NEW c \in Callbacks PROVE FreeFor(c)'
  <2> SUFFICES ASSUME callback'[c].pc = "store", NEW g \in callback'[c].of, NEW w \in grant'[g].of,
                      NEW v \in Workspaces \ {w}, conn'[v].status = "CONNECTED", conn'[v].shop = grant'[g].shop
               PROVE  FALSE
    BY DEF FreeFor, Owned
  <2>1. callback[c].pc = "store" /\ g \in callback[c].of
    BY DEF NoNewWriter
  <2>2. g \in Grants /\ grant'[g].of = grant[g].of /\ grant'[g].shop = grant[g].shop
    BY <2>1, WritersGrant
  <2>3. ~Owned(w, grant[g].shop)
    BY <2>1, <2>2 DEF StillFree, FreeFor
  <2> QED  BY <2>2, <2>3 DEF Owned, NoNewOwner
<1>2. ASSUME NEW r \in Resolvers PROVE FreeAgain(r)'
  <2> SUFFICES ASSUME resolver'[r].pc = "store", NEW w \in resolver'[r].of,
                      NEW v \in Workspaces \ {w}, conn'[v].status = "CONNECTED", conn'[v].shop = resolver'[r].shop
               PROVE  FALSE
    BY DEF FreeAgain, Owned
  <2>1. resolver'[r] = resolver[r]
    BY DEF NoNewWriter
  <2>2. ~Owned(w, resolver[r].shop)
    BY <2>1 DEF StillFree, FreeAgain
  <2> QED  BY <2>1, <2>2 DEF Owned, NoNewOwner
<1> QED  BY <1>1, <1>2 DEF StillFree

\* What a step with no writer in it must show.
NoWriter == NoNewWriter /\ NoNewOwner
LEMMA NoWriterStep == ASSUME WriterInv, NoWriter PROVE OneWriter' /\ StillFree'
BY WritersStayApart, ShopsStayFree DEF NoWriter

\* A callback has looked for the owner of its shop.
LEMMA SeekOwnerWriter == ASSUME WriterInv, NEW c \in Callbacks, SeekOwner(c) PROVE OneWriter' /\ StillFree'
<1> USE DEF WriterInv
<1>1. /\ callback[c].pc = "save" /\ UNCHANGED <<conn, spent, grant, resolver, remote, receipts>>
      /\ callback \in [Callbacks -> Calls]
  BY DEF SeekOwner, ConnectionInv, ConnectionTypeOK, Calls
<1>0. PICK g \in callback[c].of : \E w \in grant[g].of :
        /\ ~ShopLocked(grant[g].shop)
        /\ callback' = [callback EXCEPT ![c] = IF Owned(w, grant[g].shop) THEN NoCallback
                                               ELSE [callback[c] EXCEPT !.pc = "store"]]
  BY <1>1 DEF SeekOwner
<1>2. PICK w \in grant[g].of :
        /\ ~ShopLocked(grant[g].shop)
        /\ callback' = [callback EXCEPT ![c] = IF Owned(w, grant[g].shop) THEN NoCallback
                                               ELSE [callback[c] EXCEPT !.pc = "store"]]
  BY <1>0
<1>3. \A d \in Callbacks : d # c => callback'[d] = callback[d]
  BY <1>1, <1>2
<1>4. CASE Owned(w, grant[g].shop)
  <2>1. callback'[c].pc = "idle"
    BY <1>1, <1>2, <1>4 DEF NoCallback
  <2>2. NoWriter
    BY <1>1, <1>3, <2>1 DEF NoWriter, NoNewWriter, NoNewOwner
  <2> QED  BY <2>2, NoWriterStep
<1>5. CASE ~Owned(w, grant[g].shop)
  <2>1. callback'[c].pc = "store" /\ callback'[c].of = callback[c].of
    BY <1>1, <1>2, <1>5 DEF Calls
  <2>2. callback[c].of = {g} /\ g \in Grants
    BY DEF ConnectionInv, CallsWellFormed
  <2>3. \A v \in grant[g].of : v = w
    BY <1>2, <2>2 DEF GrantOfOne
  <2>4. OneWriter'
    BY <1>1, <1>2, <1>3, <2>1, <2>2 DEF OneWriter, ShopLocked
  <2>5. FreeFor(c)'
    BY <1>1, <1>5, <2>1, <2>2, <2>3 DEF FreeFor, Owned
  <2>6. \A d \in Callbacks : d # c => FreeFor(d)'
    BY <1>1, <1>3 DEF StillFree, FreeFor, Owned
  <2>7. \A r \in Resolvers : FreeAgain(r)'
    BY <1>1 DEF StillFree, FreeAgain, Owned
  <2> QED  BY <2>4, <2>5, <2>6, <2>7 DEF StillFree
<1> QED  BY <1>4, <1>5

\* A rotation has looked for the owner of its shop.
LEMMA SeekOwnerAgainWriter ==
  ASSUME WriterInv, NEW r \in Resolvers, SeekOwnerAgain(r) PROVE OneWriter' /\ StillFree'
<1> USE DEF WriterInv
<1>1. /\ resolver[r].pc = "save" /\ UNCHANGED <<conn, spent, grant, callback, remote, receipts>>
      /\ resolver \in [Resolvers -> Resolution] /\ ~ShopLocked(resolver[r].shop)
  BY DEF SeekOwnerAgain, ConnectionInv, ConnectionTypeOK, Resolution
<1>2. PICK w \in resolver[r].of :
        resolver' = [resolver EXCEPT ![r] = IF Owned(w, resolver[r].shop) THEN NoResolve
                                            ELSE [resolver[r] EXCEPT !.pc = "store"]]
  BY <1>1 DEF SeekOwnerAgain
<1>3. \A q \in Resolvers : q # r => resolver'[q] = resolver[q]
  BY <1>1, <1>2
<1>4. CASE Owned(w, resolver[r].shop)
  <2>1. resolver'[r].pc = "idle"
    BY <1>1, <1>2, <1>4 DEF NoResolve
  <2>2. NoWriter
    BY <1>1, <1>3, <2>1 DEF NoWriter, NoNewWriter, NoNewOwner
  <2> QED  BY <2>2, NoWriterStep
<1>5. CASE ~Owned(w, resolver[r].shop)
  <2>1. resolver'[r].pc = "store" /\ resolver'[r].of = resolver[r].of /\ resolver'[r].shop = resolver[r].shop
    BY <1>1, <1>2, <1>5 DEF Resolution
  <2>2. resolver[r].of = {w}
    BY <1>1, <1>2 DEF ConnectionInv, CallsWellFormed
  <2>3. OneWriter'
    BY <1>1, <1>3, <2>1 DEF OneWriter, ShopLocked
  <2>4. FreeAgain(r)'
    BY <1>1, <1>5, <2>1, <2>2 DEF FreeAgain, Owned
  <2>5. \A q \in Resolvers : q # r => FreeAgain(q)'
    BY <1>1, <1>3 DEF StillFree, FreeAgain, Owned
  <2>6. \A c \in Callbacks : FreeFor(c)'
    BY <1>1 DEF StillFree, FreeFor, Owned
  <2> QED  BY <2>3, <2>4, <2>5, <2>6 DEF StillFree
<1> QED  BY <1>4, <1>5

\* A callback writes: the calls past their look are about other shops.
LEMMA SaveGrantWriter == ASSUME WriterInv, NEW c \in Callbacks, SaveGrant(c) PROVE OneWriter' /\ StillFree'
<1> USE DEF WriterInv
<1>0. PICK g \in callback[c].of : \E w \in grant[g].of : Upsert(w, grant[g].shop, callback[c].token)
  BY DEF SaveGrant
<1>1. PICK w \in grant[g].of : Upsert(w, grant[g].shop, callback[c].token)
  BY <1>0
<1>2. /\ callback[c].pc = "store" /\ UNCHANGED <<grant, resolver>>
      /\ callback'[c].pc = "idle" /\ \A d \in Callbacks : d # c => callback'[d] = callback[d]
  BY DEF SaveGrant, NoCallback, ConnectionInv, ConnectionTypeOK
<1>3. g \in Grants /\ w \in Workspaces /\ grant[g].shop \in Shops \cup {NoShop} /\ callback[c].token \in 0 .. MaxTokens
  BY <1>1 DEF ConnectionInv, ConnectionTypeOK
<1>4. conn' = conn \/ Connects(w, grant[g].shop, callback[c].token)
  BY <1>1, <1>3, UpsertCases DEF ConnectionInv
<1>5. NoNewWriter
  BY <1>2 DEF NoNewWriter
<1>6. OneWriter'
  BY <1>5, WritersStayApart
<1>7. \A v \in Workspaces : v # w => conn'[v] = conn[v]
  BY <1>4 DEF Connects
<1>8. conn' = conn \/ conn'[w].shop = grant[g].shop
  BY <1>4 DEF Connects
<1>9. ASSUME NEW d \in Callbacks PROVE FreeFor(d)'
  <2>1. callback'[d].pc = "store" => callback'[d] = callback[d] /\ \A h \in callback[d].of : grant[h].shop # grant[g].shop
    BY <1>2 DEF OneWriter
  <2> QED  BY <1>2, <1>7, <1>8, <2>1 DEF StillFree, FreeFor, Owned
<1>10. ASSUME NEW r \in Resolvers PROVE FreeAgain(r)'
  <2>1. resolver[r].pc = "store" => resolver[r].shop # grant[g].shop
    BY <1>2 DEF OneWriter
  <2> QED  BY <1>2, <1>7, <1>8, <2>1 DEF StillFree, FreeAgain, Owned
<1> QED  BY <1>6, <1>9, <1>10 DEF StillFree

\* A rotation writes, likewise.
LEMMA SaveRotationWriter ==
  ASSUME WriterInv, NEW r \in Resolvers, SaveRotation(r) PROVE OneWriter' /\ StillFree'
<1> USE DEF WriterInv
<1>1. PICK w \in resolver[r].of : Upsert(w, resolver[r].shop, resolver[r].next)
  BY DEF SaveRotation
<1>2. /\ resolver[r].pc = "store" /\ UNCHANGED <<grant, callback>>
      /\ resolver'[r].pc = "idle" /\ \A q \in Resolvers : q # r => resolver'[q] = resolver[q]
  BY DEF SaveRotation, NoResolve, ConnectionInv, ConnectionTypeOK
<1>3. w \in Workspaces /\ resolver[r].shop \in Shops \cup {NoShop} /\ resolver[r].next \in 0 .. MaxTokens
  BY <1>1 DEF ConnectionInv, ConnectionTypeOK
<1>4. conn' = conn \/ Connects(w, resolver[r].shop, resolver[r].next)
  BY <1>1, <1>3, UpsertCases DEF ConnectionInv
<1>5. NoNewWriter
  BY <1>2 DEF NoNewWriter
<1>6. OneWriter'
  BY <1>5, WritersStayApart
<1>7. \A v \in Workspaces : v # w => conn'[v] = conn[v]
  BY <1>4 DEF Connects
<1>8. conn' = conn \/ conn'[w].shop = resolver[r].shop
  BY <1>4 DEF Connects
<1>9. ASSUME NEW d \in Callbacks PROVE FreeFor(d)'
  <2>1. callback[d].pc = "store" => \A h \in callback[d].of : grant[h].shop # resolver[r].shop
    BY <1>2 DEF OneWriter
  <2> QED  BY <1>2, <1>7, <1>8, <2>1 DEF StillFree, FreeFor, Owned
<1>10. ASSUME NEW q \in Resolvers PROVE FreeAgain(q)'
  <2>1. resolver'[q].pc = "store" => resolver'[q] = resolver[q] /\ resolver[q].shop # resolver[r].shop
    BY <1>2 DEF OneWriter
  <2> QED  BY <1>2, <1>7, <1>8, <2>1 DEF StillFree, FreeAgain, Owned
<1> QED  BY <1>6, <1>9, <1>10 DEF StillFree

\* The other steps of a callback.
LEMMA CallbackQuiet ==
  ASSUME WriterInv, NEW c \in Callbacks,
         ExchangeCode(c) \/ CallbackDies(c) \/ \E g \in Grants : ClaimGrant(c, g)
  PROVE  NoWriter
<1> USE DEF WriterInv, ConnectionInv
<1>1. callback \in [Callbacks -> Calls] /\ grant \in [Grants -> GrantRow]
  BY GrantRows DEF ConnectionTypeOK, Calls
<1>2. UNCHANGED <<conn, resolver>>
  BY DEF ExchangeCode, CallbackDies, ClaimGrant
<1>3. callback'[c].pc # "store"
  BY <1>1 DEF ExchangeCode, CallbackDies, ClaimGrant, NoCallback, Calls
<1>4. \A d \in Callbacks : d # c => callback'[d] = callback[d]
  BY <1>1 DEF ExchangeCode, CallbackDies, ClaimGrant
<1>5. \A g \in Grants : grant[g].status = "USED" => grant'[g].of = grant[g].of /\ grant'[g].shop = grant[g].shop
  BY <1>1 DEF ExchangeCode, CallbackDies, ClaimGrant, GrantRow
<1> QED  BY <1>2, <1>3, <1>4, <1>5 DEF NoWriter, NoNewWriter, NoNewOwner

\* The other steps of a rotation.
LEMMA RotationQuiet ==
  ASSUME WriterInv, NEW r \in Resolvers,
         \/ LockRotation(r) \/ RefreshToken(r) \/ MarkReauth(r) \/ ResolverDies(r)
         \/ \E w \in Workspaces : Resolve(r, w)
  PROVE  NoWriter
<1> USE DEF WriterInv, ConnectionInv
<1>1. resolver \in [Resolvers -> Resolution] /\ NoResolve.pc = "idle"
  BY DEF ConnectionTypeOK, Resolution, NoResolve
<1>2. UNCHANGED <<grant, callback>>
  BY DEF LockRotation, RefreshToken, MarkReauth, ResolverDies, Resolve
<1>3. \E d : resolver' = [resolver EXCEPT ![r] = d] /\ d.pc # "store"
  <2>1. CASE MarkReauth(r) \/ ResolverDies(r)
    BY <1>1, <2>1 DEF MarkReauth, ResolverDies
  <2>2. CASE \E w \in Workspaces : Resolve(r, w)
    <3>1. PICK w \in Workspaces : resolver' = [resolver EXCEPT ![r] = [NoResolve EXCEPT !.pc = "wait", !.of = {w}]]
      BY <2>2 DEF Resolve
    <3>2. [NoResolve EXCEPT !.pc = "wait", !.of = {w}].pc = "wait"
      BY DEF NoResolve
    <3> QED  BY <3>1, <3>2
  <2>3. CASE LockRotation(r)
    <3>1. PICK w \in resolver[r].of : LookAgain(r, w)
      BY <2>3 DEF LockRotation
    <3> DEFINE d == [resolver[r] EXCEPT !.pc = IF conn[w].live THEN "fetch" ELSE "reauth",
                                        !.shop = conn[w].shop, !.token = conn[w].token]
    <3>2. d.pc # "store"
      BY <1>1 DEF Resolution
    <3>3. resolver' = [resolver EXCEPT ![r] = NoResolve] \/ resolver' = [resolver EXCEPT ![r] = d]
      BY <1>1, <3>1 DEF LookAgain
    <3> HIDE DEF d
    <3> QED  BY <1>1, <3>2, <3>3
  <2>4. CASE RefreshToken(r)
    <3> DEFINE d == [resolver[r] EXCEPT !.pc = "save", !.next = issued + 1]
               e == [resolver[r] EXCEPT !.pc = "reauth"]
    <3>1. d.pc = "save" /\ e.pc = "reauth"
      BY <1>1 DEF Resolution
    <3>2. \/ resolver' = [resolver EXCEPT ![r] = NoResolve]
          \/ resolver' = [resolver EXCEPT ![r] = d] \/ resolver' = [resolver EXCEPT ![r] = e]
      BY <1>1, <2>4 DEF RefreshToken
    <3> HIDE DEF d, e
    <3> QED  BY <1>1, <3>1, <3>2
  <2> QED  BY <2>1, <2>2, <2>3, <2>4
<1>4. resolver'[r].pc # "store" /\ \A q \in Resolvers : q # r => resolver'[q] = resolver[q]
  BY <1>1, <1>3
<1>5. NoNewOwner
  <2>1. conn \in [Workspaces -> Connection] /\ resolver[r].of \subseteq Workspaces
    BY DEF ConnectionTypeOK
  <2>2. \/ UNCHANGED conn \/ \E w \in Workspaces : RecordFailure(w)
        \/ \E w \in Workspaces : conn' = [conn EXCEPT ![w].status = "REAUTH_REQUIRED"]
    BY <2>1 DEF LockRotation, RefreshToken, MarkReauth, ResolverDies, Resolve
  <2> QED  BY <2>2, WeakensRow DEF Weaker, NoNewOwner
<1> QED  BY <1>2, <1>4, <1>5 DEF NoWriter, NoNewWriter

\* The steps of the operator, of Shopify, of time, and a state row's own.
LEMMA RowsQuiet ==
  ASSUME WriterInv,
         \/ \E g \in Grants : GrantExpires(g) \/ \E w \in Workspaces, s \in Shops : BeginOAuth(g, w, s)
         \/ \E w \in Workspaces : Disconnect(w) \/ TokenAges(w)
         \/ \E h \in 1 .. MaxUninstalls : ReceiveUninstall(h) \/ \E s \in Shops : Uninstall(h, s)
  PROVE  NoWriter
<1> USE DEF WriterInv, ConnectionInv
<1>1. UNCHANGED <<callback, resolver>>
  BY DEF GrantExpires, BeginOAuth, Disconnect, TokenAges, ReceiveUninstall, Uninstall
<1>2. \A g \in Grants : grant[g].status = "USED" => grant'[g].of = grant[g].of /\ grant'[g].shop = grant[g].shop
  <2>1. grant \in [Grants -> GrantRow]
    BY GrantRows
  <2> QED  BY <2>1 DEF GrantExpires, BeginOAuth, Disconnect, TokenAges, ReceiveUninstall, Uninstall
<1>3. NoNewOwner
  <2>1. \/ UNCHANGED conn \/ \E w \in Workspaces : Destroy(w)
        \/ \E w \in Workspaces : /\ conn[w].status = "CONNECTED"
                               /\ \/ conn' = [conn EXCEPT ![w].fresh = FALSE]
                                  \/ conn' = [conn EXCEPT ![w].live = FALSE]
    BY DEF GrantExpires, BeginOAuth, Disconnect, TokenAges, ReceiveUninstall, Uninstall
  <2> QED  BY <2>1, WeakensRow DEF Weaker, NoNewOwner
<1> QED  BY <1>1, <1>2, <1>3 DEF NoWriter, NoNewWriter

\* A grant stays that of one workspace.
LEMMA GrantKept == ASSUME WriterInv, [ConnectionNext]_connVars PROVE GrantOfOne'
<1>1. grant \in [Grants -> GrantRow]
  BY GrantRows DEF WriterInv, ConnectionInv
<1>2. CASE \E g \in Grants, w \in Workspaces, s \in Shops : BeginOAuth(g, w, s)
  BY <1>1, <1>2 DEF BeginOAuth, WriterInv, GrantOfOne
<1>3. CASE \E g \in Grants : grant' = [grant EXCEPT ![g].status = "USED"]
  BY <1>1, <1>3 DEF WriterInv, GrantOfOne, GrantRow
<1>4. CASE UNCHANGED grant
  BY <1>4 DEF WriterInv, GrantOfOne
<1>5. ASSUME NEW c \in Callbacks, NEW g \in Grants, GrantExpires(g) \/ ClaimGrant(c, g)
      PROVE  grant' = [grant EXCEPT ![g].status = "USED"]
  BY <1>5 DEF GrantExpires, ClaimGrant
<1>6. ASSUME NEW c \in Callbacks, ExchangeCode(c) \/ SeekOwner(c) \/ SaveGrant(c) \/ CallbackDies(c)
      PROVE  UNCHANGED grant
  BY <1>6 DEF ExchangeCode, SeekOwner, SaveGrant, CallbackDies
<1>7. ASSUME NEW r \in Resolvers,
             \/ LockRotation(r) \/ RefreshToken(r) \/ MarkReauth(r) \/ SeekOwnerAgain(r) \/ SaveRotation(r)
             \/ ResolverDies(r) \/ \E w \in Workspaces : Resolve(r, w)
      PROVE  UNCHANGED grant
  BY <1>7 DEF LockRotation, RefreshToken, MarkReauth, SeekOwnerAgain, SaveRotation, ResolverDies, Resolve
<1>8. ASSUME \/ \E w \in Workspaces : Disconnect(w) \/ TokenAges(w)
             \/ \E h \in 1 .. MaxUninstalls : ReceiveUninstall(h) \/ \E s \in Shops : Uninstall(h, s)
      PROVE  UNCHANGED grant
  BY <1>8 DEF Disconnect, TokenAges, ReceiveUninstall, Uninstall
<1>9. ASSUME NEW g \in Grants, GrantExpires(g) PROVE grant' = [grant EXCEPT ![g].status = "USED"]
  BY <1>9 DEF GrantExpires
<1> QED  BY <1>2, <1>3, <1>4, <1>5, <1>6, <1>7, <1>8, <1>9 DEF ConnectionNext, connVars

\* Every step keeps a writer alone at its shop, and the shop free.
LEMMA WriterNext == WriterInv /\ [ConnectionNext]_connVars => WriterInv'
<1> SUFFICES ASSUME WriterInv, [ConnectionNext]_connVars PROVE WriterInv'
  OBVIOUS
<1>1. ConnectionInv' /\ GrantOfOne'
  BY ConnectionNextInv, GrantKept DEF WriterInv
<1>2. OneWriter' /\ StillFree'
  <2>1. CASE \E c \in Callbacks : SeekOwner(c) \/ SaveGrant(c)
    BY <2>1, SeekOwnerWriter, SaveGrantWriter
  <2>2. CASE \E r \in Resolvers : SeekOwnerAgain(r) \/ SaveRotation(r)
    BY <2>2, SeekOwnerAgainWriter, SaveRotationWriter
  <2>3. CASE \E c \in Callbacks : ExchangeCode(c) \/ CallbackDies(c) \/ \E g \in Grants : ClaimGrant(c, g)
    BY <2>3, CallbackQuiet, NoWriterStep
  <2>4. CASE \E r \in Resolvers : \/ LockRotation(r) \/ RefreshToken(r) \/ MarkReauth(r) \/ ResolverDies(r)
                                  \/ \E w \in Workspaces : Resolve(r, w)
    BY <2>4, RotationQuiet, NoWriterStep
  <2>5. CASE \/ \E g \in Grants : GrantExpires(g) \/ \E w \in Workspaces, s \in Shops : BeginOAuth(g, w, s)
             \/ \E w \in Workspaces : Disconnect(w) \/ TokenAges(w)
             \/ \E h \in 1 .. MaxUninstalls : ReceiveUninstall(h) \/ \E s \in Shops : Uninstall(h, s)
    BY <2>5, RowsQuiet, NoWriterStep
  <2>6. CASE UNCHANGED connVars
    BY <2>6, NoWriterStep DEF connVars, NoWriter, NoNewWriter, NoNewOwner
  <2> QED  BY <2>1, <2>2, <2>3, <2>4, <2>5, <2>6 DEF ConnectionNext
<1> QED  BY <1>1, <1>2 DEF WriterInv

\* Whoever has found a shop free under its lock finds it free when it writes, and
\* a shop is connected to one workspace at most.
THEOREM ShopHasOneOwner == ConnectionSpec => []OneOwner
<1>1. ConnectionInit => WriterInv
  BY ConnectionInitInv DEF ConnectionInit, WriterInv, GrantOfOne, OneWriter, StillFree, FreeFor, FreeAgain,
                           NoCallback, NoResolve
<1>2. WriterInv => OneOwner
  BY DEF WriterInv, ConnectionInv, Owners, StillFree, FreeFor, FreeAgain, OneOwner
<1> QED  BY <1>1, <1>2, WriterNext, PTL DEF ConnectionSpec

\* A grant is redeemed by one callback; a refresh token is in one call at a time,
\* and in none once its successor has been stored.
THEOREM TokensUsedOnce == ConnectionSpec => []UsedOnce
BY ConnectionInvImplies, ConnectionInvHolds, PTL

-----------------------------------------------------------------------------
(* The design files of the preview server.                                  *)

Request == [pc : {"new", "waiting", "counting", "writing", "saved", "rejected", "failed", "lost"},
            in : Directories \cup {"none"}, size : Sizes \cup {0}]
UnderWay(u) == request[u].pc \in {"waiting", "counting", "writing"}

\* A call under way has passed its checks, and until it has written it has no file.
CallsChecked ==
  \A u \in Uploads :
    /\ UnderWay(u) => request[u].in \in Directories /\ request[u].size \in 1 .. MaxFileBytes
    /\ UnderWay(u) \/ request[u].pc = "new" => file[u] = NoFile

\* A call that waits is in the queue; the one that runs is the first of it.
OneAtATime ==
  \A u \in Uploads :
    /\ UnderWay(u) => \E i \in 1 .. Len(uploadQueue) : uploadQueue[i] = u
    /\ request[u].pc \in {"counting", "writing"} => uploadQueue[1] = u

\* The call that writes has counted what is there still.
RoomForFile ==
  \A u \in Uploads :
    request[u].pc = "writing" => /\ Cardinality(Files(request[u].in)) < MaxFiles
                                 /\ Bytes(request[u].in) + request[u].size <= MaxBytes

UploadInv == UploadTypeOK /\ CallsChecked /\ OneAtATime /\ RoomForFile /\ QuotaHolds

\* The files of a directory and their bytes are finite, whatever is on disk.
LEMMA CountsAreNumbers ==
  ASSUME NEW d
  PROVE  /\ IsFiniteSet(Files(d)) /\ Cardinality(Files(d)) \in Nat
         /\ IsFiniteSet(Stored(d)) /\ Bytes(d) \in Nat
<1>1. IsFiniteSet(1 .. MaxFileBytes) /\ IsFiniteSet(Uploads)
  BY FS_Interval, UploadAssumption
<1>2. IsFiniteSet(Uploads \X (1 .. MaxFileBytes))
  BY <1>1, FS_Product
<1>3. Files(d) \in SUBSET Uploads /\ Stored(d) \in SUBSET (Uploads \X (1 .. MaxFileBytes))
  BY DEF Files, Stored
<1>4. IsFiniteSet(Files(d)) /\ IsFiniteSet(Stored(d))
  BY <1>1, <1>2, <1>3, FS_Subset
<1> QED  BY <1>4, FS_CardinalityType DEF Bytes

LEMMA UploadInitInv == UploadInit => UploadInv
<1> SUFFICES ASSUME UploadInit PROVE UploadInv
  OBVIOUS
<1>1. \A u \in Uploads : file[u] = NoFile /\ request[u].pc = "new"
  BY DEF UploadInit, NewRequest
<1>2. UploadTypeOK
  BY DEF UploadInit, UploadTypeOK, NoFile, NewRequest
<1>3. CallsChecked /\ OneAtATime /\ RoomForFile
  BY <1>1 DEF CallsChecked, OneAtATime, RoomForFile, UnderWay
<1>4. \A d \in Directories : Files(d) = {} /\ Stored(d) = {}
  BY <1>1, UploadAssumption DEF Files, Stored, NoFile
<1>5. QuotaHolds
  BY <1>4, FS_EmptySet, UploadAssumption DEF QuotaHolds, Bytes
<1> QED  BY <1>2, <1>3, <1>5 DEF UploadInv

\* No file is touched: what a directory holds stays.
LEMMA SameFiles == ASSUME UNCHANGED file, NEW d PROVE Files(d)' = Files(d) /\ Bytes(d)' = Bytes(d)
BY DEF Files, Bytes, Stored

\* The queue without its first call still holds every other call.
LEMMA QueueGoesOn ==
  ASSUME UploadTypeOK, uploadQueue # <<>>, NEW u \in Uploads, u # uploadQueue[1],
         \E i \in 1 .. Len(uploadQueue) : uploadQueue[i] = u
  PROVE  \E i \in 1 .. Len(Tail(uploadQueue)) : Tail(uploadQueue)[i] = u
<1>1. PICK i \in 1 .. Len(uploadQueue) : uploadQueue[i] = u
  OBVIOUS
<1>2. uploadQueue \in Seq(Uploads)
  BY DEF UploadTypeOK
<1>3. i - 1 \in 1 .. Len(Tail(uploadQueue)) /\ Tail(uploadQueue)[i - 1] = u
  BY <1>1, <1>2
<1> QED  BY <1>3

\* The call in its turn settles: the rest of the queue waits, nothing is written.
LEMMA SettleStep ==
  ASSUME UploadInv, NEW u \in Uploads, UnderWay(u), uploadQueue[1] = u,
         NEW outcome \in {"saved", "rejected", "failed"}, SettleUpload(u, outcome),
         file' \in [Uploads -> [in : Directories \cup {"none"}, bytes : Nat, whole : BOOLEAN]],
         \A v \in Uploads : v # u => file'[v] = file[v]
  PROVE  (UploadTypeOK /\ CallsChecked /\ OneAtATime /\ RoomForFile)'
<1>1. request \in [Uploads -> Request] /\ uploadQueue \in Seq(Uploads)
  BY DEF UploadInv, UploadTypeOK, Request
<1>2. uploadQueue # <<>> /\ uploadQueue[1] = u
  <2>1. PICK i \in 1 .. Len(uploadQueue) : uploadQueue[i] = u
    BY DEF UploadInv, OneAtATime
  <2>2. Len(uploadQueue) # 0
    BY <1>1, <2>1
  <2> QED  BY <1>1, <2>2
<1>3. /\ request' = [request EXCEPT ![u].pc = outcome] /\ uploadQueue' = Tail(uploadQueue)
      /\ request'[u].pc = outcome /\ \A v \in Uploads : v # u => request'[v] = request[v]
  BY <1>1 DEF SettleUpload, Request
<1>4. \A v \in Uploads : v # u => request[v].pc \notin {"counting", "writing"}
  BY <1>2 DEF UploadInv, OneAtATime
<1>5. UploadTypeOK'
  <2>1. request' \in [Uploads -> Request]
    <3> DEFINE old == request[u]  row == [old EXCEPT !.pc = outcome]
    <3>1. row \in Request
      <4>1. old \in Request
        BY <1>1
      <4> HIDE DEF old
      <4> QED  BY <4>1 DEF Request
    <3>2. request' = [request EXCEPT ![u] = row]
      BY <1>3
    <3> HIDE DEF row
    <3> QED  BY <1>1, <3>1, <3>2
  <2>2. uploadQueue' \in Seq(Uploads)
    BY <1>1, <1>2, <1>3
  <2> QED  BY <2>1, <2>2 DEF UploadTypeOK, Request
<1>6. CallsChecked'
  BY <1>3 DEF UploadInv, CallsChecked, UnderWay
<1>7. OneAtATime'
  <2>1. \A v \in Uploads : v # u /\ UnderWay(v) => \E i \in 1 .. Len(uploadQueue') : uploadQueue'[i] = v
    BY <1>2, <1>3, QueueGoesOn DEF UploadInv, OneAtATime
  <2> QED  BY <1>3, <1>4, <2>1 DEF OneAtATime, UnderWay
<1>8. RoomForFile'
  BY <1>3, <1>4 DEF RoomForFile
<1> QED  BY <1>5, <1>6, <1>7, <1>8

\* What one file adds to its directory.
LEMMA FileAdded ==
  ASSUME NEW u \in Uploads, NEW d \in Directories, NEW b \in 0 .. MaxFileBytes, NEW whole,
         file[u] = NoFile, file \in [Uploads -> [in : Directories \cup {"none"}, bytes : Nat, whole : BOOLEAN]],
         file' = [file EXCEPT ![u] = [in |-> d, bytes |-> b, whole |-> whole]]
  PROVE  /\ Cardinality(Files(d)') <= Cardinality(Files(d)) + 1
         /\ Bytes(d)' <= Bytes(d) + b
         /\ \A c \in Directories : c # d => Cardinality(Files(c)') = Cardinality(Files(c)) /\ Bytes(c)' = Bytes(c)
<1>1. /\ file'[u].in = d /\ file'[u].bytes = b /\ \A v \in Uploads : v # u => file'[v] = file[v]
      /\ file[u].in = "none" /\ \A c \in Directories : c # "none"
  BY UploadAssumption DEF NoFile
<1>2. Files(d)' = Files(d) \cup {u}
  BY <1>1 DEF Files
<1>3. Cardinality(Files(d)') <= Cardinality(Files(d)) + 1
  <2> DEFINE S == Files(d)
  <2>1. IsFiniteSet(S) /\ Cardinality(S) \in Nat
    BY CountsAreNumbers
  <2> HIDE DEF S
  <2>2. Cardinality(S \cup {u}) <= Cardinality(S) + 1
    BY <2>1, FS_AddElement
  <2> QED  BY <1>2, <2>2 DEF S
<1>4. Stored(d)' = Stored(d) \cup ({u} \X (1 .. b))
  <2>1. ASSUME NEW v \in Uploads, NEW i \in 1 .. MaxFileBytes
        PROVE  (file'[v].in = d /\ i <= file'[v].bytes) <=>
               ((file[v].in = d /\ i <= file[v].bytes) \/ (v = u /\ i \in 1 .. b))
    <3>1. CASE v = u
      BY <1>1, <3>1, UploadAssumption
    <3>2. CASE v # u
      BY <1>1, <3>2
    <3> QED  BY <3>1, <3>2
  <2>2. {u} \X (1 .. b) \subseteq Uploads \X (1 .. MaxFileBytes)
    BY UploadAssumption
  <2>3. ASSUME NEW x \in Uploads \X (1 .. MaxFileBytes)
        PROVE  x \in Stored(d)' <=> x \in Stored(d) \/ x \in {u} \X (1 .. b)
    <3>1. PICK v \in Uploads, i \in 1 .. MaxFileBytes : x = <<v, i>>
      OBVIOUS
    <3>2. x \in {u} \X (1 .. b) <=> v = u /\ i \in 1 .. b
      BY <3>1
    <3> QED  BY <2>1, <3>1, <3>2 DEF Stored
  <2>4. Stored(d) \subseteq Uploads \X (1 .. MaxFileBytes) /\ Stored(d)' \subseteq Uploads \X (1 .. MaxFileBytes)
    BY DEF Stored
  <2> QED  BY <2>2, <2>3, <2>4
<1>5. Bytes(d)' <= Bytes(d) + b
  <2> DEFINE T == {u} \X (1 .. b)  S == Stored(d)
  <2>1. IsFiniteSet(T) /\ Cardinality(T) = b
    <3>1. IsFiniteSet({u}) /\ Cardinality({u}) = 1
      BY FS_Singleton
    <3>2. IsFiniteSet(1 .. b) /\ Cardinality(1 .. b) = b
      BY FS_Interval, UploadAssumption
    <3> QED  BY <3>1, <3>2, FS_Product
  <2>2. IsFiniteSet(S) /\ Cardinality(S) \in Nat
    BY CountsAreNumbers, FS_CardinalityType
  <2> HIDE DEF T, S
  <2>3. Cardinality(S \cup T) = Cardinality(S) + Cardinality(T) - Cardinality(S \cap T)
    BY <2>1, <2>2, FS_Union
  <2>4. Cardinality(S \cap T) \in Nat
    BY <2>2, FS_Intersection, FS_CardinalityType
  <2>5. Cardinality(S \cup T) <= Cardinality(S) + b
    BY <2>1, <2>2, <2>3, <2>4
  <2> QED  BY <1>4, <2>5 DEF Bytes, S, T
<1>6. ASSUME NEW c \in Directories, c # d
      PROVE  Files(c)' = Files(c) /\ Stored(c)' = Stored(c)
  <2>1. \A v \in Uploads : file'[v].in = c <=> file[v].in = c
    BY <1>1, <1>6
  <2>2. \A v \in Uploads : file[v].in = c => file'[v] = file[v]
    BY <1>1
  <2>3. Stored(c)' = Stored(c)
    BY <2>1, <2>2 DEF Stored
  <2> QED  BY <2>1, <2>3 DEF Files
<1> QED  BY <1>3, <1>5, <1>6 DEF Bytes

\* The call that writes has found room, so its file, or a part of it, fits.
LEMMA WrittenFits ==
  ASSUME UploadInv, NEW u \in Uploads, request[u].pc = "writing", NEW b \in Nat, b <= request[u].size,
         NEW whole \in BOOLEAN, file' = [file EXCEPT ![u] = [in |-> request[u].in, bytes |-> b, whole |-> whole]]
  PROVE  /\ file' \in [Uploads -> [in : Directories \cup {"none"}, bytes : Nat, whole : BOOLEAN]]
         /\ \A v \in Uploads : v # u => file'[v] = file[v]
         /\ QuotaHolds'
<1>1. PICK d \in Directories :
      /\ d = request[u].in /\ request[u].size \in 1 .. MaxFileBytes /\ file[u] = NoFile
      /\ Cardinality(Files(d)) < MaxFiles /\ Bytes(d) + request[u].size <= MaxBytes
      /\ file \in [Uploads -> [in : Directories \cup {"none"}, bytes : Nat, whole : BOOLEAN]]
  BY DEF UploadInv, UploadTypeOK, CallsChecked, UnderWay, RoomForFile
<1>2. b \in 0 .. MaxFileBytes
  BY <1>1, UploadAssumption
<1>3. /\ Cardinality(Files(d)') <= Cardinality(Files(d)) + 1 /\ Bytes(d)' <= Bytes(d) + b
      /\ \A c \in Directories : c # d => Cardinality(Files(c)') = Cardinality(Files(c)) /\ Bytes(c)' = Bytes(c)
  BY <1>1, <1>2, FileAdded
<1>4. /\ Cardinality(Files(d)) \in Nat /\ Bytes(d) \in Nat
  BY CountsAreNumbers
<1>5. Cardinality(Files(d)') \in Nat /\ Bytes(d)' \in Nat
  <2>1. IsFiniteSet(1 .. MaxFileBytes) /\ IsFiniteSet(Uploads)
    BY FS_Interval, UploadAssumption
  <2>2. IsFiniteSet(Uploads \X (1 .. MaxFileBytes))
    BY <2>1, FS_Product
  <2>3. Files(d)' \in SUBSET Uploads /\ Stored(d)' \in SUBSET (Uploads \X (1 .. MaxFileBytes))
    BY DEF Files, Stored
  <2> QED  BY <2>1, <2>2, <2>3, FS_Subset, FS_CardinalityType DEF Bytes
<1>6. Cardinality(Files(d)') <= MaxFiles /\ Bytes(d)' <= MaxBytes
  BY <1>1, <1>3, <1>4, <1>5, UploadAssumption
<1>7. QuotaHolds'
  BY <1>3, <1>6 DEF UploadInv, QuotaHolds
<1> QED  BY <1>1, <1>2, <1>7

\* A step that touches no file leaves every directory within its quota.
LEMMA QuotaStays == ASSUME UploadInv, UNCHANGED file PROVE QuotaHolds'
<1>1. \A d \in Directories : Cardinality(Files(d))' = Cardinality(Files(d)) /\ Bytes(d)' = Bytes(d)
  BY SameFiles
<1> QED  BY <1>1 DEF UploadInv, QuotaHolds

LEMMA RoomStays ==
  ASSUME UNCHANGED file,
         \A v \in Uploads : request'[v].pc = "writing" =>
            /\ Cardinality(Files(request[v].in)) < MaxFiles /\ Bytes(request[v].in) + request[v].size <= MaxBytes
            /\ request'[v].in = request[v].in /\ request'[v].size = request[v].size
  PROVE  RoomForFile'
<1>1. \A v \in Uploads : request'[v].pc = "writing" =>
        /\ Cardinality(Files(request[v].in)) < MaxFiles
        /\ Cardinality(Stored(request[v].in)) + request'[v].size <= MaxBytes
        /\ request'[v].in = request[v].in
  BY DEF Bytes
<1>2. \A v \in Uploads : request'[v].pc = "writing" =>
        /\ Cardinality({u \in Uploads : file[u].in = request'[v].in}) < MaxFiles
        /\ Cardinality({b \in Uploads \X (1 .. MaxFileBytes) : /\ file[b[1]].in = request'[v].in
                                                              /\ b[2] <= file[b[1]].bytes})
           + request'[v].size <= MaxBytes
  BY <1>1 DEF Files, Stored
<1> QED  BY <1>2, Zenon DEF RoomForFile, Files, Bytes, Stored

LEMMA SaveStep ==
  ASSUME UploadInv, NEW u \in Uploads, NEW d \in Directories, NEW size \in Sizes, NEW image \in BOOLEAN,
         Save(u, d, size, image)
  PROVE  UploadInv'
<1>1. /\ file \in [Uploads -> [in : Directories \cup {"none"}, bytes : Nat, whole : BOOLEAN]]
      /\ request \in [Uploads -> Request] /\ uploadQueue \in Seq(Uploads)
  BY DEF UploadInv, UploadTypeOK, Request
<1>2. request[u].pc = "new" /\ UNCHANGED file
  BY DEF Save
<1>3. QuotaHolds'
  BY <1>2, QuotaStays
<1>4. CASE /\ size \in 1 .. MaxFileBytes
           /\ request' = [request EXCEPT ![u] = [pc |-> "waiting", in |-> d, size |-> size]]
           /\ uploadQueue' = Append(uploadQueue, u)
  <2>1. /\ request' \in [Uploads -> Request] /\ uploadQueue' \in Seq(Uploads)
        /\ request'[u] = [pc |-> "waiting", in |-> d, size |-> size]
        /\ \A v \in Uploads : v # u => request'[v] = request[v]
    BY <1>1, <1>4 DEF Request
  <2>2. /\ Len(uploadQueue') = Len(uploadQueue) + 1 /\ uploadQueue'[Len(uploadQueue) + 1] = u
        /\ \A i \in 1 .. Len(uploadQueue) : uploadQueue'[i] = uploadQueue[i]
    BY <1>1, <1>4
  <2>3. UploadTypeOK'
    BY <1>1, <1>2, <2>1 DEF UploadTypeOK, Request
  <2>4. CallsChecked'
    <3>1. file[u] = NoFile
      BY <1>2 DEF UploadInv, CallsChecked
    <3> QED  BY <1>2, <1>4, <2>1, <3>1 DEF UploadInv, CallsChecked, UnderWay
  <2>5. OneAtATime'
    <3>1. Len(uploadQueue) \in Nat
      BY <1>1
    <3>2. ASSUME NEW v \in Uploads, UnderWay(v)'
          PROVE  \E i \in 1 .. Len(uploadQueue') : uploadQueue'[i] = v
      <4>1. CASE v = u
        BY <2>2, <3>1, <4>1
      <4>2. CASE v # u
        BY <2>1, <2>2, <3>1, <3>2, <4>2 DEF UploadInv, OneAtATime, UnderWay
      <4> QED  BY <4>1, <4>2
    <3>3. ASSUME NEW v \in Uploads, request'[v].pc \in {"counting", "writing"}
          PROVE  uploadQueue'[1] = v
      <4>1. v # u /\ request'[v] = request[v]
        BY <2>1, <3>3
      <4>2. uploadQueue[1] = v /\ \E i \in 1 .. Len(uploadQueue) : uploadQueue[i] = v
        BY <3>3, <4>1 DEF UploadInv, OneAtATime, UnderWay
      <4> QED  BY <2>2, <3>1, <4>2
    <3> QED  BY <3>2, <3>3 DEF OneAtATime
  <2>6. RoomForFile'
    <3>1. \A v \in Uploads : request'[v].pc = "writing" => request[v].pc = "writing" /\ request'[v] = request[v]
      BY <2>1
    <3>2. RoomForFile /\ UNCHANGED file
      BY <1>2 DEF UploadInv
    <3> QED  BY <3>1, <3>2, RoomStays DEF RoomForFile
  <2> QED  BY <1>3, <2>3, <2>4, <2>5, <2>6 DEF UploadInv
<1>5. CASE request' = [request EXCEPT ![u].pc = "rejected"] /\ UNCHANGED uploadQueue
  <2> DEFINE row == [request[u] EXCEPT !.pc = "rejected"]
  <2>1. row \in Request /\ row.pc = "rejected" /\ request' = [request EXCEPT ![u] = row]
    BY <1>1, <1>5 DEF Request
  <2> HIDE DEF row
  <2>2. /\ request' \in [Uploads -> Request] /\ request'[u].pc = "rejected"
        /\ \A v \in Uploads : v # u => request'[v] = request[v]
    BY <1>1, <2>1
  <2>3. UploadTypeOK'
    BY <1>1, <1>2, <1>5, <2>2 DEF UploadTypeOK, Request
  <2>4. (CallsChecked /\ OneAtATime)'
    BY <1>2, <1>5, <2>2 DEF UploadInv, CallsChecked, OneAtATime, UnderWay
  <2>5. RoomForFile'
    <3>1. \A v \in Uploads : request'[v].pc = "writing" => request[v].pc = "writing" /\ request'[v] = request[v]
      BY <2>2
    <3>2. RoomForFile /\ UNCHANGED file
      BY <1>2 DEF UploadInv
    <3> QED  BY <3>1, <3>2, RoomStays DEF RoomForFile
  <2> QED  BY <1>3, <2>3, <2>4, <2>5 DEF UploadInv
<1> QED  BY <1>4, <1>5 DEF Save

\* The first call of the queue begins to count, or has found room.
LEMMA CallAdvances ==
  ASSUME UploadInv, NEW u \in Uploads, NEW p \in {"counting", "writing"}, UnderWay(u), uploadQueue[1] = u,
         request' = [request EXCEPT ![u].pc = p], UNCHANGED <<file, uploadQueue>>,
         p = "writing" => /\ Cardinality(Files(request[u].in)) < MaxFiles
                          /\ Bytes(request[u].in) + request[u].size <= MaxBytes
  PROVE  UploadInv'
<1>1. /\ file \in [Uploads -> [in : Directories \cup {"none"}, bytes : Nat, whole : BOOLEAN]]
      /\ request \in [Uploads -> Request] /\ uploadQueue \in Seq(Uploads)
  BY DEF UploadInv, UploadTypeOK, Request
<1> DEFINE row == [request[u] EXCEPT !.pc = p]
<1>2. row \in Request /\ row.pc = p /\ row.in = request[u].in /\ row.size = request[u].size
  BY <1>1 DEF Request
<1>3. request' = [request EXCEPT ![u] = row]
  BY <1>1
<1> HIDE DEF row
<1>4. /\ request' \in [Uploads -> Request] /\ request'[u] = row
      /\ \A v \in Uploads : v # u => request'[v] = request[v]
  <2> SUFFICES ASSUME request \in [Uploads -> Request], row \in Request, request' = [request EXCEPT ![u] = row]
               PROVE  /\ request' \in [Uploads -> Request] /\ request'[u] = row
                      /\ \A v \in Uploads : v # u => request'[v] = request[v]
    BY <1>1, <1>2, <1>3
  <2> HIDE DEF Request
  <2> QED  BY Zenon
<1>5. UploadTypeOK'
  BY <1>1, <1>4 DEF UploadTypeOK, Request
<1>6. (CallsChecked /\ OneAtATime)'
  BY <1>2, <1>4 DEF UploadInv, CallsChecked, OneAtATime, UnderWay
<1>7. RoomForFile'
  <2>1. \A v \in Uploads : request'[v].pc = "writing" =>
          /\ Cardinality(Files(request[v].in)) < MaxFiles /\ Bytes(request[v].in) + request[v].size <= MaxBytes
          /\ request'[v].in = request[v].in /\ request'[v].size = request[v].size
    BY <1>2, <1>4 DEF UploadInv, RoomForFile
  <2> QED  BY <2>1, RoomStays
<1> QED  BY <1>5, <1>6, <1>7, QuotaStays DEF UploadInv

LEMMA SizesAreNumbers == ASSUME UploadInv, NEW u \in Uploads PROVE request[u].size \in Nat
<1>1. request[u] \in Request
  BY DEF UploadInv, UploadTypeOK, Request
<1>2. request[u].size \in Sizes \cup {0} /\ Sizes \subseteq Nat /\ 0 \in Nat
  BY <1>1, UploadAssumption DEF Request
<1> QED  BY <1>2, Zenon

\* A call that settles and wrote nothing.
LEMMA SettleUnwritten ==
  ASSUME UploadInv, NEW u \in Uploads, UnderWay(u), uploadQueue[1] = u, UNCHANGED file,
         NEW outcome \in {"saved", "rejected", "failed"}, SettleUpload(u, outcome)
  PROVE  UploadInv'
<1>1. file' \in [Uploads -> [in : Directories \cup {"none"}, bytes : Nat, whole : BOOLEAN]]
  BY DEF UploadInv, UploadTypeOK
<1> QED  BY <1>1, SettleStep, QuotaStays DEF UploadInv

LEMMA CheckQuotaStep == ASSUME UploadInv, NEW u \in Uploads, CheckQuota(u) PROVE UploadInv'
<1>1. request[u].pc = "counting" /\ UNCHANGED file /\ UnderWay(u) /\ uploadQueue[1] = u
  BY DEF CheckQuota, UploadInv, OneAtATime, UnderWay
<1>2. CASE \E outcome \in {"rejected", "failed"} : SettleUpload(u, outcome)
  BY <1>1, <1>2, SettleUnwritten
<1>3. CASE /\ ~(Cardinality(Files(request[u].in)) >= MaxFiles \/ Bytes(request[u].in) + request[u].size > MaxBytes)
           /\ request' = [request EXCEPT ![u].pc = "writing"] /\ UNCHANGED uploadQueue
  <2>1. request[u].size \in Nat
    BY SizesAreNumbers
  <2>2. Cardinality(Files(request[u].in)) < MaxFiles /\ Bytes(request[u].in) + request[u].size <= MaxBytes
    BY <1>3, <2>1, CountsAreNumbers, UploadAssumption
  <2> QED  BY <1>1, <1>3, <2>2, CallAdvances
<1> QED  BY <1>2, <1>3 DEF CheckQuota

LEMMA WriteStep ==
  ASSUME UploadInv, NEW u \in Uploads,
         Write(u) \/ \E torn \in 0 .. MaxFileBytes : WriteFails(u, torn)
  PROVE  UploadInv'
<1>1. request[u].pc = "writing" /\ request[u].size \in Nat /\ UnderWay(u) /\ uploadQueue[1] = u
  BY SizesAreNumbers DEF Write, WriteFails, UploadInv, OneAtATime, UnderWay
<1> SUFFICES ASSUME ~(UNCHANGED file /\ SettleUpload(u, "failed")) PROVE UploadInv'
  BY <1>1, SettleUnwritten
<1>2. PICK b \in Nat, whole \in BOOLEAN, outcome \in {"saved", "rejected", "failed"} :
        /\ b <= request[u].size /\ SettleUpload(u, outcome)
        /\ file' = [file EXCEPT ![u] = [in |-> request[u].in, bytes |-> b, whole |-> whole]]
  <2>1. CASE Write(u)
    <3>1. request[u].size <= request[u].size /\ "saved" \in {"saved", "rejected", "failed"} /\ TRUE \in BOOLEAN
      BY <1>1
    <3> QED  BY <1>1, <2>1, <3>1, Zenon DEF Write
  <2>2. ASSUME NEW torn \in 0 .. MaxFileBytes, WriteFails(u, torn)
        PROVE  \E b \in Nat, whole \in BOOLEAN, outcome \in {"saved", "rejected", "failed"} :
                 /\ b <= request[u].size /\ SettleUpload(u, outcome)
                 /\ file' = [file EXCEPT ![u] = [in |-> request[u].in, bytes |-> b, whole |-> whole]]
    <3>1. torn \in Nat /\ torn <= request[u].size
      BY <1>1, <2>2, UploadAssumption DEF WriteFails
    <3> QED  BY <2>2, <3>1 DEF WriteFails
  <2> QED  BY <2>1, <2>2
<1>3. /\ file' \in [Uploads -> [in : Directories \cup {"none"}, bytes : Nat, whole : BOOLEAN]]
      /\ \A v \in Uploads : v # u => file'[v] = file[v]
      /\ QuotaHolds'
  BY <1>1, <1>2, WrittenFits
<1>4. SettleUpload(u, outcome)
  BY <1>2
<1> QED  BY <1>1, <1>3, <1>4, SettleStep DEF UploadInv

\* The one call that writes may leave an empty file.
LEMMA ServerDiesStep == ASSUME UploadInv, ServerDies PROVE UploadInv'
<1>1. PICK torn \in SUBSET {u \in Uploads : request[u].pc = "writing"} :
        file' = [u \in Uploads |-> IF u \in torn THEN [in |-> request[u].in, bytes |-> 0, whole |-> FALSE]
                                   ELSE file[u]]
  BY DEF ServerDies
<1>2. /\ file \in [Uploads -> [in : Directories \cup {"none"}, bytes : Nat, whole : BOOLEAN]]
      /\ request \in [Uploads -> Request]
  BY DEF UploadInv, UploadTypeOK, Request
<1>3. /\ request' = [u \in Uploads |-> IF UnderWay(u) THEN [request[u] EXCEPT !.pc = "lost"] ELSE request[u]]
      /\ uploadQueue' = <<>>
  BY DEF ServerDies, UnderWay
<1>4. request' \in [Uploads -> Request] /\ \A u \in Uploads : ~UnderWay(u)'
  <2>1. ASSUME NEW u \in Uploads
        PROVE  LET row == [request[u] EXCEPT !.pc = "lost"] IN row \in Request /\ row.pc = "lost"
    BY <1>2 DEF Request
  <2> QED  BY <1>2, <1>3, <2>1 DEF UnderWay
<1>5. \A u \in Uploads : request'[u].pc = "new" => u \notin torn /\ request[u].pc = "new"
  <2>1. \A u \in Uploads : [request[u] EXCEPT !.pc = "lost"].pc = "lost"
    BY <1>2 DEF Request
  <2> QED  BY <1>3, <2>1
<1>6. /\ file' \in [Uploads -> [in : Directories \cup {"none"}, bytes : Nat, whole : BOOLEAN]]
      /\ QuotaHolds'
  <2>1. CASE torn = {}
    <3>1. file' = file
      BY <1>1, <1>2, <2>1
    <3> QED  BY <1>2, <3>1, QuotaStays
  <2>2. CASE torn # {}
    <3>1. PICK u \in torn : TRUE
      BY <2>2
    <3>2. u \in Uploads /\ request[u].pc = "writing" /\ torn = {u}
      BY <3>1 DEF UploadInv, OneAtATime
    <3>3. file' = [file EXCEPT ![u] = [in |-> request[u].in, bytes |-> 0, whole |-> FALSE]]
      BY <1>1, <1>2, <3>2
    <3>4. request[u].size \in Nat
      BY <3>2, SizesAreNumbers
    <3>5. 0 \in Nat /\ 0 <= request[u].size /\ FALSE \in BOOLEAN
      BY <3>4
    <3> QED  BY <3>2, <3>3, <3>5, WrittenFits
  <2> QED  BY <2>1, <2>2
<1>7. UploadTypeOK'
  BY <1>3, <1>4, <1>6 DEF UploadTypeOK, Request
<1>8. CallsChecked'
  BY <1>1, <1>4, <1>5 DEF UploadInv, CallsChecked
<1>9. (OneAtATime /\ RoomForFile)'
  BY <1>4 DEF OneAtATime, RoomForFile, UnderWay
<1> QED  BY <1>6, <1>7, <1>8, <1>9 DEF UploadInv

LEMMA UploadNextInv == ASSUME UploadInv, [UploadNext]_uploadVars PROVE UploadInv'
<1>1. CASE UNCHANGED uploadVars
  <2>1. UNCHANGED <<file, request, uploadQueue>>
    BY <1>1 DEF uploadVars
  <2>2. (UploadTypeOK /\ CallsChecked /\ OneAtATime)'
    BY <2>1 DEF UploadInv, UploadTypeOK, CallsChecked, OneAtATime, UnderWay
  <2>3. RoomForFile'
    BY <2>1, RoomStays DEF UploadInv, RoomForFile
  <2> QED  BY <2>1, <2>2, <2>3, QuotaStays DEF UploadInv
<1>2. ASSUME NEW u \in Uploads, MakeDirectory(u)
      PROVE  UploadInv'
  <2>1. UnderWay(u) /\ uploadQueue[1] = u /\ UNCHANGED file
    BY <1>2 DEF MakeDirectory, Turn, UnderWay
  <2>2. CASE request' = [request EXCEPT ![u].pc = "counting"] /\ UNCHANGED uploadQueue
    BY <2>1, <2>2, CallAdvances
  <2>3. CASE SettleUpload(u, "failed")
    BY <2>1, <2>3, SettleUnwritten
  <2> QED  BY <1>2, <2>2, <2>3 DEF MakeDirectory
<1> QED  BY <1>1, <1>2, SaveStep, CheckQuotaStep, WriteStep, ServerDiesStep DEF UploadNext

\* A workspace never holds more files or more bytes than its quota, for any number
\* of requests and workspaces and any sizes: the count of the call in its turn
\* stays true until it has written, and a torn file is no larger than the whole.
THEOREM QuotaIsKept == UploadSpec => []QuotaHolds
<1>1. UploadInv => QuotaHolds
  BY DEF UploadInv
<1> QED  BY <1>1, UploadInitInv, UploadNextInv, PTL DEF UploadSpec

\* Every file, call and queue of the preview server keeps its type.
THEOREM UploadTypes == UploadSpec => []UploadTypeOK
<1>1. UploadInv => UploadTypeOK
  BY DEF UploadInv
<1> QED  BY <1>1, UploadInitInv, UploadNextInv, PTL DEF UploadSpec

-----------------------------------------------------------------------------
(* The composition.                                                         *)

LEMMA BrandParts == JobsStep \/ ReviewStep => BrandNext
BY WorkspaceParts DEF JobsStep, ReviewStep, BrandNext

LEMMA StoreParts == DraftsStep \/ StoreStep => StoreNext
<1>1. \A m \in StoreEditors : StoreEditorStep(m) => StoreNext
  BY DEF StoreNext
<1>2. FirstDrafts => StoreEditorStep(m1)
  BY WorkspaceParts DEF FirstDrafts, StoreEditorStep
<1> QED  BY <1>1, <1>2, WorkspaceParts DEF DraftsStep, StoreStep, StoreWorkerSucceeds, StoreNext

LEMMA ConnectionParts == ShopStep \/ RotationStep => ConnectionNext
BY WorkspaceParts DEF ShopStep, RotationStep, ConnectionNext

\* A step of a part is a step of its component, and the other components wait.
LEMMA PartsAreSteps ==
  ASSUME [MCNext]_mcVars
  PROVE  /\ [BrandNext]_brandVars /\ [StoreNext]_storeVars
         /\ [ConnectionNext]_connVars /\ [UploadNext]_uploadVars
<1>1. CASE UNCHANGED mcVars
  BY <1>1 DEF mcVars
<1>2. CASE MCNext
  BY <1>2, BrandParts, StoreParts, ConnectionParts DEF MCNext, rest
<1> QED  BY <1>1, <1>2

\* The run of the workspace runs each of its components: what holds of every
\* behaviour of a component holds of the component in the run.
THEOREM WorkspaceRunsComponents == MCSpec => BrandSpec /\ StoreSpec /\ ConnectionSpec /\ UploadSpec
<1>1. MCInit => BrandInit /\ StoreInit /\ ConnectionInit /\ UploadInit
  BY DEF MCInit
<1> QED  BY <1>1, PartsAreSteps, PTL DEF MCSpec, BrandSpec, StoreSpec, ConnectionSpec, UploadSpec

\* Every variable of the four components keeps its type.
THEOREM WorkspaceKeepsTypes == MCSpec => []WorkspaceTypes
<1>1. BrandTypeOK /\ StoreTypeOK /\ ConnectionTypeOK /\ UploadTypeOK => WorkspaceTypes
  BY DEF WorkspaceTypes
<1> QED  BY <1>1, WorkspaceRunsComponents, BrandTypes, StoreTypes, ConnectionTypes, UploadTypes, PTL
=============================================================================
