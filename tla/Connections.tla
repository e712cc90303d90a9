----------------------------- MODULE Connections -----------------------------
(***************************************************************************)
(* The Shopify connections of the workspaces: OAuth callbacks              *)
(* (src/integrations/shopify-oauth.ts), token rotation by the processes    *)
(* that call Shopify (shopify-access-token-provider.ts), the operator's    *)
(* disconnect and the app/uninstalled webhook                              *)
(* (connection-repository.ts).  A credential is the number of its refresh  *)
(* token; Shopify's side is what the code sees of it.                      *)
(***************************************************************************)
EXTENDS Naturals, FiniteSets

CONSTANTS
  Workspaces, Shops,
  MaxTokens,      \* bound: tokens Shopify issues
  MaxUninstalls,  \* bound: uninstallations
  Grants,         \* rows of shopify_oauth_states
  Callbacks,      \* OAuth callback requests
  Resolvers,      \* processes that need an access token
  NoShop

Tokens == 1 .. MaxTokens

ASSUME ConnectionBounds == MaxTokens \in Nat /\ MaxUninstalls \in Nat
ASSUME NoShopIsNone == NoShop \notin Shops

VARIABLES
  conn,       \* integration_connections, the SHOPIFY row of each workspace
  spent,      \* refresh tokens that a rotation has replaced in the table
  grant,      \* shopify_oauth_states
  callback,   \* where each callback request is
  resolver,   \* where each resolve() call is
  accepted,   \* Shopify: refresh tokens it accepts, by shop
  issued,     \* Shopify: tokens issued
  uninstalls, \* Shopify: shops of the uninstallations so far, by webhook id
  receipts    \* shopify_app_uninstall_receipts

remote == <<accepted, issued, uninstalls>>
connVars == <<conn, spent, grant, callback, resolver, remote, receipts>>

-----------------------------------------------------------------------------
\* fresh: the access token is more than five minutes from its expiry; live: the
\* refresh token has not expired; failing: refreshFailureCount is not zero.
Connection == [status : {"NONE", "CONNECTED", "DISCONNECTED", "REAUTH_REQUIRED"},
               shop : Shops \cup {NoShop}, token : 0 .. MaxTokens,
               fresh : BOOLEAN, live : BOOLEAN, failing : BOOLEAN]
NoConnection == [status |-> "NONE", shop |-> NoShop, token |-> 0,
                 fresh |-> FALSE, live |-> FALSE, failing |-> FALSE]
NoCallback == [pc |-> "idle", of |-> {}, token |-> 0]
NoResolve == [pc |-> "idle", of |-> {}, shop |-> NoShop, token |-> 0, next |-> 0]

\* Every column holds a value of its type; every call is at a known step (of is
\* the grant, or the workspace, it is about).
ConnectionTypeOK ==
  /\ conn \in [Workspaces -> Connection]
  /\ spent \subseteq Tokens
  /\ grant \in [Grants -> [status : {"NONE", "OPEN", "USED"}, of : SUBSET Workspaces,
                           shop : Shops \cup {NoShop}]]
  /\ callback \in [Callbacks -> [pc : {"idle", "exchange", "save", "store"}, of : SUBSET Grants,
                                 token : 0 .. MaxTokens]]
  /\ resolver \in [Resolvers -> [pc : {"idle", "wait", "fetch", "save", "store", "reauth"},
                                 of : SUBSET Workspaces, shop : Shops \cup {NoShop}, token : 0 .. MaxTokens, next : 0 .. MaxTokens]]
  /\ accepted \in [Shops -> SUBSET Tokens] /\ issued \in 0 .. MaxTokens
  /\ uninstalls \in [1 .. MaxUninstalls -> Shops \cup {NoShop}] /\ receipts \subseteq 1 .. MaxUninstalls

ConnectionInit ==
  /\ conn = [w \in Workspaces |-> NoConnection] /\ spent = {}
  /\ grant = [g \in Grants |-> [status |-> "NONE", of |-> {}, shop |-> NoShop]]
  /\ callback = [c \in Callbacks |-> NoCallback] /\ resolver = [r \in Resolvers |-> NoResolve]
  /\ accepted = [s \in Shops |-> {}] /\ issued = 0
  /\ uninstalls = [h \in 1 .. MaxUninstalls |-> NoShop] /\ receipts = {}

-----------------------------------------------------------------------------
(* upsert: one transaction that takes the advisory lock of the shop, looks    *)
(* for another workspace that is connected to it, and then writes the row.    *)

Owned(w, s) == \E v \in Workspaces \ {w} : conn[v].status = "CONNECTED" /\ conn[v].shop = s

\* Mutant: the lock is not taken.
NeverLocked(s) == FALSE

\* A transaction that has looked and not yet written holds the lock of its shop.
ShopLocked(s) ==
  \/ \E c \in Callbacks : callback[c].pc = "store" /\ \E g \in callback[c].of : grant[g].shop = s
  \/ \E r \in Resolvers : resolver[r].pc = "store" /\ resolver[r].shop = s

\* The row is written, whatever it was, unless the unique index of the connected
\* shops refuses it.
Upsert(w, s, t) ==
  IF Owned(w, s)
  THEN UNCHANGED conn
  ELSE conn' = [conn EXCEPT ![w] = [status |-> "CONNECTED", shop |-> s, token |-> t,
                                    fresh |-> TRUE, live |-> TRUE, failing |-> FALSE]]

\* The credential is overwritten and the metadata emptied.
Destroy(w) ==
  conn' = [conn EXCEPT ![w] = [NoConnection EXCEPT !.status = "DISCONNECTED", !.shop = conn[w].shop]]

-----------------------------------------------------------------------------
(* OAuth.                                                                   *)

BeginOAuth(g, w, s) ==
  /\ grant[g].status = "NONE"
  /\ grant' = [grant EXCEPT ![g] = [status |-> "OPEN", of |-> {w}, shop |-> s]]
  /\ UNCHANGED <<conn, spent, callback, resolver, remote, receipts>>

\* One UPDATE takes the state: unused and not expired.
ClaimGrant(c, g) ==
  /\ callback[c].pc = "idle" /\ grant[g].status = "OPEN"
  /\ grant' = [grant EXCEPT ![g].status = "USED"]
  /\ callback' = [callback EXCEPT ![c] = [pc |-> "exchange", of |-> {g}, token |-> 0]]
  /\ UNCHANGED <<conn, spent, resolver, remote, receipts>>

GrantExpires(g) ==
  /\ grant[g].status = "OPEN" /\ grant' = [grant EXCEPT ![g].status = "USED"]
  /\ UNCHANGED <<conn, spent, callback, resolver, remote, receipts>>

\* The code is exchanged; Shopify may or may not go on accepting older tokens.
ExchangeCode(c) ==
  /\ callback[c].pc = "exchange"
  /\ \/ /\ issued < MaxTokens /\ issued' = issued + 1
        /\ \E g \in callback[c].of : \E kept \in {{}, accepted[grant[g].shop]} :
             accepted' = [accepted EXCEPT ![grant[g].shop] = kept \cup {issued + 1}]
        /\ callback' = [callback EXCEPT ![c].pc = "save", ![c].token = issued + 1]
     \/ callback' = [callback EXCEPT ![c] = NoCallback] /\ UNCHANGED <<accepted, issued>>
  /\ UNCHANGED <<conn, spent, grant, resolver, uninstalls, receipts>>

SeekOwner(c) ==
  /\ callback[c].pc = "save"
  /\ \E g \in callback[c].of : \E w \in grant[g].of :
       /\ ~ShopLocked(grant[g].shop)
       /\ callback' = [callback EXCEPT ![c] = IF Owned(w, grant[g].shop) THEN NoCallback
                                              ELSE [@ EXCEPT !.pc = "store"]]
  /\ UNCHANGED <<conn, spent, grant, resolver, remote, receipts>>

SaveGrant(c) ==
  /\ callback[c].pc = "store"
  /\ \E g \in callback[c].of : \E w \in grant[g].of : Upsert(w, grant[g].shop, callback[c].token)
  /\ callback' = [callback EXCEPT ![c] = NoCallback]
  /\ UNCHANGED <<spent, grant, resolver, remote, receipts>>

CallbackDies(c) ==
  /\ callback[c].pc # "idle" /\ callback' = [callback EXCEPT ![c] = NoCallback]
  /\ UNCHANGED <<conn, spent, grant, resolver, remote, receipts>>

-----------------------------------------------------------------------------
(* resolve(): a token that is about to expire is rotated under the advisory *)
(* lock of the workspace, after a second look at the row.                   *)

Resolve(r, w) ==
  /\ resolver[r].pc = "idle" /\ conn[w].status = "CONNECTED" /\ ~conn[w].fresh
  /\ resolver' = [resolver EXCEPT ![r] = [NoResolve EXCEPT !.pc = "wait", !.of = {w}]]
  /\ UNCHANGED <<conn, spent, grant, callback, remote, receipts>>

Rotating(w) == \E r \in Resolvers : resolver[r].of = {w} /\ resolver[r].pc \in {"fetch", "save", "store", "reauth"}

LookAgain(r, w) ==
  resolver' = [resolver EXCEPT ![r] =
    IF conn[w].status # "CONNECTED" \/ conn[w].fresh THEN NoResolve
    ELSE [@ EXCEPT !.pc = IF conn[w].live THEN "fetch" ELSE "reauth",
                   !.shop = conn[w].shop, !.token = conn[w].token]]

\* Mutant: nobody takes the lock.
RotateUnlocked(r) ==
  /\ resolver[r].pc = "wait"
  /\ \E w \in resolver[r].of : LookAgain(r, w)
  /\ UNCHANGED <<conn, spent, grant, callback, remote, receipts>>

LockRotation(r) ==
  /\ resolver[r].pc = "wait"
  /\ \E w \in resolver[r].of : ~Rotating(w) /\ LookAgain(r, w)
  /\ UNCHANGED <<conn, spent, grant, callback, remote, receipts>>

\* recordCredentialRefreshFailure: only a row that is connected.
RecordFailure(w) ==
  conn' = IF conn[w].status = "CONNECTED" THEN [conn EXCEPT ![w].failing = TRUE] ELSE conn

\* Shopify replaces an accepted token, and the answer may be lost; it answers
\* that another one is not active; or the call fails.
RefreshToken(r) ==
  LET s == resolver[r].shop  t == resolver[r].token
  IN  /\ resolver[r].pc = "fetch"
      /\ \/ /\ t \in accepted[s] /\ issued < MaxTokens /\ issued' = issued + 1
            /\ accepted' = [accepted EXCEPT ![s] = (@ \ {t}) \cup {issued + 1}]
            /\ \/ /\ resolver' = [resolver EXCEPT ![r].pc = "save", ![r].next = issued + 1]
                  /\ UNCHANGED conn
               \/ /\ \E w \in resolver[r].of : RecordFailure(w)
                  /\ resolver' = [resolver EXCEPT ![r] = NoResolve]
         \/ /\ t \notin accepted[s] /\ resolver' = [resolver EXCEPT ![r].pc = "reauth"]
            /\ UNCHANGED <<conn, accepted, issued>>
         \/ /\ \E w \in resolver[r].of : RecordFailure(w)
            /\ resolver' = [resolver EXCEPT ![r] = NoResolve] /\ UNCHANGED <<accepted, issued>>
      /\ UNCHANGED <<spent, grant, callback, uninstalls, receipts>>

\* The new pair is stored by upsert, whatever has become of the row meanwhile.
SeekOwnerAgain(r) ==
  /\ resolver[r].pc = "save" /\ ~ShopLocked(resolver[r].shop)
  /\ \E w \in resolver[r].of :
       resolver' = [resolver EXCEPT ![r] = IF Owned(w, resolver[r].shop) THEN NoResolve
                                           ELSE [@ EXCEPT !.pc = "store"]]
  /\ UNCHANGED <<conn, spent, grant, callback, remote, receipts>>

SaveRotation(r) ==
  /\ resolver[r].pc = "store"
  /\ \E w \in resolver[r].of :
       /\ Upsert(w, resolver[r].shop, resolver[r].next)
       /\ spent' = IF Owned(w, resolver[r].shop) THEN spent ELSE spent \cup {resolver[r].token}
  /\ resolver' = [resolver EXCEPT ![r] = NoResolve]
  /\ UNCHANGED <<grant, callback, remote, receipts>>

\* markReauthRequired: whatever the row says.
MarkReauth(r) ==
  /\ resolver[r].pc = "reauth"
  /\ \E w \in resolver[r].of : conn' = [conn EXCEPT ![w].status = "REAUTH_REQUIRED"]
  /\ resolver' = [resolver EXCEPT ![r] = NoResolve]
  /\ UNCHANGED <<spent, grant, callback, remote, receipts>>

ResolverDies(r) ==
  /\ resolver[r].pc # "idle" /\ resolver' = [resolver EXCEPT ![r] = NoResolve]
  /\ UNCHANGED <<conn, spent, grant, callback, remote, receipts>>

-----------------------------------------------------------------------------
Disconnect(w) ==
  /\ conn[w].status # "NONE" /\ Destroy(w)
  /\ UNCHANGED <<spent, grant, callback, resolver, remote, receipts>>

\* The shop's owner removes the app; Shopify will send the webhook, and again.
Uninstall(h, s) ==
  /\ uninstalls[h] = NoShop /\ accepted[s] # {}
  /\ accepted' = [accepted EXCEPT ![s] = {}] /\ uninstalls' = [uninstalls EXCEPT ![h] = s]
  /\ UNCHANGED <<conn, spent, grant, callback, resolver, issued, receipts>>

Rank(status) == CASE status = "CONNECTED" -> 0 [] status = "REAUTH_REQUIRED" -> 1 [] OTHER -> 2

\* revokeShopifyInstallation: once per webhook id; the connection of the shop that
\* is most alive.
ReceiveUninstall(h) ==
  LET s == uninstalls[h]
      Owners == {w \in Workspaces : conn[w].status # "NONE" /\ conn[w].shop = s}
  IN  /\ s # NoShop /\ h \notin receipts
      /\ receipts' = receipts \cup {h}
      /\ IF Owners = {} THEN UNCHANGED conn
         ELSE \E w \in Owners :
                /\ \A v \in Owners : Rank(conn[w].status) <= Rank(conn[v].status)
                /\ IF conn[w].status # "DISCONNECTED" THEN Destroy(w) ELSE UNCHANGED conn
      /\ UNCHANGED <<spent, grant, callback, resolver, remote>>

TokenAges(w) ==
  /\ conn[w].status = "CONNECTED"
  /\ \/ conn[w].fresh /\ conn' = [conn EXCEPT ![w].fresh = FALSE]
     \/ ~conn[w].fresh /\ conn[w].live /\ conn' = [conn EXCEPT ![w].live = FALSE]
  /\ UNCHANGED <<spent, grant, callback, resolver, remote, receipts>>

ConnectionNext ==
  \/ \E g \in Grants : \/ GrantExpires(g)
                       \/ \E w \in Workspaces, s \in Shops : BeginOAuth(g, w, s)
                       \/ \E c \in Callbacks : ClaimGrant(c, g)
  \/ \E c \in Callbacks : ExchangeCode(c) \/ SeekOwner(c) \/ SaveGrant(c) \/ CallbackDies(c)
  \/ \E r \in Resolvers : \/ LockRotation(r) \/ RefreshToken(r) \/ MarkReauth(r)
                          \/ SeekOwnerAgain(r) \/ SaveRotation(r)
                          \/ ResolverDies(r) \/ \E w \in Workspaces : Resolve(r, w)
  \/ \E w \in Workspaces : Disconnect(w) \/ TokenAges(w)
  \/ \E h \in 1 .. MaxUninstalls : ReceiveUninstall(h) \/ \E s \in Shops : Uninstall(h, s)

ConnectionSpec == ConnectionInit /\ [][ConnectionNext]_connVars

-----------------------------------------------------------------------------
\* A callback or a rotation that found its shop free finds it free when it writes,
\* though other callbacks, rotations, disconnects and uninstallations come between:
\* the look that upsert takes under the shop's lock (docs/192) settles who owns the
\* shop, and the unique index of the connected shops never has to refuse the write.
\* So a shop is connected to one workspace at most.
OneOwner ==
  /\ \A w, v \in Workspaces :
       conn[w].status = "CONNECTED" /\ conn[v].status = "CONNECTED" /\ conn[w].shop = conn[v].shop => w = v
  /\ \A c \in Callbacks : callback[c].pc = "store" =>
       \A g \in callback[c].of : \A w \in grant[g].of : ~Owned(w, grant[g].shop)
  /\ \A r \in Resolvers : resolver[r].pc = "store" =>
       \A w \in resolver[r].of : ~Owned(w, resolver[r].shop)

\* A grant is redeemed by one callback, however often its URL is opened.  A refresh
\* token is in one call at a time, and never in one once its successor has been
\* stored; only a rotation that failed, or whose answer or store was lost, leaves
\* its token to be sent again (docs/154).
UsedOnce ==
  /\ \A c, d \in Callbacks : callback[c].of # {} /\ callback[c].of = callback[d].of => c = d
  /\ \A r \in Resolvers : resolver[r].pc = "fetch" => resolver[r].token \notin spent
  /\ \A q, r \in Resolvers :
       resolver[q].pc = "fetch" /\ resolver[r].pc = "fetch" /\ resolver[q].token = resolver[r].token => q = r

\* A connection that was taken away comes back only by a new authorisation (docs/72).
DisconnectIsFinal ==
  [][\A w \in Workspaces : conn[w].status = "DISCONNECTED" /\ conn'[w].status # "DISCONNECTED" =>
       \E c \in Callbacks : callback[c].pc = "store" /\ callback'[c].pc = "idle"]_connVars
=============================================================================
