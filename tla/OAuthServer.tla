----------------------------- MODULE OAuthServer -----------------------------
(***************************************************************************)
(* The OAuth authorization server (src/src/lib/oauth.ts, oauth-tx.ts,      *)
(* tailnet-approval.ts, routes/oauth.ts) and the doors that accept its     *)
(* tokens (routes/mcp.ts, jungle.ts, chatgpt.ts, lib/scoped-door.ts,       *)
(* lib/auth-diagnosis.ts).                                                 *)
(*                                                                         *)
(* One bridge process.  Handlers are synchronous; each of the store        *)
(* functions they call reads the file, prunes it, changes it and writes it *)
(* back whole, so a handler that calls several can stop between two writes *)
(* (a write throws, the process dies).  Transactions are memory only.      *)
(*                                                                         *)
(* Credentials are numbered per kind as they are minted; an access and its *)
(* refresh token are one pair.  Whether a client proves its identity (id,  *)
(* redirect, PKCE) is an input.  Fields named by, tx and grant say where a *)
(* credential comes from; the code does not store them.                    *)
(***************************************************************************)
EXTENDS Integers, FiniteSets

CONSTANTS
  Audience,   \* the protected resources (audienceResources)
  Bridge,     \* the bridge's own, /mcp
  CodeTtl,    \* CODE_TTL_MS
  AskTtl,     \* PENDING_APPROVAL_TTL_MS
  TxTtl,      \* TX_TTL_MS
  CookieTtl,  \* 90 days
  TombTtl,    \* EXPIRED_TOMBSTONE_TTL_MS
  MaxAsks,    \* MAX_PENDING_APPROVALS
  Death,      \* when the pair issued before tokens lived for ever dies
  Limit,      \* bound on how many of each kind are minted
  MaxTime,    \* bound on the clock
  Faults      \* the failures that may happen

Never == 0    \* NEVER_EXPIRES
FaultKinds ==
  {"write",    \* a write of the store throws
   "restart",  \* the process dies, also between two writes
   "read"}     \* the store cannot be read or parsed for a while

Kinds == {"tx", "ask", "cookie", "code", "pair"}

ASSUME OAuthAssumption ==
  /\ Bridge \in Audience
  /\ {CodeTtl, AskTtl, TxTtl, CookieTtl, TombTtl, MaxAsks, Death} \subseteq Nat \ {0}
  /\ Limit \in [Kinds -> Nat] /\ Limit["pair"] # 0 /\ MaxTime \in Nat
  /\ Faults \subseteq FaultKinds

VARIABLES
  now,        \* Date.now()
  disk,       \* the file at OAUTH_STORE_PATH
  readable,   \* can it be read?
  txs,        \* oauth-tx.ts: pending
  made,       \* how many of each kind were minted
  approved,   \* transactions a tailnet device approved
  refused,    \* transactions answered with access_denied
  codes,      \* every code minted, and for which transaction
  presented,  \* codes presented at the token endpoint
  pairs       \* every pair handed to a client, and what it was minted from

vars == <<now, disk, readable, txs, made, approved, refused, codes, presented, pairs>>
history == <<approved, refused, codes, presented, pairs>>

Fails(f) == f \in Faults
None == 0

Blank == [codes |-> {}, access |-> {}, refresh |-> {}, cookies |-> {}, asks |-> {}, dead |-> {}]

\* The first pair dates from before tokens lived for ever; its grant is no code.
Legacy(aud) == [id |-> 1, grant |-> None, aud |-> aud, until |-> Death]

Init ==
  /\ now = 0
  /\ \E aud \in Audience :
       disk = [Blank EXCEPT !.access = {Legacy(aud)}, !.refresh = {Legacy(aud)}]
  /\ readable = TRUE
  /\ txs = {}
  /\ made = [k \in Kinds |-> IF k = "pair" THEN 1 ELSE 0]
  /\ approved = {} /\ refused = {} /\ codes = {} /\ presented = {}
  /\ pairs = {}

-----------------------------------------------------------------------------
(* The store. *)

TokenLiveByDate(until) == until > now
TokenLive(until) == until = Never \/ until > now

\* Dead credentials go, dead access tokens leave a tombstone, live ones with a
\* death date lose it.
Undying(rs) == {[r EXCEPT !.until = Never] : r \in {x \in rs : TokenLive(x.until)}}
Tombstones(d) ==
  {t \in d.dead \cup {[id |-> a.id, at |-> a.until] : a \in {x \in d.access : ~TokenLive(x.until)}} :
     t.at + TombTtl > now}
Pruned(d) ==
  [codes   |-> {c \in d.codes : c.until > now},
   access  |-> Undying(d.access),
   refresh |-> Undying(d.refresh),
   dead    |-> Tombstones(d),
   asks    |-> {a \in d.asks : a.until > now},
   cookies |-> {c \in d.cookies : c.at + CookieTtl > now}]

\* loadStore: a file that cannot be read is an empty one.
Loaded == IF readable THEN Pruned(disk) ELSE Blank

\* saveStore writes a copy beside the file and renames it.
Written(d) == disk' = d /\ readable' = TRUE

Fresh(k) == made[k] + 1
MayMake(k) == made[k] < Limit[k]
Made(ks) == made' = [k \in Kinds |-> IF k \in ks THEN made[k] + 1 ELSE made[k]]

-----------------------------------------------------------------------------
(* Store functions, as functions of what was loaded. *)

Without(rs, id) == {r \in rs : r.id # id}

\* createPendingApproval: past the cap the oldest goes.
WithAskUncapped(d, tx) ==
  [d EXCEPT !.asks = @ \cup
     {[id |-> Fresh("ask"), tx |-> tx, status |-> "pending", until |-> now + AskTtl]}]
WithAsk(d, tx) ==
  LET new == WithAskUncapped(d, tx).asks
  IN  [d EXCEPT !.asks =
         {a \in new : Cardinality({b \in new : b.id > a.id}) < MaxAsks}]

WithCookie(d, tx) == [d EXCEPT !.cookies = @ \cup {[id |-> Fresh("cookie"), at |-> now, by |-> tx]}]
WithCode(d, tx) ==
  [d EXCEPT !.codes = @ \cup {[id |-> Fresh("code"), aud |-> tx.aud, until |-> now + CodeTtl]}]

NewPair(grant, aud) == [id |-> Fresh("pair"), grant |-> grant, aud |-> aud, until |-> Never]
WithPair(d, pair) == [d EXCEPT !.access = @ \cup {pair}, !.refresh = @ \cup {pair}]

ValidCookie(c) == \E k \in Loaded.cookies : k.id = c
Outcome(ask, tx) ==
  IF ~\E a \in Loaded.asks : a.id = ask THEN "expired"
  ELSE LET a == CHOOSE x \in Loaded.asks : x.id = ask
       IN  IF a.tx # tx THEN "mismatch" ELSE a.status
\* consumePendingApproval: what is left of the store.
Consumed(d, ask, tx) ==
  IF Outcome(ask, tx) \in {"approved", "denied"}
  THEN [d EXCEPT !.asks = Without(@, ask)] ELSE d

-----------------------------------------------------------------------------
(* GET /oauth/authorize: open a transaction and, unless the browser holds a *)
(* cookie, an approval request for it.                                      *)

LiveTxs == {t \in txs : t.until > now}

Authorize(aud, cookie) ==
  /\ MayMake("tx")
  /\ LET tx == [id |-> Fresh("tx"), aud |-> aud, until |-> now + TxTtl]
     IN  /\ txs' = LiveTxs \cup {tx}
         /\ \/ ValidCookie(cookie) /\ Made({"tx"}) /\ UNCHANGED <<disk, readable>>
            \/ /\ ~ValidCookie(cookie) /\ MayMake("ask")
               /\ Made({"tx", "ask"})
               /\ Written(WithAsk(Loaded, tx.id))
            \/ ~ValidCookie(cookie) /\ Fails("write") /\ Made({"tx"}) /\ UNCHANGED <<disk, readable>>
  /\ UNCHANGED <<now, history>>

\* decidePendingApproval.
Decided(d, a, status) ==
  [d EXCEPT !.asks = Without(@, a.id) \cup {[a EXCEPT !.status = status]}]

\* POST /oauth/approve/:id on the tailnet listener: pending -> decided, once.
Decide(ask, status) ==
  /\ \E a \in Loaded.asks :
       /\ a.id = ask /\ a.status = "pending"
       /\ Written(Decided(Loaded, a, status))
       /\ approved' = IF status = "approved" THEN approved \cup {a.tx} ELSE approved
  /\ UNCHANGED <<now, txs, made, refused, codes, presented, pairs>>

-----------------------------------------------------------------------------
(* POST /oauth/authorize. *)

EndTx(tx) == txs' = LiveTxs \ {tx}

\* The button Deny, or an approval the tailnet denied: the transaction is over.
Deny(tx, ask, cookie, decision) ==
  /\ \/ decision = "deny"
     \/ ~ValidCookie(cookie) /\ Outcome(ask, tx.id) = "denied"
  /\ IF Consumed(Loaded, ask, tx.id) = Loaded THEN UNCHANGED <<disk, readable>>
     ELSE Written(Consumed(Loaded, ask, tx.id))
  /\ EndTx(tx)
  /\ refused' = refused \cup {tx.id}
  /\ UNCHANGED <<now, made, approved, codes, presented, pairs>>

\* Too early: nothing changes but the pruning of old transactions.
NotYet(tx, ask, cookie, decision) ==
  /\ decision = "approve" /\ ~ValidCookie(cookie) /\ Outcome(ask, tx.id) = "pending"
  /\ txs' = LiveTxs
  /\ UNCHANGED <<now, disk, readable, made, history>>

\* The request to the tailnet is gone: the page comes back with a new one.
AskAgain(tx, ask, cookie, decision) ==
  /\ decision = "approve" /\ ~ValidCookie(cookie)
  /\ Outcome(ask, tx.id) \in {"expired", "mismatch"}
  /\ MayMake("ask")
  /\ Made({"ask"})
  /\ Written(WithAsk(Loaded, tx.id))
  /\ txs' = LiveTxs
  /\ UNCHANGED <<now, history>>

MayGrantAnyAsk(tx, ask, cookie) == ValidCookie(cookie) \/ \E a \in Loaded.asks : a.id = ask /\ a.status = "approved"
MayGrant(tx, ask, cookie) == ValidCookie(cookie) \/ Outcome(ask, tx.id) = "approved"

\* The stores written on the way to a code: the request consumed, a cookie
\* granted, the code minted.
GrantSteps(tx, ask, cookie) ==
  LET d1 == Consumed(Loaded, ask, tx.id)
      d2 == IF ValidCookie(cookie) THEN d1 ELSE WithCookie(d1, tx.id)
  IN  <<d1, d2, WithCode(d2, tx)>>

Approve(tx, ask, cookie, decision) ==
  /\ decision = "approve" /\ MayGrant(tx, ask, cookie)
  /\ MayMake("code") /\ (ValidCookie(cookie) \/ MayMake("cookie"))
  /\ Written(GrantSteps(tx, ask, cookie)[3])
  /\ Made({"code"} \cup (IF ValidCookie(cookie) THEN {} ELSE {"cookie"}))
  /\ EndTx(tx)
  /\ codes' = codes \cup {[id |-> Fresh("code"), tx |-> tx.id, aud |-> tx.aud,
       human |-> IF ValidCookie(cookie)
                 THEN (CHOOSE k \in Loaded.cookies : k.id = cookie).by ELSE tx.id]}
  /\ UNCHANGED <<now, approved, refused, presented, pairs>>

\* A write throws on the way.  The last one comes after the transaction is over.
ApproveFails(tx, ask, cookie, decision) ==
  /\ Fails("write")
  /\ decision = "approve" /\ MayGrant(tx, ask, cookie)
  /\ \/ txs' = LiveTxs /\ UNCHANGED <<disk, readable, made>>
     \/ /\ ~ValidCookie(cookie)
        /\ Written(GrantSteps(tx, ask, cookie)[1])
        /\ txs' = LiveTxs /\ UNCHANGED made
     \/ /\ ValidCookie(cookie) \/ MayMake("cookie")
        /\ Written(GrantSteps(tx, ask, cookie)[2])
        /\ EndTx(tx)
        /\ Made(IF ValidCookie(cookie) THEN {} ELSE {"cookie"})
  /\ UNCHANGED <<now, history>>

Submit(tx, ask, cookie, decision) ==
  \/ Deny(tx, ask, cookie, decision) \/ NotYet(tx, ask, cookie, decision)
  \/ AskAgain(tx, ask, cookie, decision)
  \/ Approve(tx, ask, cookie, decision) \/ ApproveFails(tx, ask, cookie, decision)

-----------------------------------------------------------------------------
(* POST /oauth/token. *)

ConsumedCodeIf(d, c, ok) == IF ok THEN [d EXCEPT !.codes = Without(@, c.id)] ELSE d
ConsumedCode(d, c, ok) == [d EXCEPT !.codes = Without(@, c.id)]

\* The code is spent before anything else is checked: a client that proves
\* nothing, or asks for another resource, gets none, and no second try.
Misuse(c, aud, proof) ==
  /\ ~proof \/ aud # c.aud
  /\ Written(ConsumedCode(Loaded, c, FALSE))
  /\ presented' = presented \cup {c.id}
  /\ UNCHANGED <<now, txs, made, approved, refused, codes, pairs>>

Exchange(c, aud, proof) ==
  /\ proof /\ aud = c.aud
  /\ MayMake("pair")
  /\ LET pair == NewPair(c.id, c.aud)
     IN  /\ Written(WithPair(ConsumedCode(Loaded, c, TRUE), pair))
         /\ pairs' = pairs \cup {[id |-> pair.id, aud |-> pair.aud, grant |-> c.id, from |-> <<"code", c.id>>]}
  /\ Made({"pair"})
  /\ presented' = presented \cup {c.id}
  /\ UNCHANGED <<now, txs, approved, refused, codes>>

\* The second write throws: the code is spent and the client has nothing.
ExchangeFails(c, aud, proof) ==
  /\ Fails("write")
  /\ proof /\ aud = c.aud
  /\ Written(ConsumedCode(Loaded, c, TRUE))
  /\ presented' = presented \cup {c.id}
  /\ UNCHANGED <<now, txs, made, approved, refused, codes, pairs>>

RotatedKeepsAccess(d, r, pair) ==
  WithPair([d EXCEPT !.refresh = Without(@, r.id)], pair)
Rotated(d, r, pair) ==
  WithPair([d EXCEPT !.refresh = Without(@, r.id), !.access = Without(@, r.id)], pair)

\* rotateRefresh: one write kills the old pair and adds the new one.
Rotate(r) ==
  /\ MayMake("pair")
  /\ LET pair == NewPair(r.grant, r.aud)
     IN  /\ Written(Rotated(Loaded, r, pair))
         /\ pairs' = pairs \cup {[id |-> pair.id, aud |-> pair.aud, grant |-> r.grant, from |-> <<"pair", r.id>>]}
  /\ Made({"pair"})
  /\ UNCHANGED <<now, txs, approved, refused, codes, presented>>

\* registerClient: the clients are left out, the pruning it writes back is not.
Register ==
  /\ Written(Loaded)
  /\ UNCHANGED <<now, txs, made, history>>

-----------------------------------------------------------------------------
Tick ==
  /\ now < MaxTime
  /\ now' = now + 1
  /\ UNCHANGED <<disk, readable, txs, made, history>>

\* The process dies; it may have been between two writes of a grant or of an
\* exchange.
Restart ==
  /\ Fails("restart")
  /\ txs' = {}
  /\ \/ UNCHANGED <<disk, readable, presented>>
     \/ \E tx \in LiveTxs, a \in Loaded.asks :
          /\ MayGrant(tx, a.id, None)
          /\ Written(GrantSteps(tx, a.id, None)[1])
          /\ UNCHANGED presented
     \/ \E c \in Loaded.codes :
          /\ Written(ConsumedCode(Loaded, c, TRUE))
          /\ presented' = presented \cup {c.id}
  /\ UNCHANGED <<now, made, approved, refused, codes, pairs>>

Unreadable ==
  /\ Fails("read")
  /\ readable' = ~readable
  /\ UNCHANGED <<now, disk, txs, made, history>>

Next ==
  \/ Tick \/ Restart \/ Unreadable \/ Register
  \/ \E aud \in Audience, cookie \in 0 .. made["cookie"] : Authorize(aud, cookie)
  \/ \E ask \in 1 .. made["ask"], status \in {"approved", "denied"} : Decide(ask, status)
  \/ \E tx \in LiveTxs, ask \in 0 .. made["ask"], cookie \in 0 .. made["cookie"],
        decision \in {"approve", "deny"} : Submit(tx, ask, cookie, decision)
  \/ \E c \in Loaded.codes, aud \in Audience, proof \in BOOLEAN :
       Misuse(c, aud, proof) \/ Exchange(c, aud, proof) \/ ExchangeFails(c, aud, proof)
  \/ \E r \in Loaded.refresh : Rotate(r)

Spec == Init /\ [][Next]_vars
-----------------------------------------------------------------------------
(* The doors: access-gate.ts in front of everything, then each MCP door.    *)

\* lookupAccess, and the exact-audience test of each MCP door.
OpensData(cred) == \E a \in Loaded.access : a.id = cred
OpensAnyDoor(door, cred) == OpensData(cred)
OpensDoor(door, cred) == \E a \in Loaded.access : a.id = cred /\ a.aud = door

\* What a request shows of itself: where it wants to go, its bearer (a pair, the
\* service key or nothing), the socket's peer, and whether a proxy forwarded it.
NoBearer == 0
ServiceKey == -1
Requests ==
  [path : {"setup", "data"} \cup Audience, cred : {ServiceKey, NoBearer} \cup 1 .. made["pair"],
   peer : {"tailnet", "loopback", "public"}, forwarded : BOOLEAN]

DirectLocal(r) == r.peer = "loopback" /\ ~r.forwarded

\* classifyIngress admits: setup and MCP paths, credentials, direct neighbours.
Admitted(r) ==
  \/ r.path # "data"
  \/ r.cred = ServiceKey \/ OpensData(r.cred)
  \/ r.peer = "tailnet" \/ DirectLocal(r)

\* isLoopbackServiceCall: the gateway's way in, at the bridge's own door only.
ServiceCall(r) == r.path = Bridge /\ r.cred = ServiceKey /\ DirectLocal(r)

Served(r) ==
  Admitted(r) /\ (r.path \in Audience => ServiceCall(r) \/ OpensDoor(r.path, r.cred))
-----------------------------------------------------------------------------
Ids(k) == 1 .. Limit[k]
Tokens == [id : Ids("pair"), grant : Ids("code") \cup {None}, aud : Audience, until : Nat]

\* The store never holds more approval requests than its cap.
TypeOK ==
  /\ now \in 0 .. MaxTime
  /\ disk.codes \subseteq [id : Ids("code"), aud : Audience, until : Nat]
  /\ disk.access \subseteq Tokens
  /\ disk.refresh \subseteq Tokens
  /\ disk.cookies \subseteq [id : Ids("cookie"), at : 0 .. now, by : Ids("tx")]
  /\ disk.asks \subseteq [id : Ids("ask"), tx : Ids("tx"),
                          status : {"pending", "approved", "denied"}, until : Nat]
  /\ Cardinality(disk.asks) <= MaxAsks
  /\ disk.dead \subseteq [id : Ids("pair"), at : Nat]
  /\ readable \in BOOLEAN
  /\ txs \subseteq [id : Ids("tx"), aud : Audience, until : Nat]
  /\ made \in [Kinds -> Nat] /\ \A k \in Kinds : made[k] <= Limit[k]
  /\ approved \subseteq Ids("tx") /\ refused \subseteq Ids("tx")
  /\ codes \subseteq [id : Ids("code"), tx : Ids("tx"), aud : Audience, human : Ids("tx")]
  /\ presented \subseteq Ids("code")

\* "The human approval behind every grant is a tailnet-only QR approval": a code
\* is minted only for a transaction a tailnet device approved, or for a browser
\* that got its cookie from one; and a transaction ends once, in one code or in
\* a refusal.
EveryGrantWasApproved ==
  /\ \A c \in codes : c.human \in approved
  /\ \A c \in codes : c.tx \notin refused
  /\ \A c, e \in codes : c.tx = e.tx => c = e

\* "Single-use: returns and deletes the code": once presented, with or without
\* proof, whatever fails or dies afterwards, a code never yields a pair again.
CodesAreSingleUse ==
  [][\A c \in codes :
       c.id \in presented =>
         \A p \in pairs' \ pairs : p.from # <<"code", c.id>>]_vars

\* The public way in (docs/auth-boundary.md): what a proxy forwarded to the
\* loopback socket is served, past the setup pages, only with a credential, and
\* at an MCP door only with a token of a grant whose human was asked for that
\* very resource, however often the token was rotated since.
PublicCallsNeedTheirCredential ==
  \A r \in Requests : r.forwarded /\ r.peer # "tailnet" /\ r.path # "setup" /\ Served(r) =>
    \/ r.path = "data" /\ r.cred = ServiceKey
    \/ \E a \in disk.access : a.id = r.cred /\ a.grant = None  \* granted before
    \/ \E p \in pairs, c \in codes :
         p.id = r.cred /\ p.grant = c.id /\ r.path \in {"data", c.aud}

LiveIn(d, pair) == \E a \in d.access : a.id = pair

\* "restarts don't revoke", "live until revoked": a pair a client was given
\* stays live until somebody rotates it, whatever else is written, fails or
\* dies, unless the store is written while it cannot be read.
GivenTokensStayLive ==
  [][\A p \in pairs :
       readable /\ LiveIn(disk, p.id) =>
         LiveIn(disk', p.id) \/ \E q \in pairs' : q.from = <<"pair", p.id>>]_vars

\* The server implements the rotating grants it promises.
Grants == INSTANCE RotatingGrant WITH
  Grant <- Ids("code") \cup {None},
  Pair <- Ids("pair"),
  live <- [g \in Ids("code") \cup {None} |->
             {r.id : r \in {x \in disk.refresh \cup disk.access : x.grant = g}}],
  spent <- 1 .. made["pair"]
ImplementsGrants == Grants!Spec
=============================================================================
