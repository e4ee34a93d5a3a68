-------------------------- MODULE OAuthServerProofs --------------------------
(***************************************************************************)
(* What the authorization server keeps, for any number of clients, of      *)
(* resources and of failures, and whatever the times to live are.          *)
(*                                                                         *)
(* The invariant has two halves that hardly know of each other: whose word *)
(* a transaction, a request, a cookie and a code go back to (Approvals),   *)
(* and which code and which pair a token goes back to (Lineage).            *)
(***************************************************************************)
EXTENDS OAuthServer, FiniteSetTheorems, TLAPS

Minted(k) == 1 .. made[k]
Held == disk.access \cup disk.refresh

Shaped(d) == d = [codes |-> d.codes, access |-> d.access, refresh |-> d.refresh,
                  cookies |-> d.cookies, asks |-> d.asks, dead |-> d.dead]

Numbers ==
  /\ now \in 0 .. MaxTime
  /\ made \in [Kinds -> Nat] /\ \A k \in Kinds : made[k] <= Limit[k]
  /\ Shaped(disk)

TokenType == [id : Minted("pair"), grant : Minted("code") \cup {None}, aud : Audience, until : Nat]

\* A code that is still there was not presented; a token goes back to a code
\* that was, and to the pair the client was given; a grant has one pair. Only
\* the pair of before can die by its date, and only while there is nothing else.
Lineage ==
  /\ disk.codes \subseteq [id : Minted("code"), aud : Audience, until : Nat]
  /\ disk.access \subseteq TokenType /\ disk.refresh \subseteq TokenType
  /\ presented \subseteq Minted("code")
  /\ \A p \in pairs : p.id \in Minted("pair")
  /\ \A c \in disk.codes : c.id \notin presented /\ \E e \in codes : e.id = c.id /\ e.aud = c.aud
  /\ \A x \in Held : x.grant # None =>
       /\ x.grant \in presented
       /\ \E p \in pairs, e \in codes : p.id = x.id /\ p.grant = e.id /\ e.id = x.grant /\ e.aud = x.aud
  /\ \A x, y \in Held : x.id = y.id <=> x.grant = y.grant
  /\ \A p \in pairs, x \in Held : x.id = p.id => x.until = Never
  /\ \/ \A x \in Held : x.until = Never
     \/ disk.codes = {} /\ \A x \in Held : x.grant = None

SoundCookies == [id : Minted("cookie"), at : 0 .. now, by : approved]
SoundAsks ==
  {a \in [id : Minted("ask"), tx : Minted("tx"),
          status : {"pending", "approved", "denied"}, until : Nat] :
     a.status = "approved" => a.tx \in approved}

\* Transactions that are open have not ended; what counts as approved was.
Approvals ==
  /\ txs \subseteq [id : Minted("tx"), aud : Audience, until : Nat]
  /\ \A t, u \in txs : t.id = u.id => t = u
  /\ \A t \in txs : t.id \notin refused /\ \A c \in codes : c.tx # t.id
  /\ approved \subseteq Minted("tx") /\ refused \subseteq Minted("tx")
  /\ codes \subseteq [id : Minted("code"), tx : Minted("tx"), aud : Audience, human : approved]
  /\ disk.cookies \subseteq SoundCookies /\ disk.asks \subseteq SoundAsks
  /\ EveryGrantWasApproved

OAuthInv == Numbers /\ Lineage /\ Approvals

LEMMA OAuthInitial == Init => OAuthInv
  <1> SUFFICES ASSUME Init PROVE OAuthInv OBVIOUS
  <1> USE OAuthAssumption
  <1>1. PICK aud \in Audience : disk = [Blank EXCEPT !.access = {Legacy(aud)}, !.refresh = {Legacy(aud)}]
    BY DEF Init
  <1>2. disk = [codes |-> {}, access |-> {Legacy(aud)}, refresh |-> {Legacy(aud)},
                cookies |-> {}, asks |-> {}, dead |-> {}]
    BY <1>1 DEF Blank
  <1>3. made \in [Kinds -> Nat] /\ made["pair"] = 1 /\ \A k \in Kinds : made[k] <= Limit[k]
    BY DEF Init, Kinds
  <1>4. Numbers
    <2>1. now \in 0 .. MaxTime BY DEF Init
    <2>2. Shaped(disk) BY <1>2 DEF Shaped
    <2> QED BY <1>3, <2>1, <2>2 DEF Numbers
  <1>5. Legacy(aud) \in TokenType
    BY <1>3 DEF Legacy, TokenType, None, Minted
  <1>6. Lineage
    <2>1. \A x \in Held : x = Legacy(aud) BY <1>2 DEF Held
    <2>2. Legacy(aud).grant = None BY DEF Legacy
    <2>3. disk.codes = {} /\ disk.access \subseteq TokenType /\ disk.refresh \subseteq TokenType
      BY <1>2, <1>5
    <2> QED BY <2>1, <2>2, <2>3 DEF Init, Lineage
  <1>7. Approvals BY <1>2 DEF Init, Approvals, EveryGrantWasApproved
  <1> QED BY <1>4, <1>6, <1>7 DEF OAuthInv

-----------------------------------------------------------------------------
(* What is read back of the store.                                          *)

LEMMA LoadedShape == Shaped(Loaded)
  BY DEF Shaped, Loaded, Pruned, Blank

\* Nothing is in it that was not in the file, but for the dates of tokens.
LEMMA LoadedIsOld ==
  ASSUME Lineage, Approvals
  PROVE  /\ Loaded.codes \subseteq disk.codes
         /\ Loaded.cookies \subseteq disk.cookies
         /\ Loaded.asks \subseteq disk.asks
         /\ Loaded.access \subseteq TokenType /\ Loaded.refresh \subseteq TokenType
         /\ \A x \in Loaded.access : x.until = Never /\
              \E y \in disk.access : y.id = x.id /\ y.grant = x.grant /\ y.aud = x.aud
         /\ \A x \in Loaded.refresh : x.until = Never /\
              \E y \in disk.refresh : y.id = x.id /\ y.grant = x.grant /\ y.aud = x.aud
  <1>1. ASSUME NEW rs, rs \subseteq TokenType, NEW x \in Undying(rs)
        PROVE  /\ x \in TokenType /\ x.until = Never
               /\ \E y \in rs : y.id = x.id /\ y.grant = x.grant /\ y.aud = x.aud
    <2>1. PICK y \in rs : x = [y EXCEPT !.until = Never] BY <1>1 DEF Undying
    <2>2. x = [id |-> y.id, grant |-> y.grant, aud |-> y.aud, until |-> Never]
      BY <1>1, <2>1 DEF TokenType
    <2> QED BY <1>1, <2>2 DEF TokenType, Never
  <1>2. CASE readable
    <2>1. /\ Loaded.codes = {c \in disk.codes : c.until > now}
          /\ Loaded.access = Undying(disk.access) /\ Loaded.refresh = Undying(disk.refresh)
          /\ Loaded.asks = {a \in disk.asks : a.until > now}
          /\ Loaded.cookies = {c \in disk.cookies : c.at + CookieTtl > now}
      BY <1>2 DEF Loaded, Pruned
    <2>2. disk.access \subseteq TokenType /\ disk.refresh \subseteq TokenType BY DEF Lineage
    <2> QED BY <1>1, <2>1, <2>2
  <1>3. CASE ~readable
    BY <1>3 DEF Loaded, Blank
  <1> QED BY <1>2, <1>3

\* A token that cannot die is read back, when the file can be read.
LEMMA LoadedKeepsUndying ==
  ASSUME Lineage, readable
  PROVE  /\ \A x \in disk.access : x.until = Never => x \in Loaded.access
         /\ \A x \in disk.refresh : x.until = Never => x \in Loaded.refresh
  <1>1. Loaded.access = Undying(disk.access) /\ Loaded.refresh = Undying(disk.refresh)
    BY DEF Loaded, Pruned
  <1>2. ASSUME NEW rs, rs \subseteq TokenType, NEW x \in rs, x.until = Never
        PROVE  x \in Undying(rs)
    <2>1. [x EXCEPT !.until = Never] = x BY <1>2 DEF TokenType
    <2> QED BY <1>2, <2>1 DEF Undying, TokenLive
  <1> QED BY <1>1, <1>2 DEF Lineage

-----------------------------------------------------------------------------
(* What a store function leaves alone, and how far the numbers go.          *)

SameTokens(d, e) ==
  Shaped(e) /\ e.codes = d.codes /\ e.access = d.access /\ e.refresh = d.refresh

\* The functions about requests and cookies do not touch codes or tokens.
LEMMA OpsKeepTokens ==
  ASSUME NEW d, Shaped(d), NEW tx
  PROVE  /\ SameTokens(d, d)
         /\ SameTokens(d, WithAsk(d, tx)) /\ WithAsk(d, tx).cookies = d.cookies
         /\ SameTokens(d, WithCookie(d, tx)) /\ WithCookie(d, tx).asks = d.asks
         /\ \A ask : SameTokens(d, Consumed(d, ask, tx)) /\ Consumed(d, ask, tx).cookies = d.cookies
         /\ \A a, status : SameTokens(d, Decided(d, a, status)) /\ Decided(d, a, status).cookies = d.cookies
  <1>1. \A S : LET e == [d EXCEPT !.asks = S] IN SameTokens(d, e) /\ e.cookies = d.cookies /\ e.asks = S
    BY DEF Shaped, SameTokens
  <1>2. \A S : LET e == [d EXCEPT !.cookies = S] IN SameTokens(d, e) /\ e.asks = d.asks /\ e.cookies = S
    BY DEF Shaped, SameTokens
  <1>3. SameTokens(d, d) BY DEF SameTokens
  <1> QED BY <1>1, <1>2, <1>3 DEF WithAsk, WithCookie, Consumed, Decided

LEMMA MadeGrows ==
  ASSUME Numbers, NEW ks, \A k \in ks : k \in Kinds /\ MayMake(k), Made(ks)
  PROVE  /\ made' \in [Kinds -> Nat] /\ \A k \in Kinds : made'[k] <= Limit[k] /\ made[k] <= made'[k]
         /\ \A k \in ks : made'[k] = Fresh(k)
  BY OAuthAssumption DEF Numbers, MayMake, Made, Fresh

-----------------------------------------------------------------------------
(* The lineage of tokens.                                                   *)

\* Codes and tokens only go, and a token only loses its date.
LEMMA TokensShrink ==
  ASSUME Lineage, Numbers,
         disk'.codes \subseteq disk.codes,
         \A x \in disk'.access : x \in TokenType /\
            \E y \in disk.access : y.id = x.id /\ y.grant = x.grant /\ y.aud = x.aud,
         \A x \in disk'.refresh : x \in TokenType /\
            \E y \in disk.refresh : y.id = x.id /\ y.grant = x.grant /\ y.aud = x.aud,
         Held' = Held \/ \A x \in Held' : x.until = Never,
         made' \in [Kinds -> Nat], \A k \in Kinds : made[k] <= made'[k],
         UNCHANGED <<pairs, codes>>,
         presented \subseteq presented', presented' \subseteq Minted("code"),
         \A c \in disk'.codes : c.id \notin presented'
  PROVE  Lineage'
  <1>1. Minted("code") \subseteq Minted("code")' /\ Minted("pair") \subseteq Minted("pair")'
    BY DEF Minted, Numbers, Kinds
  <1>2. disk'.codes \subseteq [id : Minted("code")', aud : Audience, until : Nat]
    BY <1>1 DEF Lineage
  <1>3. TokenType \subseteq TokenType' BY <1>1 DEF TokenType
  <1>4. disk'.access \subseteq TokenType' /\ disk'.refresh \subseteq TokenType' BY <1>3
  <1>5. \A x \in Held' : \E y \in Held : y.id = x.id /\ y.grant = x.grant /\ y.aud = x.aud
    BY DEF Held
  <1>6. \A c \in disk'.codes : \E e \in codes' : e.id = c.id /\ e.aud = c.aud BY DEF Lineage
  <1>7. \A x \in Held' : x.grant # None =>
          /\ x.grant \in presented'
          /\ \E p \in pairs', e \in codes' : p.id = x.id /\ p.grant = e.id /\ e.id = x.grant /\ e.aud = x.aud
    <2> SUFFICES ASSUME NEW x \in Held', x.grant # None
                 PROVE  /\ x.grant \in presented'
                        /\ \E p \in pairs', e \in codes' :
                             p.id = x.id /\ p.grant = e.id /\ e.id = x.grant /\ e.aud = x.aud
      OBVIOUS
    <2>1. PICK y \in Held : y.id = x.id /\ y.grant = x.grant /\ y.aud = x.aud BY <1>5
    <2> QED BY <2>1 DEF Lineage
  <1>8. \A x, y \in Held' : x.id = y.id <=> x.grant = y.grant
    BY <1>5 DEF Lineage
  <1>9. \A p \in pairs', x \in Held' : x.id = p.id => x.until = Never
    BY DEF Lineage
  <1>10. \/ \A x \in Held' : x.until = Never
         \/ disk'.codes = {} /\ \A x \in Held' : x.grant = None
    <2>1. CASE Held' = Held /\ ~ \A x \in Held : x.until = Never
      BY <2>1 DEF Lineage
    <2> QED BY <2>1
  <1>11. presented' \subseteq Minted("code")' BY <1>1
  <1>12. \A p \in pairs' : p.id \in Minted("pair")' BY <1>1 DEF Lineage
  <1> QED BY <1>2, <1>4, <1>6, <1>7, <1>8, <1>9, <1>10, <1>11, <1>12 DEF Lineage

\* So it is when the store is left alone, or read and written back, and nobody
\* presents a code that stays.
LEMMA TokensStay ==
  ASSUME OAuthInv, made' \in [Kinds -> Nat], \A k \in Kinds : made[k] <= made'[k],
         UNCHANGED <<pairs, codes>>, disk' = disk, UNCHANGED presented
  PROVE  Lineage'
  <1>1. Held' = Held BY DEF Held
  <1>2. disk'.access \subseteq TokenType /\ disk'.refresh \subseteq TokenType
    BY DEF OAuthInv, Lineage
  <1>3. presented' \subseteq Minted("code") /\ \A c \in disk'.codes : c.id \notin presented'
    BY DEF OAuthInv, Lineage
  <1> QED BY <1>1, <1>2, <1>3, TokensShrink DEF OAuthInv

LEMMA TokensRewritten ==
  ASSUME OAuthInv, made' \in [Kinds -> Nat], \A k \in Kinds : made[k] <= made'[k],
         UNCHANGED <<pairs, codes>>,
         disk'.codes \subseteq Loaded.codes,
         disk'.access = Loaded.access, disk'.refresh = Loaded.refresh,
         presented \subseteq presented', presented' \subseteq Minted("code"),
         \A c \in disk'.codes : c.id \notin presented'
  PROVE  Lineage'
  <1>1. Lineage /\ Numbers /\ Approvals BY DEF OAuthInv
  <1>2. \A x \in Held' : x.until = Never BY <1>1, LoadedIsOld DEF Held
  <1>3. disk'.codes \subseteq disk.codes BY <1>1, LoadedIsOld
  <1>4. \A x \in disk'.access : x \in TokenType /\
            \E y \in disk.access : y.id = x.id /\ y.grant = x.grant /\ y.aud = x.aud
    BY <1>1, LoadedIsOld
  <1>5. \A x \in disk'.refresh : x \in TokenType /\
            \E y \in disk.refresh : y.id = x.id /\ y.grant = x.grant /\ y.aud = x.aud
    BY <1>1, LoadedIsOld
  <1> QED BY <1>1, <1>2, <1>3, <1>4, <1>5, TokensShrink
-----------------------------------------------------------------------------
(* Approvals.                                                               *)

\* What is approved by a transaction or a cookie, a device approved.
LEMMA GrantsAreApproved ==
  ASSUME OAuthInv, NEW tx, NEW ask, NEW cookie, MayGrant(tx, ask, cookie)
  PROVE  /\ ~ValidCookie(cookie) => tx.id \in approved
         /\ ValidCookie(cookie) => (CHOOSE k \in Loaded.cookies : k.id = cookie).by \in approved
  <1>0. Loaded.asks \subseteq SoundAsks /\ Loaded.cookies \subseteq SoundCookies
    BY LoadedIsOld DEF OAuthInv, Approvals
  <1>1. CASE ValidCookie(cookie)
    <2>1. \E k \in Loaded.cookies : k.id = cookie BY <1>1 DEF ValidCookie
    <2>2. (CHOOSE k \in Loaded.cookies : k.id = cookie) \in Loaded.cookies BY <2>1
    <2> QED BY <1>0, <1>1, <2>2 DEF SoundCookies
  <1>2. CASE ~ValidCookie(cookie)
    <2> DEFINE a == CHOOSE x \in Loaded.asks : x.id = ask
    <2>1. Outcome(ask, tx.id) = "approved" BY <1>2 DEF MayGrant
    <2>2. \E x \in Loaded.asks : x.id = ask BY <2>1 DEF Outcome
    <2>3. a \in Loaded.asks BY <2>2
    <2>4. a.tx = tx.id /\ a.status = "approved" BY <2>1, <2>2 DEF Outcome
    <2> QED BY <1>0, <1>2, <2>3, <2>4 DEF SoundAsks
  <1> QED BY <1>1, <1>2

\* The numbers, the clock and the approvals only grow.
LEMMA SoundStaysSound ==
  ASSUME Numbers, made' \in [Kinds -> Nat], \A k \in Kinds : made[k] <= made'[k],
         now' \in Nat, now <= now', approved \subseteq approved'
  PROVE  /\ \A k \in Kinds : Minted(k) \subseteq Minted(k)'
         /\ SoundCookies \subseteq SoundCookies' /\ SoundAsks \subseteq SoundAsks'
  <1>1. \A k \in Kinds : Minted(k) \subseteq Minted(k)' BY DEF Minted, Numbers, Kinds
  <1>2. 0 .. now \subseteq 0 .. now' BY OAuthAssumption DEF Numbers
  <1>3. {"tx", "ask", "cookie", "code", "pair"} = Kinds BY DEF Kinds
  <1> QED BY <1>1, <1>2, <1>3 DEF SoundCookies, SoundAsks

\* Transactions go, a device approves one, and only sound requests and cookies
\* are written.
LEMMA ApprovalsKept ==
  ASSUME OAuthInv, made' \in [Kinds -> Nat], \A k \in Kinds : made[k] <= made'[k],
         now' \in Nat, now <= now',
         approved \subseteq approved', approved' \subseteq Minted("tx"),
         txs' \subseteq txs, UNCHANGED <<refused, codes>>,
         disk'.cookies \subseteq SoundCookies', disk'.asks \subseteq SoundAsks'
  PROVE  Approvals'
  <1>0. Numbers /\ Approvals BY DEF OAuthInv
  <1>1. \A k \in Kinds : Minted(k) \subseteq Minted(k)' BY <1>0, SoundStaysSound
  <1>2. Minted("tx") \subseteq Minted("tx")' /\ Minted("code") \subseteq Minted("code")'
    BY <1>1 DEF Kinds
  <1>3. txs' \subseteq [id : Minted("tx")', aud : Audience, until : Nat]
    BY <1>0, <1>2 DEF Approvals
  <1>4. codes' \subseteq [id : Minted("code")', tx : Minted("tx")', aud : Audience, human : approved']
    BY <1>0, <1>2 DEF Approvals
  <1>5. EveryGrantWasApproved' BY <1>0 DEF Approvals, EveryGrantWasApproved
  <1>6. approved' \subseteq Minted("tx")' /\ refused' \subseteq Minted("tx")'
    BY <1>0, <1>2 DEF Approvals
  <1> QED BY <1>0, <1>3, <1>4, <1>5, <1>6 DEF Approvals
-----------------------------------------------------------------------------
(* The steps, by what they do to the store.                                 *)

Grown ==
  /\ made' \in [Kinds -> Nat]
  /\ \A k \in Kinds : made'[k] <= Limit[k] /\ made[k] <= made'[k]

\* The store is left alone.
LEMMA Unwritten ==
  ASSUME OAuthInv, Grown, disk' = disk, now' \in 0 .. MaxTime, now <= now', txs' \subseteq txs,
         UNCHANGED <<pairs, codes, presented, approved, refused>>
  PROVE  OAuthInv'
  <1>0. Numbers /\ Approvals /\ now' \in Nat BY OAuthAssumption DEF OAuthInv
  <1>1. Numbers' BY <1>0 DEF Grown, Numbers
  <1>2. Lineage' BY TokensStay DEF Grown
  <1>3. approved' \subseteq Minted("tx") /\ approved \subseteq approved' BY <1>0 DEF Approvals
  <1>4. disk'.cookies \subseteq SoundCookies' /\ disk'.asks \subseteq SoundAsks'
    BY <1>0, SoundStaysSound DEF Grown, Approvals
  <1>5. Approvals' BY <1>0, <1>3, <1>4, ApprovalsKept DEF Grown
  <1> QED BY <1>1, <1>2, <1>5 DEF OAuthInv

\* It is read and written back, with other requests and cookies.
LEMMA Rewritten ==
  ASSUME OAuthInv, Grown, SameTokens(Loaded, disk'), UNCHANGED now, txs' \subseteq txs,
         UNCHANGED <<pairs, codes, presented, refused>>,
         approved \subseteq approved', approved' \subseteq Minted("tx"),
         disk'.cookies \subseteq SoundCookies', disk'.asks \subseteq SoundAsks'
  PROVE  OAuthInv'
  <1>0. Numbers /\ Lineage /\ Approvals /\ now \in Nat BY OAuthAssumption DEF OAuthInv, Numbers
  <1>1. Numbers' BY <1>0 DEF Grown, Numbers, SameTokens
  <1>2. Lineage'
    <2>1. presented' \subseteq Minted("code") BY <1>0 DEF Lineage
    <2>2. disk'.codes \subseteq disk.codes BY <1>0, LoadedIsOld DEF SameTokens
    <2>3. \A c \in disk'.codes : c.id \notin presented' BY <1>0, <2>2 DEF Lineage
    <2> QED BY <2>1, <2>3, TokensRewritten DEF Grown, SameTokens
  <1>3. Approvals' BY <1>0, ApprovalsKept DEF Grown
  <1> QED BY <1>1, <1>2, <1>3 DEF OAuthInv

\* A code is spent, and nothing comes of it.
LEMMA Spent ==
  ASSUME OAuthInv, NEW c \in Loaded.codes, disk' = ConsumedCode(Loaded, c, TRUE),
         presented' = presented \cup {c.id}, txs' \subseteq txs,
         UNCHANGED <<now, made, approved, refused, codes, pairs>>
  PROVE  OAuthInv'
  <1>0. Numbers /\ Lineage /\ Approvals /\ now \in Nat BY OAuthAssumption DEF OAuthInv, Numbers
  <1>1. /\ Shaped(disk') /\ disk'.codes = Without(Loaded.codes, c.id)
        /\ disk'.access = Loaded.access /\ disk'.refresh = Loaded.refresh
        /\ disk'.asks = Loaded.asks /\ disk'.cookies = Loaded.cookies
    BY LoadedShape DEF ConsumedCode, Shaped
  <1>2. Grown BY <1>0 DEF Grown, Numbers
  <1>3. Numbers' BY <1>0, <1>1 DEF Numbers
  <1>4. Loaded.codes \subseteq disk.codes BY <1>0, LoadedIsOld
  <1>5. Lineage'
    <2>1. presented' \subseteq Minted("code") BY <1>0, <1>4 DEF Lineage
    <2>2. \A e \in disk'.codes : e.id \notin presented' BY <1>0, <1>1, <1>4 DEF Lineage, Without
    <2>3. disk'.codes \subseteq Loaded.codes BY <1>1 DEF Without
    <2> QED BY <1>1, <1>2, <2>1, <2>2, <2>3, TokensRewritten DEF Grown
  <1>6. Approvals'
    <2>0. now' \in Nat /\ now <= now' BY <1>0
    <2>1. SoundCookies \subseteq SoundCookies' /\ SoundAsks \subseteq SoundAsks'
      BY <1>0, <1>2, <2>0, SoundStaysSound DEF Grown
    <2>2. disk'.cookies \subseteq SoundCookies' /\ disk'.asks \subseteq SoundAsks'
      BY <1>0, <1>1, <2>1, LoadedIsOld DEF Approvals
    <2>3. approved' \subseteq Minted("tx") BY <1>0 DEF Approvals
    <2> QED BY <1>2, <2>0, <2>2, <2>3, ApprovalsKept DEF Grown
  <1> QED BY <1>3, <1>5, <1>6 DEF OAuthInv

LEMMA NewAskIsSound ==
  ASSUME OAuthInv, Grown, now' = now, approved' = approved,
         NEW tx \in Minted("tx")', made'["ask"] = Fresh("ask")
  PROVE  WithAsk(Loaded, tx).asks \subseteq SoundAsks'
  <1>0. Numbers /\ Lineage /\ Approvals /\ now \in Nat /\ AskTtl \in Nat
    BY OAuthAssumption DEF OAuthInv, Numbers
  <1> DEFINE a == [id |-> Fresh("ask"), tx |-> tx, status |-> "pending", until |-> now + AskTtl]
  <1>1. Loaded.asks \subseteq SoundAsks'
    BY <1>0, LoadedIsOld, SoundStaysSound DEF Grown, Approvals
  <1>2. a.id \in Minted("ask")' BY <1>0 DEF Numbers, Minted, Fresh, Kinds
  <1>3. a \in SoundAsks' BY <1>0, <1>2 DEF SoundAsks
  <1>4. WithAsk(Loaded, tx).asks \subseteq Loaded.asks \cup {a}
    BY LoadedShape DEF WithAsk, WithAskUncapped, Shaped
  <1> QED BY <1>1, <1>3, <1>4
LEMMA AuthorizeKeeps ==
  ASSUME OAuthInv, NEW aud \in Audience, NEW cookie, Authorize(aud, cookie)
  PROVE  OAuthInv'
  <1> DEFINE tx == [id |-> Fresh("tx"), aud |-> aud, until |-> now + TxTtl]
  <1>0. Numbers /\ Lineage /\ Approvals /\ now \in Nat /\ TxTtl \in Nat
    BY OAuthAssumption DEF OAuthInv, Numbers
  <1>1. /\ txs' = LiveTxs \cup {tx} /\ MayMake("tx")
        /\ UNCHANGED <<now, approved, refused, codes, presented, pairs>>
        /\ \/ disk' = disk /\ Made({"tx"})
           \/ MayMake("ask") /\ Made({"tx", "ask"}) /\ disk' = WithAsk(Loaded, tx.id)
    BY DEF Authorize, Written, history
  <1>2. Grown /\ made'["tx"] = Fresh("tx")
    <2>1. CASE Made({"tx"}) BY <1>0, <1>1, <2>1, MadeGrows DEF Grown, Kinds
    <2>2. CASE MayMake("ask") /\ Made({"tx", "ask"}) BY <1>0, <1>1, <2>2, MadeGrows DEF Grown, Kinds
    <2> QED BY <1>1, <2>1, <2>2
  <1>3. tx.id \in Minted("tx")' /\ tx.id \notin Minted("tx")
    BY <1>0, <1>2 DEF Numbers, Minted, Fresh, Kinds
  <1>4. SoundCookies \subseteq SoundCookies' /\ SoundAsks \subseteq SoundAsks'
        /\ \A k \in Kinds : Minted(k) \subseteq Minted(k)'
    BY <1>0, <1>1, <1>2, SoundStaysSound DEF Grown
  <1>5. /\ disk' = disk \/ SameTokens(Loaded, disk')
        /\ disk'.cookies \subseteq SoundCookies' /\ disk'.asks \subseteq SoundAsks'
    <2>1. CASE disk' = disk BY <1>0, <1>4, <2>1 DEF Approvals
    <2>2. CASE disk' = WithAsk(Loaded, tx.id) /\ MayMake("ask") /\ Made({"tx", "ask"})
      <3>1. SameTokens(Loaded, disk') /\ disk'.cookies = Loaded.cookies
        BY <2>2, LoadedShape, OpsKeepTokens
      <3>2. made'["ask"] = Fresh("ask") BY <1>0, <1>1, <2>2, MadeGrows DEF Kinds
      <3>3. disk'.asks \subseteq SoundAsks' BY <1>1, <1>2, <1>3, <2>2, <3>2, NewAskIsSound
      <3> QED BY <1>0, <1>4, <3>1, <3>3, LoadedIsOld DEF Approvals
    <2> QED BY <1>1, <2>1, <2>2
  <1>6. Numbers' BY <1>0, <1>1, <1>2, <1>5 DEF Numbers, Grown, SameTokens
  <1>7. Lineage'
    <2>1. CASE disk' = disk BY <1>1, <1>2, <2>1, TokensStay DEF Grown
    <2>2. CASE SameTokens(Loaded, disk')
      <3>1. presented' \subseteq Minted("code") BY <1>0, <1>1 DEF Lineage
      <3>2. disk'.codes \subseteq disk.codes BY <1>0, <2>2, LoadedIsOld DEF SameTokens
      <3>3. \A c \in disk'.codes : c.id \notin presented' BY <1>0, <1>1, <3>2 DEF Lineage
      <3> QED BY <1>1, <1>2, <2>2, <3>1, <3>3, TokensRewritten DEF Grown, SameTokens
    <2> QED BY <1>5, <2>1, <2>2
  <1>8. Approvals'
    <2>1. Minted("tx") \subseteq Minted("tx")' /\ Minted("code") \subseteq Minted("code")'
      BY <1>4 DEF Kinds
    <2>2. txs' \subseteq txs \cup {tx} BY <1>1 DEF LiveTxs
    <2>3. \A t \in txs' : t \in txs \/ t = tx BY <2>2
    <2>4. tx \in [id : Minted("tx")', aud : Audience, until : Nat] BY <1>0, <1>3
    <2>5. txs' \subseteq [id : Minted("tx")', aud : Audience, until : Nat]
      BY <1>0, <2>1, <2>3, <2>4 DEF Approvals
    <2>6. \A t, u \in txs' : t.id = u.id => t = u
      BY <1>0, <1>3, <2>3 DEF Approvals
    <2>7. \A t \in txs' : t.id \notin refused' /\ \A c \in codes' : c.tx # t.id
      BY <1>0, <1>1, <1>3, <2>3 DEF Approvals
    <2>8. codes' \subseteq [id : Minted("code")', tx : Minted("tx")', aud : Audience, human : approved']
      BY <1>0, <1>1, <2>1 DEF Approvals
    <2>9. EveryGrantWasApproved' BY <1>0, <1>1 DEF Approvals, EveryGrantWasApproved
    <2>10. approved' \subseteq Minted("tx")' /\ refused' \subseteq Minted("tx")'
      BY <1>0, <1>1, <2>1 DEF Approvals
    <2> QED BY <1>5, <2>5, <2>6, <2>7, <2>8, <2>9, <2>10 DEF Approvals
  <1> QED BY <1>6, <1>7, <1>8 DEF OAuthInv

LEMMA DecideKeeps ==
  ASSUME OAuthInv, NEW ask, NEW status \in {"approved", "denied"}, Decide(ask, status)
  PROVE  OAuthInv'
  <1>0. Numbers /\ Lineage /\ Approvals /\ now \in Nat BY OAuthAssumption DEF OAuthInv, Numbers
  <1>1. PICK a \in Loaded.asks :
          /\ disk' = Decided(Loaded, a, status)
          /\ approved' = IF status = "approved" THEN approved \cup {a.tx} ELSE approved
    BY DEF Decide, Written
  <1>2. UNCHANGED <<now, txs, made, refused, codes, presented, pairs>> BY DEF Decide
  <1>3. Grown BY <1>0, <1>2 DEF Grown, Numbers
  <1>4. Loaded.asks \subseteq SoundAsks BY <1>0, LoadedIsOld DEF Approvals
  <1>5. approved \subseteq approved' /\ approved' \subseteq Minted("tx")
    BY <1>0, <1>1, <1>4 DEF Approvals, SoundAsks
  <1>6. SoundCookies \subseteq SoundCookies' /\ SoundAsks \subseteq SoundAsks'
    BY <1>0, <1>2, <1>3, <1>5, SoundStaysSound DEF Grown
  <1>7. SameTokens(Loaded, disk') /\ disk'.cookies = Loaded.cookies
    BY <1>1, LoadedShape, OpsKeepTokens
  <1>8. disk'.asks = Without(Loaded.asks, a.id) \cup {[a EXCEPT !.status = status]}
    BY <1>1, LoadedShape DEF Decided, Shaped
  <1>9. [a EXCEPT !.status = status] \in SoundAsks'
    <2>1. a \in [id : Minted("ask"), tx : Minted("tx"),
                 status : {"pending", "approved", "denied"}, until : Nat]
      BY <1>4 DEF SoundAsks
    <2>2. [a EXCEPT !.status = status] = [id |-> a.id, tx |-> a.tx, status |-> status, until |-> a.until]
      BY <2>1
    <2>3. status = "approved" => a.tx \in approved' BY <1>1
    <2>4. Minted("ask") = Minted("ask")' /\ Minted("tx") = Minted("tx")' BY <1>2 DEF Minted
    <2> QED BY <2>1, <2>2, <2>3, <2>4 DEF SoundAsks
  <1>10. disk'.cookies \subseteq SoundCookies' /\ disk'.asks \subseteq SoundAsks'
    BY <1>0, <1>4, <1>6, <1>7, <1>8, <1>9, LoadedIsOld DEF Approvals, Without
  <1> QED BY <1>2, <1>3, <1>5, <1>7, <1>10, Rewritten
\* What is written on the way to a code is sound.
LEMMA ConsumedIsSound ==
  ASSUME OAuthInv, NEW ask, NEW id
  PROVE  LET d == Consumed(Loaded, ask, id)
         IN  SameTokens(Loaded, d) /\ d.cookies \subseteq SoundCookies /\ d.asks \subseteq SoundAsks
  <1> DEFINE d == Consumed(Loaded, ask, id)
  <1>1. SameTokens(Loaded, d) /\ d.cookies = Loaded.cookies
    BY LoadedShape, OpsKeepTokens
  <1>2. d.asks \subseteq Loaded.asks BY LoadedShape DEF Consumed, Shaped, Without
  <1>3. Loaded.asks \subseteq SoundAsks /\ Loaded.cookies \subseteq SoundCookies
    BY LoadedIsOld DEF OAuthInv, Approvals
  <1> QED BY <1>1, <1>2, <1>3

LEMMA GrantStepsAreSound ==
  ASSUME OAuthInv, Grown, now' = now, approved' = approved,
         NEW tx, NEW ask, NEW cookie, MayGrant(tx, ask, cookie),
         ~ValidCookie(cookie) => made'["cookie"] = Fresh("cookie")
  PROVE  LET d == GrantSteps(tx, ask, cookie)[2]
         IN  /\ SameTokens(Loaded, d) /\ d.cookies \subseteq SoundCookies' /\ d.asks \subseteq SoundAsks'
             /\ GrantSteps(tx, ask, cookie)[3] = WithCode(d, tx)
  <1> DEFINE d1 == Consumed(Loaded, ask, tx.id)
             d == GrantSteps(tx, ask, cookie)[2]
  <1>0. Numbers /\ now \in Nat BY OAuthAssumption DEF OAuthInv, Numbers
  <1>1. d = IF ValidCookie(cookie) THEN d1 ELSE WithCookie(d1, tx.id)
    BY DEF GrantSteps
  <1>2. GrantSteps(tx, ask, cookie)[3] = WithCode(d, tx) BY DEF GrantSteps
  <1>3. SameTokens(Loaded, d1) /\ d1.cookies \subseteq SoundCookies /\ d1.asks \subseteq SoundAsks
    BY ConsumedIsSound
  <1>4. SoundCookies \subseteq SoundCookies' /\ SoundAsks \subseteq SoundAsks'
    BY <1>0, SoundStaysSound DEF Grown
  <1>5. CASE ValidCookie(cookie) BY <1>1, <1>2, <1>3, <1>4, <1>5
  <1>6. CASE ~ValidCookie(cookie)
    <2> DEFINE k == [id |-> Fresh("cookie"), at |-> now, by |-> tx.id]
    <2>1. d = [d1 EXCEPT !.cookies = @ \cup {k}] BY <1>1, <1>6 DEF WithCookie
    <2>2. tx.id \in approved BY <1>6, GrantsAreApproved
    <2>3. k.id \in Minted("cookie")' BY <1>0, <1>6 DEF Minted, Fresh, Numbers, Kinds
    <2>4. k \in SoundCookies' BY <1>0, <2>2, <2>3 DEF SoundCookies
    <2>5. Shaped(d1) BY <1>3 DEF SameTokens
    <2>6. d.cookies = d1.cookies \cup {k} /\ SameTokens(d1, d) /\ d.asks = d1.asks
      BY <2>1, <2>5 DEF Shaped, SameTokens
    <2>7. SameTokens(Loaded, d) BY <1>3, <2>6 DEF SameTokens
    <2> QED BY <1>2, <1>3, <1>4, <2>4, <2>6, <2>7
  <1> QED BY <1>5, <1>6

LEMMA DenyKeeps ==
  ASSUME OAuthInv, NEW tx \in LiveTxs, NEW ask, NEW cookie, NEW decision,
         Deny(tx, ask, cookie, decision)
  PROVE  OAuthInv'
  <1>0. Numbers /\ Lineage /\ Approvals /\ now \in Nat BY OAuthAssumption DEF OAuthInv, Numbers
  <1>1. /\ txs' = LiveTxs \ {tx} /\ refused' = refused \cup {tx.id}
        /\ UNCHANGED <<now, made, approved, codes, presented, pairs>>
        /\ disk' = disk \/ disk' = Consumed(Loaded, ask, tx.id)
    BY DEF Deny, Written, EndTx
  <1>2. Grown BY <1>0, <1>1 DEF Grown, Numbers
  <1>3. SoundCookies = SoundCookies' /\ SoundAsks = SoundAsks'
    BY <1>1 DEF SoundCookies, SoundAsks, Minted
  <1>4. /\ disk' = disk \/ SameTokens(Loaded, disk')
        /\ disk'.cookies \subseteq SoundCookies' /\ disk'.asks \subseteq SoundAsks'
    BY <1>0, <1>1, <1>3, ConsumedIsSound DEF Approvals
  <1>5. Numbers' BY <1>0, <1>1, <1>2, <1>4 DEF Numbers, Grown, SameTokens
  <1>6. Lineage'
    <2>1. CASE disk' = disk BY <1>1, <1>2, <2>1, TokensStay DEF Grown
    <2>2. CASE SameTokens(Loaded, disk')
      <3>1. presented' \subseteq Minted("code") BY <1>0, <1>1 DEF Lineage
      <3>2. disk'.codes \subseteq disk.codes BY <1>0, <2>2, LoadedIsOld DEF SameTokens
      <3>3. \A c \in disk'.codes : c.id \notin presented' BY <1>0, <1>1, <3>2 DEF Lineage
      <3> QED BY <1>1, <1>2, <2>2, <3>1, <3>3, TokensRewritten DEF Grown, SameTokens
    <2> QED BY <1>4, <2>1, <2>2
  <1>7. Approvals'
    <2>1. Minted("tx") = Minted("tx")' /\ Minted("code") = Minted("code")' BY <1>1 DEF Minted
    <2>2. txs' \subseteq txs /\ tx \in txs /\ tx \notin txs' BY <1>1 DEF LiveTxs
    <2>3. \A t \in txs' : t.id # tx.id BY <1>0, <2>2 DEF Approvals
    <2>4. \A t \in txs' : t.id \notin refused' /\ \A c \in codes' : c.tx # t.id
      BY <1>0, <1>1, <2>2, <2>3 DEF Approvals
    <2>5. \A c \in codes' : c.tx \notin refused'
      BY <1>0, <1>1, <2>2 DEF Approvals, EveryGrantWasApproved
    <2>6. EveryGrantWasApproved' BY <1>0, <1>1, <2>5 DEF Approvals, EveryGrantWasApproved
    <2>7. refused' \subseteq Minted("tx")' BY <1>0, <1>1, <2>1, <2>2 DEF Approvals
    <2>8. txs' \subseteq [id : Minted("tx")', aud : Audience, until : Nat]
      BY <1>0, <2>1, <2>2 DEF Approvals
    <2>9. codes' \subseteq [id : Minted("code")', tx : Minted("tx")', aud : Audience, human : approved']
      BY <1>0, <1>1, <2>1 DEF Approvals
    <2>10. \A t, u \in txs' : t.id = u.id => t = u BY <1>0, <2>2 DEF Approvals
    <2>11. approved' \subseteq Minted("tx")' BY <1>0, <1>1, <2>1 DEF Approvals
    <2> QED BY <1>4, <2>4, <2>6, <2>7, <2>8, <2>9, <2>10, <2>11 DEF Approvals
  <1> QED BY <1>5, <1>6, <1>7 DEF OAuthInv

LEMMA AskAgainKeeps ==
  ASSUME OAuthInv, NEW tx \in LiveTxs, NEW ask, NEW cookie, NEW decision,
         AskAgain(tx, ask, cookie, decision)
  PROVE  OAuthInv'
  <1>0. Numbers /\ Lineage /\ Approvals /\ now \in Nat BY OAuthAssumption DEF OAuthInv, Numbers
  <1>1. /\ txs' = LiveTxs /\ MayMake("ask") /\ Made({"ask"}) /\ disk' = WithAsk(Loaded, tx.id)
        /\ UNCHANGED <<now, approved, refused, codes, presented, pairs>>
    BY DEF AskAgain, Written, history
  <1>2. Grown /\ made'["ask"] = Fresh("ask")
    BY <1>0, <1>1, MadeGrows DEF Grown, Kinds
  <1>3. SoundCookies \subseteq SoundCookies' /\ \A k \in Kinds : Minted(k) \subseteq Minted(k)'
    BY <1>0, <1>1, <1>2, SoundStaysSound DEF Grown
  <1>4. tx.id \in Minted("tx")' BY <1>0, <1>3 DEF LiveTxs, Approvals, Kinds
  <1>5. disk'.asks \subseteq SoundAsks' BY <1>1, <1>2, <1>4, NewAskIsSound
  <1>6. SameTokens(Loaded, disk') /\ disk'.cookies = Loaded.cookies
    BY <1>1, LoadedShape, OpsKeepTokens
  <1>7. disk'.cookies \subseteq SoundCookies' BY <1>0, <1>3, <1>6, LoadedIsOld DEF Approvals
  <1>8. txs' \subseteq txs /\ approved' \subseteq Minted("tx")
    BY <1>0, <1>1 DEF LiveTxs, Approvals
  <1> QED BY <1>1, <1>2, <1>5, <1>6, <1>7, <1>8, Rewritten
\* The one code a transaction ends in: nobody has presented it, and its human is
\* one whose device approved.
LEMMA ApproveKeeps ==
  ASSUME OAuthInv, NEW tx \in LiveTxs, NEW ask, NEW cookie, NEW decision,
         Approve(tx, ask, cookie, decision)
  PROVE  OAuthInv'
  <1> DEFINE human == IF ValidCookie(cookie)
                      THEN (CHOOSE k \in Loaded.cookies : k.id = cookie).by ELSE tx.id
             grant == [id |-> Fresh("code"), tx |-> tx.id, aud |-> tx.aud, human |-> human]
             code == [id |-> Fresh("code"), aud |-> tx.aud, until |-> now + CodeTtl]
             d == GrantSteps(tx, ask, cookie)[2]
             ks == {"code"} \cup (IF ValidCookie(cookie) THEN {} ELSE {"cookie"})
  <1>0. Numbers /\ Lineage /\ Approvals /\ now \in Nat /\ CodeTtl \in Nat
    BY OAuthAssumption DEF OAuthInv, Numbers
  <1>1. /\ txs' = LiveTxs \ {tx} /\ codes' = codes \cup {grant}
        /\ UNCHANGED <<now, approved, refused, presented, pairs>>
        /\ MayGrant(tx, ask, cookie) /\ Made(ks) /\ \A k \in ks : k \in Kinds /\ MayMake(k)
        /\ disk' = GrantSteps(tx, ask, cookie)[3]
    BY DEF Approve, Written, EndTx, Kinds
  <1>2. Grown /\ \A k \in ks : made'[k] = Fresh(k)
    <2> HIDE DEF ks
    <2> QED BY <1>0, <1>1, MadeGrows DEF Grown
  <1>3. /\ SameTokens(Loaded, d) /\ d.cookies \subseteq SoundCookies' /\ d.asks \subseteq SoundAsks'
        /\ disk' = WithCode(d, tx)
    BY <1>1, <1>2, GrantStepsAreSound
  <1>4. /\ Shaped(disk') /\ disk'.codes = Loaded.codes \cup {code}
        /\ disk'.access = Loaded.access /\ disk'.refresh = Loaded.refresh
        /\ disk'.cookies \subseteq SoundCookies' /\ disk'.asks \subseteq SoundAsks'
    <2> HIDE DEF d
    <2> QED BY <1>3 DEF SameTokens, Shaped, WithCode
  <1>5. \A k \in Kinds : Minted(k) \subseteq Minted(k)'
    BY <1>0, <1>1, <1>2, SoundStaysSound DEF Grown
  <1>6. code.id \in Minted("code")' /\ code.id \notin Minted("code")
    <2>1. made'["code"] = made["code"] + 1 /\ made["code"] \in Nat BY <1>0, <1>2 DEF Fresh, Numbers, Kinds
    <2> QED BY <2>1 DEF Minted, Fresh
  <1>7. tx \in txs /\ tx.aud \in Audience /\ tx.id \in Minted("tx") BY <1>0 DEF LiveTxs, Approvals
  <1>8. human \in approved BY <1>1, GrantsAreApproved
  <1> HIDE DEF human, d, ks
  <1>9. Numbers' BY <1>0, <1>1, <1>2, <1>4 DEF Numbers, Grown
  <1>10. Lineage'
    <2>0. Loaded.codes \subseteq disk.codes BY <1>0, LoadedIsOld
    <2>1. \A x \in Held' : x.until = Never /\ \E y \in Held : y.id = x.id /\ y.grant = x.grant /\ y.aud = x.aud
      BY <1>0, <1>4, LoadedIsOld DEF Held
    <2>2. Minted("code") \subseteq Minted("code")' /\ Minted("pair") \subseteq Minted("pair")'
      BY <1>5 DEF Kinds
    <2>3. disk'.codes \subseteq [id : Minted("code")', aud : Audience, until : Nat]
      BY <1>0, <1>4, <1>6, <1>7, <2>0, <2>2 DEF Lineage
    <2>4. disk'.access \subseteq TokenType' /\ disk'.refresh \subseteq TokenType'
      BY <1>0, <1>4, <2>2, LoadedIsOld DEF TokenType
    <2>5. \A c \in disk'.codes : c.id \notin presented' /\ \E e \in codes' : e.id = c.id /\ e.aud = c.aud
      <3>1. \A c \in Loaded.codes : c.id \notin presented' /\ \E e \in codes' : e.id = c.id /\ e.aud = c.aud
        BY <1>0, <1>1, <2>0 DEF Lineage
      <3>2. code.id \notin presented' BY <1>0, <1>1, <1>6 DEF Lineage
      <3>3. grant \in codes' /\ grant.id = code.id /\ grant.aud = code.aud BY <1>1
      <3> HIDE DEF code, grant
      <3> QED BY <1>4, <3>1, <3>2, <3>3
    <2>6. \A x \in Held' : x.grant # None =>
            /\ x.grant \in presented'
            /\ \E p \in pairs', e \in codes' : p.id = x.id /\ p.grant = e.id /\ e.id = x.grant /\ e.aud = x.aud
      <3>1. codes \subseteq codes' /\ presented' = presented /\ pairs' = pairs BY <1>1
      <3> QED BY <1>0, <2>1, <3>1 DEF Lineage
    <2>7. \A x, y \in Held' : x.id = y.id <=> x.grant = y.grant BY <1>0, <2>1 DEF Lineage
    <2>8. presented' \subseteq Minted("code")' /\ \A p \in pairs' : p.id \in Minted("pair")'
      BY <1>0, <1>1, <2>2 DEF Lineage
    <2> QED BY <2>1, <2>3, <2>4, <2>5, <2>6, <2>7, <2>8 DEF Lineage
  <1>11. Approvals'
    <2>1. Minted("tx") \subseteq Minted("tx")' /\ Minted("code") \subseteq Minted("code")'
      BY <1>5 DEF Kinds
    <2>2. txs' \subseteq txs /\ tx \notin txs' BY <1>1 DEF LiveTxs
    <2>3. \A t \in txs' : t.id # tx.id BY <1>0, <1>7, <2>2 DEF Approvals
    <2>4. \A c \in codes' : c \in codes \/ c = grant BY <1>1
    <2>5. tx.id \notin refused /\ \A c \in codes : c.tx # tx.id BY <1>0, <1>7 DEF Approvals
    <2>6. \A t \in txs' : t.id \notin refused' /\ \A c \in codes' : c.tx # t.id
      BY <1>0, <1>1, <2>2, <2>3, <2>4 DEF Approvals
    <2>7. EveryGrantWasApproved'
      BY <1>0, <1>1, <1>8, <2>4, <2>5 DEF Approvals, EveryGrantWasApproved
    <2>8. codes' \subseteq [id : Minted("code")', tx : Minted("tx")', aud : Audience, human : approved']
      BY <1>0, <1>1, <1>6, <1>7, <1>8, <2>1, <2>4 DEF Approvals
    <2>9. txs' \subseteq [id : Minted("tx")', aud : Audience, until : Nat]
      BY <1>0, <2>1, <2>2 DEF Approvals
    <2>10. \A t, u \in txs' : t.id = u.id => t = u BY <1>0, <2>2 DEF Approvals
    <2>11. approved' \subseteq Minted("tx")' /\ refused' \subseteq Minted("tx")'
      BY <1>0, <1>1, <2>1 DEF Approvals
    <2> QED BY <1>4, <2>6, <2>7, <2>8, <2>9, <2>10, <2>11 DEF Approvals
  <1> QED BY <1>9, <1>10, <1>11 DEF OAuthInv

LEMMA ApproveFailsKeeps ==
  ASSUME OAuthInv, NEW tx \in LiveTxs, NEW ask, NEW cookie, NEW decision,
         ApproveFails(tx, ask, cookie, decision)
  PROVE  OAuthInv'
  <1>0. Numbers /\ Lineage /\ Approvals /\ now \in 0 .. MaxTime /\ now \in Nat
    BY OAuthAssumption DEF OAuthInv, Numbers
  <1>1. /\ UNCHANGED <<now, approved, refused, codes, presented, pairs>>
        /\ MayGrant(tx, ask, cookie) /\ txs' \subseteq txs
    BY DEF ApproveFails, history, LiveTxs, EndTx
  <1>2. approved \subseteq approved' /\ approved' \subseteq Minted("tx") BY <1>0, <1>1 DEF Approvals
  <1>3. CASE disk' = disk /\ made' = made
    <2>1. Grown BY <1>0, <1>3 DEF Grown, Numbers
    <2> QED BY <1>0, <1>1, <1>3, <2>1, Unwritten
  <1>4. CASE disk' = GrantSteps(tx, ask, cookie)[1] /\ made' = made
    <2>1. Grown BY <1>0, <1>4 DEF Grown, Numbers
    <2>2. disk' = Consumed(Loaded, ask, tx.id) BY <1>4 DEF GrantSteps
    <2>3. SoundCookies = SoundCookies' /\ SoundAsks = SoundAsks'
      BY <1>1, <1>4 DEF SoundCookies, SoundAsks, Minted
    <2>4. SameTokens(Loaded, disk') /\ disk'.cookies \subseteq SoundCookies' /\ disk'.asks \subseteq SoundAsks'
      BY <2>2, <2>3, ConsumedIsSound
    <2> QED BY <1>1, <1>2, <2>1, <2>4, Rewritten
  <1>5. CASE /\ disk' = GrantSteps(tx, ask, cookie)[2]
             /\ ValidCookie(cookie) \/ MayMake("cookie")
             /\ Made(IF ValidCookie(cookie) THEN {} ELSE {"cookie"})
    <2> DEFINE ks == IF ValidCookie(cookie) THEN {} ELSE {"cookie"}
    <2>1. Made(ks) /\ \A k \in ks : k \in Kinds /\ MayMake(k) BY <1>5 DEF Kinds
    <2>2. Grown /\ \A k \in ks : made'[k] = Fresh(k)
      <3> HIDE DEF ks
      <3> QED BY <1>0, <2>1, MadeGrows DEF Grown
    <2>3. SameTokens(Loaded, disk') /\ disk'.cookies \subseteq SoundCookies' /\ disk'.asks \subseteq SoundAsks'
      BY <1>1, <1>5, <2>2, GrantStepsAreSound
    <2> QED BY <1>1, <1>2, <2>2, <2>3, Rewritten
  <1> QED BY <1>3, <1>4, <1>5, Zenon DEF ApproveFails, Written
\* The code that is exchanged is spent in the same call, and names the grant.
LEMMA ExchangeKeeps ==
  ASSUME OAuthInv, NEW c \in Loaded.codes, NEW aud, NEW proof, Exchange(c, aud, proof)
  PROVE  OAuthInv'
  <1> DEFINE pair == NewPair(c.id, c.aud)
             given == [id |-> pair.id, aud |-> pair.aud, grant |-> c.id, from |-> <<"code", c.id>>]
  <1>0. Numbers /\ Lineage /\ Approvals /\ now \in Nat BY OAuthAssumption DEF OAuthInv, Numbers
  <1>1. /\ disk' = WithPair(ConsumedCode(Loaded, c, TRUE), pair)
        /\ pairs' = pairs \cup {given} /\ presented' = presented \cup {c.id}
        /\ MayMake("pair") /\ Made({"pair"})
        /\ UNCHANGED <<now, txs, approved, refused, codes>>
    BY DEF Exchange, Written
  <1>2. Grown /\ made'["pair"] = made["pair"] + 1
    BY <1>0, <1>1, MadeGrows DEF Grown, Kinds, Fresh
  <1>3. /\ Shaped(disk') /\ disk'.codes = Without(Loaded.codes, c.id)
        /\ disk'.access = Loaded.access \cup {pair} /\ disk'.refresh = Loaded.refresh \cup {pair}
        /\ disk'.asks = Loaded.asks /\ disk'.cookies = Loaded.cookies
    <2> HIDE DEF pair
    <2> QED BY <1>1, LoadedShape DEF WithPair, ConsumedCode, Shaped
  <1>4. SoundCookies \subseteq SoundCookies' /\ SoundAsks \subseteq SoundAsks'
        /\ \A k \in Kinds : Minted(k) \subseteq Minted(k)'
    BY <1>0, <1>1, <1>2, SoundStaysSound DEF Grown
  <1>5. Minted("code") \subseteq Minted("code")' /\ Minted("pair") \subseteq Minted("pair")'
    BY <1>4 DEF Kinds
  <1>6. c \in disk.codes /\ Loaded.codes \subseteq disk.codes BY <1>0, LoadedIsOld
  <1>7. c.id \in Minted("code") /\ c.id # None /\ c.aud \in Audience /\ c.id \notin presented
    BY <1>0, <1>6 DEF Lineage, Minted, None
  <1>8. PICK e \in codes : e.id = c.id /\ e.aud = c.aud BY <1>0, <1>6 DEF Lineage
  <1>9. /\ pair.id \in Minted("pair")' /\ pair.id \notin Minted("pair")
        /\ pair.grant = c.id /\ pair.aud = c.aud /\ pair.until = Never
        /\ pair = [id |-> pair.id, grant |-> c.id, aud |-> c.aud, until |-> 0]
    BY <1>0, <1>2 DEF NewPair, Minted, Fresh, Numbers, Kinds, Never
  <1>10. given.id = pair.id /\ given.grant = c.id OBVIOUS
  <1> HIDE DEF pair, given
  <1>11. Numbers' BY <1>0, <1>1, <1>2, <1>3 DEF Numbers, Grown
  <1>12. Lineage'
    <2>1. \A x \in Held' : x = pair \/
            (x.id \in Minted("pair") /\ x.until = Never
             /\ \E y \in Held : y.id = x.id /\ y.grant = x.grant /\ y.aud = x.aud)
      BY <1>0, <1>3, LoadedIsOld DEF Held, TokenType
    <2>2. \A y \in Held : y.grant # c.id BY <1>0, <1>7 DEF Lineage
    <2>3. disk'.codes \subseteq [id : Minted("code")', aud : Audience, until : Nat]
      BY <1>0, <1>3, <1>5, <1>6 DEF Lineage, Without
    <2>4. disk'.access \subseteq TokenType' /\ disk'.refresh \subseteq TokenType'
      <3>1. pair \in TokenType' BY <1>5, <1>7, <1>9 DEF TokenType
      <3>2. TokenType \subseteq TokenType' BY <1>5 DEF TokenType
      <3> QED BY <1>0, <1>3, <3>1, <3>2, LoadedIsOld
    <2>5. \A k \in disk'.codes : k.id \notin presented' /\ \E f \in codes' : f.id = k.id /\ f.aud = k.aud
      BY <1>0, <1>1, <1>3, <1>6 DEF Lineage, Without
    <2>6. \A x \in Held' : x.grant # None =>
            /\ x.grant \in presented'
            /\ \E p \in pairs', f \in codes' : p.id = x.id /\ p.grant = f.id /\ f.id = x.grant /\ f.aud = x.aud
      <3>1. pairs \subseteq pairs' /\ given \in pairs' /\ codes' = codes
            /\ presented \subseteq presented' /\ c.id \in presented' BY <1>1
      <3> QED BY <1>0, <1>8, <1>9, <1>10, <2>1, <3>1 DEF Lineage
    <2>7. \A x, y \in Held' : x.id = y.id <=> x.grant = y.grant
      BY <1>0, <1>9, <2>1, <2>2 DEF Lineage
    <2>8. \A p \in pairs', x \in Held' : x.id = p.id => x.until = Never
      BY <1>9, <2>1
    <2>9. \A x \in Held' : x.until = Never BY <1>9, <2>1
    <2>10. presented' \subseteq Minted("code")' BY <1>0, <1>1, <1>5, <1>7 DEF Lineage
    <2>11. \A p \in pairs' : p.id \in Minted("pair")' BY <1>0, <1>1, <1>5, <1>9, <1>10 DEF Lineage
    <2> QED BY <2>3, <2>4, <2>5, <2>6, <2>7, <2>8, <2>9, <2>10, <2>11 DEF Lineage
  <1>13. Approvals'
    <2>1. approved' \subseteq Minted("tx") /\ txs' = txs /\ now' = now BY <1>0, <1>1 DEF Approvals
    <2>2. disk'.cookies \subseteq SoundCookies' /\ disk'.asks \subseteq SoundAsks'
      BY <1>0, <1>3, <1>4, LoadedIsOld DEF Approvals
    <2>3. now' \in Nat /\ now <= now' /\ approved \subseteq approved' /\ txs' \subseteq txs
      BY <1>0, <1>1, <2>1
    <2> QED BY <1>1, <1>2, <2>1, <2>2, <2>3, ApprovalsKept DEF Grown
  <1> QED BY <1>11, <1>12, <1>13 DEF OAuthInv

\* The rotated pair goes, and its grant goes on with the new one.
LEMMA RotateKeeps ==
  ASSUME OAuthInv, NEW r \in Loaded.refresh, Rotate(r)
  PROVE  OAuthInv'
  <1> DEFINE pair == NewPair(r.grant, r.aud)
             given == [id |-> pair.id, aud |-> pair.aud, grant |-> r.grant, from |-> <<"pair", r.id>>]
  <1>0. Numbers /\ Lineage /\ Approvals /\ now \in Nat BY OAuthAssumption DEF OAuthInv, Numbers
  <1>1. /\ disk' = Rotated(Loaded, r, pair)
        /\ pairs' = pairs \cup {given}
        /\ MayMake("pair") /\ Made({"pair"})
        /\ UNCHANGED <<now, txs, approved, refused, codes, presented>>
    BY DEF Rotate, Written
  <1>2. Grown /\ made'["pair"] = made["pair"] + 1
    BY <1>0, <1>1, MadeGrows DEF Grown, Kinds, Fresh
  <1>3. /\ Shaped(disk') /\ disk'.codes = Loaded.codes
        /\ disk'.access = Without(Loaded.access, r.id) \cup {pair}
        /\ disk'.refresh = Without(Loaded.refresh, r.id) \cup {pair}
        /\ disk'.asks = Loaded.asks /\ disk'.cookies = Loaded.cookies
    <2> HIDE DEF pair
    <2> QED BY <1>1, LoadedShape DEF WithPair, Rotated, Shaped
  <1>4. SoundCookies \subseteq SoundCookies' /\ SoundAsks \subseteq SoundAsks'
        /\ \A k \in Kinds : Minted(k) \subseteq Minted(k)'
    BY <1>0, <1>1, <1>2, SoundStaysSound DEF Grown
  <1>5. Minted("code") \subseteq Minted("code")' /\ Minted("pair") \subseteq Minted("pair")'
    BY <1>4 DEF Kinds
  <1>6. Loaded.codes \subseteq disk.codes BY <1>0, LoadedIsOld
  <1>7. PICK q \in Held : q.id = r.id /\ q.grant = r.grant /\ q.aud = r.aud
    BY <1>0, LoadedIsOld DEF Held
  <1>8. r \in TokenType /\ r.until = Never BY <1>0, LoadedIsOld
  <1>9. /\ pair.id \in Minted("pair")' /\ pair.id \notin Minted("pair")
        /\ pair.grant = r.grant /\ pair.aud = r.aud /\ pair.until = Never
        /\ pair = [id |-> pair.id, grant |-> r.grant, aud |-> r.aud, until |-> 0]
    BY <1>0, <1>2 DEF NewPair, Minted, Fresh, Numbers, Kinds, Never
  <1>10. given.id = pair.id /\ given.grant = r.grant OBVIOUS
  <1> HIDE DEF pair, given
  <1>11. Numbers' BY <1>0, <1>1, <1>2, <1>3 DEF Numbers, Grown
  <1>12. Lineage'
    <2>1. \A x \in Held' : x = pair \/
            (x.id \in Minted("pair") /\ x.until = Never /\ x.id # r.id
             /\ \E y \in Held : y.id = x.id /\ y.grant = x.grant /\ y.aud = x.aud)
      BY <1>0, <1>3, LoadedIsOld DEF Held, TokenType, Without
    <2>2. \A y \in Held : y.grant = r.grant => y.id = r.id BY <1>0, <1>7 DEF Lineage
    <2>3. disk'.codes \subseteq [id : Minted("code")', aud : Audience, until : Nat]
      BY <1>0, <1>3, <1>5, <1>6 DEF Lineage
    <2>4. disk'.access \subseteq TokenType' /\ disk'.refresh \subseteq TokenType'
      <3>1. pair \in TokenType' BY <1>5, <1>8, <1>9 DEF TokenType
      <3>2. TokenType \subseteq TokenType' BY <1>5 DEF TokenType
      <3> QED BY <1>0, <1>3, <3>1, <3>2, LoadedIsOld DEF Without
    <2>5. \A k \in disk'.codes : k.id \notin presented' /\ \E f \in codes' : f.id = k.id /\ f.aud = k.aud
      BY <1>0, <1>1, <1>3, <1>6 DEF Lineage
    <2>6. \A x \in Held' : x.grant # None =>
            /\ x.grant \in presented'
            /\ \E p \in pairs', f \in codes' : p.id = x.id /\ p.grant = f.id /\ f.id = x.grant /\ f.aud = x.aud
      <3>1. pairs \subseteq pairs' /\ given \in pairs' /\ codes' = codes /\ presented' = presented
        BY <1>1
      <3> QED BY <1>0, <1>7, <1>9, <1>10, <2>1, <3>1 DEF Lineage
    <2>7. \A x, y \in Held' : x.id = y.id <=> x.grant = y.grant
      BY <1>0, <1>9, <2>1, <2>2 DEF Lineage
    <2>8. \A p \in pairs', x \in Held' : x.id = p.id => x.until = Never
      BY <1>9, <2>1
    <2>9. \A x \in Held' : x.until = Never BY <1>9, <2>1
    <2>10. presented' \subseteq Minted("code")' BY <1>0, <1>1, <1>5 DEF Lineage
    <2>11. \A p \in pairs' : p.id \in Minted("pair")' BY <1>0, <1>1, <1>5, <1>9, <1>10 DEF Lineage
    <2> QED BY <2>3, <2>4, <2>5, <2>6, <2>7, <2>8, <2>9, <2>10, <2>11 DEF Lineage
  <1>13. Approvals'
    <2>1. approved' \subseteq Minted("tx") /\ txs' = txs /\ now' = now BY <1>0, <1>1 DEF Approvals
    <2>2. disk'.cookies \subseteq SoundCookies' /\ disk'.asks \subseteq SoundAsks'
      BY <1>0, <1>3, <1>4, LoadedIsOld DEF Approvals
    <2>3. now' \in Nat /\ now <= now' /\ approved \subseteq approved' /\ txs' \subseteq txs
      BY <1>0, <1>1, <2>1
    <2> QED BY <1>1, <1>2, <2>1, <2>2, <2>3, ApprovalsKept DEF Grown
  <1> QED BY <1>11, <1>12, <1>13 DEF OAuthInv
-----------------------------------------------------------------------------
(* The invariant, and what follows from it.                                 *)

LEMMA RestartKeeps ==
  ASSUME OAuthInv, Restart
  PROVE  OAuthInv'
  <1>0. Numbers /\ Lineage /\ Approvals /\ now \in 0 .. MaxTime /\ now \in Nat
    BY OAuthAssumption DEF OAuthInv, Numbers
  <1>1. txs' \subseteq txs /\ UNCHANGED <<now, made, approved, refused, codes, pairs>>
    BY DEF Restart
  <1>2. Grown BY <1>0, <1>1 DEF Grown, Numbers
  <1>3. SoundCookies = SoundCookies' /\ SoundAsks = SoundAsks'
    BY <1>1 DEF SoundCookies, SoundAsks, Minted
  <1>4. approved \subseteq approved' /\ approved' \subseteq Minted("tx") BY <1>0, <1>1 DEF Approvals
  <1>5. CASE UNCHANGED <<disk, readable, presented>>
    BY <1>0, <1>1, <1>2, <1>5, Unwritten
  <1>6. ASSUME NEW tx, NEW ask, disk' = GrantSteps(tx, ask, None)[1], UNCHANGED presented
        PROVE  OAuthInv'
    <2>1. disk' = Consumed(Loaded, ask, tx.id) BY <1>6 DEF GrantSteps
    <2>2. SameTokens(Loaded, disk') /\ disk'.cookies \subseteq SoundCookies' /\ disk'.asks \subseteq SoundAsks'
      BY <1>3, <2>1, ConsumedIsSound
    <2> QED BY <1>1, <1>2, <1>4, <1>6, <2>2, Rewritten
  <1>7. ASSUME NEW c \in Loaded.codes, disk' = ConsumedCode(Loaded, c, TRUE),
               presented' = presented \cup {c.id}
        PROVE  OAuthInv'
    BY <1>1, <1>7, Spent
  <1> QED BY <1>5, <1>6, <1>7, Zenon DEF Restart, Written

LEMMA RegisterKeeps ==
  ASSUME OAuthInv, Register
  PROVE  OAuthInv'
  <1>0. Numbers /\ Lineage /\ Approvals BY DEF OAuthInv
  <1>1. disk' = Loaded /\ UNCHANGED <<now, txs, made, approved, refused, codes, presented, pairs>>
    BY DEF Register, Written, history
  <1>2. Grown BY <1>0, <1>1 DEF Grown, Numbers
  <1>3. SoundCookies = SoundCookies' /\ SoundAsks = SoundAsks'
    BY <1>1 DEF SoundCookies, SoundAsks, Minted
  <1>4. approved \subseteq approved' /\ approved' \subseteq Minted("tx") BY <1>0, <1>1 DEF Approvals
  <1>5. SameTokens(Loaded, disk') BY <1>1, LoadedShape DEF SameTokens
  <1>6. disk'.cookies \subseteq SoundCookies' /\ disk'.asks \subseteq SoundAsks'
    BY <1>0, <1>1, <1>3, LoadedIsOld DEF Approvals
  <1> QED BY <1>1, <1>2, <1>4, <1>5, <1>6, Rewritten

LEMMA OAuthStep == OAuthInv /\ [Next]_vars => OAuthInv'
  <1> SUFFICES ASSUME OAuthInv, [Next]_vars PROVE OAuthInv' OBVIOUS
  <1>0. Numbers /\ Lineage /\ Approvals /\ now \in 0 .. MaxTime /\ now \in Nat /\ MaxTime \in Nat
    BY OAuthAssumption DEF OAuthInv, Numbers
  <1>1. CASE made' = made /\ disk' = disk /\ now' \in 0 .. MaxTime /\ now <= now' /\ txs' \subseteq txs
             /\ UNCHANGED <<pairs, codes, presented, approved, refused>>
    <2>1. Grown BY <1>0, <1>1 DEF Grown, Numbers
    <2> QED BY <1>1, <2>1, Unwritten
  <1>2. CASE Tick BY <1>0, <1>1, <1>2 DEF Tick, history
  <1>3. CASE Restart BY <1>3, RestartKeeps
  <1>4. CASE Unreadable BY <1>0, <1>1, <1>4 DEF Unreadable, history
  <1>5. CASE Register BY <1>5, RegisterKeeps
  <1>6. ASSUME NEW aud \in Audience, NEW cookie, Authorize(aud, cookie) PROVE OAuthInv'
    BY <1>6, AuthorizeKeeps
  <1>7. ASSUME NEW ask, NEW status \in {"approved", "denied"}, Decide(ask, status) PROVE OAuthInv'
    BY <1>7, DecideKeeps
  <1>8. ASSUME NEW tx \in LiveTxs, NEW ask, NEW cookie, NEW decision, Submit(tx, ask, cookie, decision)
        PROVE  OAuthInv'
    <2>1. CASE Deny(tx, ask, cookie, decision) BY <2>1, DenyKeeps
    <2>2. CASE NotYet(tx, ask, cookie, decision) BY <1>0, <1>1, <2>2 DEF NotYet, LiveTxs, history
    <2>3. CASE AskAgain(tx, ask, cookie, decision) BY <2>3, AskAgainKeeps
    <2>4. CASE Approve(tx, ask, cookie, decision) BY <2>4, ApproveKeeps
    <2>5. CASE ApproveFails(tx, ask, cookie, decision) BY <2>5, ApproveFailsKeeps
    <2> QED BY <1>8, <2>1, <2>2, <2>3, <2>4, <2>5 DEF Submit
  <1>9. ASSUME NEW c \in Loaded.codes, NEW aud, NEW proof,
               Misuse(c, aud, proof) \/ Exchange(c, aud, proof) \/ ExchangeFails(c, aud, proof)
        PROVE  OAuthInv'
    <2>1. CASE Exchange(c, aud, proof) BY <2>1, ExchangeKeeps
    <2>2. CASE Misuse(c, aud, proof)
      <3>1. disk' = ConsumedCode(Loaded, c, TRUE) BY <2>2 DEF Misuse, Written, ConsumedCode
      <3> QED BY <2>2, <3>1, Spent DEF Misuse
    <2>3. CASE ExchangeFails(c, aud, proof)
      <3>1. disk' = ConsumedCode(Loaded, c, TRUE) BY <2>3 DEF ExchangeFails, Written
      <3> QED BY <2>3, <3>1, Spent DEF ExchangeFails
    <2> QED BY <1>9, <2>1, <2>2, <2>3
  <1>10. ASSUME NEW r \in Loaded.refresh, Rotate(r) PROVE OAuthInv' BY <1>10, RotateKeeps
  <1>11. CASE UNCHANGED vars BY <1>0, <1>1, <1>11 DEF vars
  <1> QED BY <1>2, <1>3, <1>4, <1>5, <1>6, <1>7, <1>8, <1>9, <1>10, <1>11 DEF Next

LEMMA OAuthInvariant == Spec => []OAuthInv
  BY OAuthInitial, OAuthStep, PTL DEF Spec

\* A code is minted only for a transaction a tailnet device approved, or for a
\* browser that got its cookie from one, and a transaction ends once, however
\* many browsers, requests and failures there are.
THEOREM GrantsAreHuman == Spec => []EveryGrantWasApproved
  <1>1. OAuthInv => EveryGrantWasApproved BY DEF OAuthInv, Approvals
  <1> QED BY <1>1, OAuthInvariant, PTL

\* What a proxy forwarded is served only with a token of a grant for that very
\* resource, or with the service key where nothing but the gate asks for it.
THEOREM PublicCallsAreCredentialed == Spec => []PublicCallsNeedTheirCredential
  <1>1. ASSUME OAuthInv PROVE PublicCallsNeedTheirCredential
    <2> SUFFICES ASSUME NEW r \in Requests,
                        r.forwarded, r.peer # "tailnet", r.path # "setup", Served(r),
                        ~(r.path = "data" /\ r.cred = ServiceKey)
                 PROVE  \/ \E a \in disk.access : a.id = r.cred /\ a.grant = None
                        \/ \E p \in pairs, c \in codes :
                             p.id = r.cred /\ p.grant = c.id /\ r.path \in {"data", c.aud}
      BY DEF PublicCallsNeedTheirCredential
    <2>0. Lineage /\ Approvals BY <1>1 DEF OAuthInv
    <2>1. ~DirectLocal(r) /\ ~ServiceCall(r) BY DEF DirectLocal, ServiceCall
    <2>2. r.path = "data" \/ r.path \in Audience BY DEF Requests
    <2>3. PICK x \in Loaded.access : x.id = r.cred /\ (r.path = "data" \/ x.aud = r.path)
      BY <2>1, <2>2 DEF Served, Admitted, OpensData, OpensDoor
    <2>4. PICK a \in disk.access : a.id = x.id /\ a.grant = x.grant /\ a.aud = x.aud
      BY <2>0, LoadedIsOld
    <2>5. CASE a.grant = None BY <2>3, <2>4, <2>5
    <2>6. CASE a.grant # None
      <3>1. PICK p \in pairs, e \in codes : p.id = a.id /\ p.grant = e.id /\ e.id = a.grant /\ e.aud = a.aud
        BY <2>0, <2>6 DEF Lineage, Held
      <3> QED BY <2>3, <2>4, <3>1
    <2> QED BY <2>5, <2>6
  <1> QED BY <1>1, OAuthInvariant, PTL
-----------------------------------------------------------------------------
(* What a step does to the tokens.                                          *)

TokensAsTheyAre ==
  disk'.access = disk.access /\ disk'.refresh = disk.refresh /\ UNCHANGED <<pairs, made["pair"]>>
TokensReadBack ==
  disk'.access = Loaded.access /\ disk'.refresh = Loaded.refresh /\ UNCHANGED <<pairs, made["pair"]>>

\* A step leaves the tokens, or writes back those that live, or exchanges a code,
\* or rotates a pair.
LEMMA StepOnTokens ==
  ASSUME OAuthInv, [Next]_vars
  PROVE  \/ TokensAsTheyAre \/ TokensReadBack
         \/ \E c \in Loaded.codes : \E aud, proof : Exchange(c, aud, proof)
         \/ \E r \in Loaded.refresh : Rotate(r)
  <1>0. made \in [Kinds -> Nat] BY DEF OAuthInv, Numbers
  <1>1. \A ks : "pair" \notin ks /\ Made(ks) => made'["pair"] = made["pair"]
    BY <1>0 DEF Made, Kinds
  <1>2. ASSUME disk' = disk \/ SameTokens(Loaded, disk'), pairs' = pairs, made'["pair"] = made["pair"]
        PROVE  TokensAsTheyAre \/ TokensReadBack
    BY <1>2 DEF SameTokens, TokensAsTheyAre, TokensReadBack
  <1>3. \A c, ok : LET d == ConsumedCode(Loaded, c, ok)
                   IN  d.access = Loaded.access /\ d.refresh = Loaded.refresh
    BY LoadedShape DEF ConsumedCode, Shaped
  <1>4. ASSUME NEW c, NEW ok, disk' = ConsumedCode(Loaded, c, ok), pairs' = pairs, made' = made
        PROVE  TokensReadBack
    BY <1>3, <1>4 DEF TokensReadBack
  <1>5. CASE Tick \/ Unreadable \/ UNCHANGED vars
    BY <1>5 DEF Tick, Unreadable, vars, history, TokensAsTheyAre
  <1>6. CASE Restart
    <2>1. pairs' = pairs /\ made' = made BY <1>6 DEF Restart
    <2>2. CASE disk' = disk BY <1>2, <2>1, <2>2
    <2>3. ASSUME NEW tx, NEW ask, disk' = GrantSteps(tx, ask, None)[1] PROVE TokensReadBack \/ TokensAsTheyAre
      <3>1. disk' = Consumed(Loaded, ask, tx.id) BY <2>3 DEF GrantSteps
      <3> QED BY <1>2, <2>1, <3>1, ConsumedIsSound
    <2>4. ASSUME NEW c, disk' = ConsumedCode(Loaded, c, TRUE) PROVE TokensReadBack
      BY <1>4, <2>1, <2>4
    <2> QED BY <1>6, <2>2, <2>3, <2>4, Zenon DEF Restart, Written
  <1>7. CASE Register
    BY <1>2, <1>7, LoadedShape DEF Register, Written, history, SameTokens
  <1>8. ASSUME NEW aud, NEW cookie, Authorize(aud, cookie) PROVE TokensAsTheyAre \/ TokensReadBack
    <2>1. /\ pairs' = pairs
          /\ Made({"tx"}) \/ Made({"tx", "ask"})
          /\ disk' = disk \/ disk' = WithAsk(Loaded, Fresh("tx"))
      BY <1>8 DEF Authorize, Written, history
    <2> QED BY <1>1, <1>2, <2>1, LoadedShape, OpsKeepTokens
  <1>9. ASSUME NEW ask, NEW status, Decide(ask, status) PROVE TokensAsTheyAre \/ TokensReadBack
    <2>1. PICK a : disk' = Decided(Loaded, a, status) BY <1>9 DEF Decide, Written
    <2>2. pairs' = pairs /\ made' = made BY <1>9 DEF Decide
    <2> QED BY <1>2, <2>1, <2>2, LoadedShape, OpsKeepTokens
  <1>10. ASSUME NEW tx, NEW ask, NEW cookie, NEW decision, Submit(tx, ask, cookie, decision)
         PROVE  TokensAsTheyAre \/ TokensReadBack
    <2>1. SameTokens(Loaded, GrantSteps(tx, ask, cookie)[1]) /\ SameTokens(Loaded, GrantSteps(tx, ask, cookie)[2])
      <3> DEFINE d1 == Consumed(Loaded, ask, tx.id)
      <3>1. SameTokens(Loaded, d1) BY ConsumedIsSound
      <3>2. SameTokens(d1, WithCookie(d1, tx.id)) BY <3>1, OpsKeepTokens DEF SameTokens
      <3>3. SameTokens(Loaded, WithCookie(d1, tx.id)) BY <3>1, <3>2 DEF SameTokens
      <3> QED BY <3>1, <3>3 DEF GrantSteps
    <2>2. CASE Deny(tx, ask, cookie, decision) \/ NotYet(tx, ask, cookie, decision)
      BY <1>2, <2>2, ConsumedIsSound DEF Deny, NotYet, Written, history
    <2>3. CASE AskAgain(tx, ask, cookie, decision)
      BY <1>1, <1>2, <2>3, LoadedShape, OpsKeepTokens DEF AskAgain, Written, history
    <2>4. CASE Approve(tx, ask, cookie, decision)
      <3>1. disk' = WithCode(GrantSteps(tx, ask, cookie)[2], tx) BY <2>4 DEF Approve, Written, GrantSteps
      <3>2. disk'.access = Loaded.access /\ disk'.refresh = Loaded.refresh
        BY <2>1, <3>1 DEF SameTokens, Shaped, WithCode
      <3>3. pairs' = pairs /\ made'["pair"] = made["pair"] BY <1>1, <2>4 DEF Approve
      <3> QED BY <3>2, <3>3 DEF TokensReadBack
    <2>5. CASE ApproveFails(tx, ask, cookie, decision)
      <3>1. /\ pairs' = pairs /\ made'["pair"] = made["pair"]
            /\ \/ disk' = disk
               \/ disk' = GrantSteps(tx, ask, cookie)[1] \/ disk' = GrantSteps(tx, ask, cookie)[2]
        BY <1>1, <2>5 DEF ApproveFails, Written, history
      <3> QED BY <1>2, <2>1, <3>1
    <2> QED BY <1>10, <2>2, <2>3, <2>4, <2>5 DEF Submit
  <1>11. ASSUME NEW c, NEW aud, NEW proof, Misuse(c, aud, proof) \/ ExchangeFails(c, aud, proof)
         PROVE  TokensReadBack
    BY <1>4, <1>11 DEF Misuse, ExchangeFails, Written
  <1> QED BY <1>5, <1>6, <1>7, <1>8, <1>9, <1>10, <1>11, Zenon DEF Next

\* Once presented, with or without proof, a code never yields a pair again.
THEOREM CodesAreSpentOnce == Spec => CodesAreSingleUse
  <1>1. OAuthInv /\ [Next]_vars =>
          [\A c \in codes : c.id \in presented =>
             \A p \in pairs' \ pairs : p.from # <<"code", c.id>>]_vars
    <2> SUFFICES ASSUME OAuthInv, [Next]_vars, NEW c \in codes, c.id \in presented,
                        NEW p \in pairs', p \notin pairs
                 PROVE  p.from # <<"code", c.id>>
      OBVIOUS
    <2>1. CASE pairs' = pairs BY <2>1
    <2>2. ASSUME NEW k \in Loaded.codes, NEW aud, NEW proof, Exchange(k, aud, proof)
          PROVE  p.from # <<"code", c.id>>
      <3>1. k \in disk.codes BY LoadedIsOld DEF OAuthInv
      <3>2. k.id # c.id BY <3>1 DEF OAuthInv, Lineage
      <3>3. p.from = <<"code", k.id>> BY <2>2 DEF Exchange
      <3> QED BY <3>2, <3>3
    <2>3. ASSUME NEW r \in Loaded.refresh, Rotate(r)
          PROVE  p.from # <<"code", c.id>>
      <3>1. p.from = <<"pair", r.id>> BY <2>3 DEF Rotate
      <3> QED BY <3>1
    <2> QED BY <2>1, <2>2, <2>3, StepOnTokens DEF TokensAsTheyAre, TokensReadBack
  <1> QED BY <1>1, OAuthInvariant, PTL DEF Spec, CodesAreSingleUse

\* A pair a client was given stays live until somebody rotates it, unless the
\* store is written while it cannot be read.
THEOREM TokensOutliveFailures == Spec => GivenTokensStayLive
  <1>1. OAuthInv /\ [Next]_vars =>
          [\A p \in pairs :
             readable /\ LiveIn(disk, p.id) =>
               LiveIn(disk', p.id) \/ \E q \in pairs' : q.from = <<"pair", p.id>>]_vars
    <2> SUFFICES ASSUME OAuthInv, [Next]_vars, NEW p \in pairs, readable, LiveIn(disk, p.id)
                 PROVE  LiveIn(disk', p.id) \/ \E q \in pairs' : q.from = <<"pair", p.id>>
      OBVIOUS
    <2>0. Lineage BY DEF OAuthInv
    <2>1. PICK a \in disk.access : a.id = p.id BY DEF LiveIn
    <2>2. a.until = Never BY <2>0, <2>1 DEF Lineage, Held
    <2>3. a \in Loaded.access BY <2>0, <2>2, LoadedKeepsUndying
    <2>4. CASE TokensAsTheyAre BY <2>1, <2>4 DEF TokensAsTheyAre, LiveIn
    <2>5. CASE TokensReadBack BY <2>1, <2>3, <2>5 DEF TokensReadBack, LiveIn
    <2>6. ASSUME NEW c \in Loaded.codes, NEW aud, NEW proof, Exchange(c, aud, proof)
          PROVE  LiveIn(disk', p.id)
      <3>1. disk' = WithPair(ConsumedCode(Loaded, c, TRUE), NewPair(c.id, c.aud))
        BY <2>6 DEF Exchange, Written
      <3>2. Loaded.access \subseteq disk'.access
        BY <3>1, LoadedShape DEF WithPair, ConsumedCode, Shaped
      <3> QED BY <2>1, <2>3, <3>2 DEF LiveIn
    <2>7. ASSUME NEW r \in Loaded.refresh, Rotate(r)
          PROVE  LiveIn(disk', p.id) \/ \E q \in pairs' : q.from = <<"pair", p.id>>
      <3>1. CASE r.id = p.id
        <4> DEFINE q == [id |-> NewPair(r.grant, r.aud).id, aud |-> NewPair(r.grant, r.aud).aud,
                         grant |-> r.grant, from |-> <<"pair", r.id>>]
        <4>1. q \in pairs' BY <2>7 DEF Rotate
        <4> QED BY <3>1, <4>1
      <3>2. CASE r.id # p.id
        <4>1. disk' = Rotated(Loaded, r, NewPair(r.grant, r.aud)) BY <2>7 DEF Rotate, Written
        <4>2. Without(Loaded.access, r.id) \subseteq disk'.access
          BY <4>1, LoadedShape DEF WithPair, Rotated, Shaped
        <4> QED BY <2>1, <2>3, <3>2, <4>2 DEF LiveIn, Without
      <3> QED BY <3>1, <3>2
    <2> QED BY <2>4, <2>5, <2>6, <2>7, StepOnTokens
  <1> QED BY <1>1, OAuthInvariant, PTL DEF Spec, GivenTokensStayLive
-----------------------------------------------------------------------------
(* The grants.                                                              *)

GrantIds == Ids("code") \cup {None}
HeldIn(d) == d.access \cup d.refresh
LiveOf(d) == [g \in GrantIds |-> {r.id : r \in {x \in d.refresh \cup d.access : x.grant = g}}]

\* The pairs that are live are those that are held.
LEMMA LiveIsHeld ==
  ASSUME NEW d
  PROVE  /\ \A g \in GrantIds : \A i : i \in LiveOf(d)[g] <=> \E x \in HeldIn(d) : x.id = i /\ x.grant = g
         /\ LiveOf(d) = [g \in GrantIds |-> LiveOf(d)[g]]
  BY DEF LiveOf, HeldIn

LEMMA LiveIs ==
  ASSUME NEW d, NEW g \in GrantIds, NEW S,
         \A i : i \in S <=> \E x \in HeldIn(d) : x.id = i /\ x.grant = g
  PROVE  LiveOf(d)[g] = S
  <1>1. \A i : i \in LiveOf(d)[g] <=> i \in S BY LiveIsHeld
  <1> HIDE DEF LiveOf
  <1> QED BY <1>1

LEMMA LiveIsTyped ==
  ASSUME NEW d, NEW n \in Nat, n <= Limit["pair"],
         \A x \in HeldIn(d) : x.id \in 1 .. n /\ x.grant \in GrantIds
  PROVE  /\ LiveOf(d) \in [GrantIds -> SUBSET Ids("pair")]
         /\ \A g \in GrantIds : LiveOf(d)[g] \subseteq 1 .. n
  <1>1. 1 .. n \subseteq Ids("pair") BY OAuthAssumption DEF Ids, Kinds
  <1>2. \A g \in GrantIds : LiveOf(d)[g] \subseteq 1 .. n BY LiveIsHeld
  <1> QED BY <1>1, <1>2, LiveIsHeld

HeldTyped ==
  /\ made["pair"] \in Nat /\ made["pair"] <= Limit["pair"]
  /\ \A x \in HeldIn(disk) : x.id \in 1 .. made["pair"] /\ x.grant \in GrantIds

LEMMA HeldIsTyped == OAuthInv => HeldTyped
  BY OAuthAssumption
     DEF OAuthInv, Numbers, Lineage, TokenType, HeldTyped, HeldIn, GrantIds, Ids, Minted, Kinds

\* Lineage that only go are pairs that lapse.
LEMMA LapseStep ==
  ASSUME OAuthInv, OAuthInv',
         \A x \in HeldIn(disk') : \E y \in HeldIn(disk) : y.id = x.id /\ y.grant = x.grant,
         made'["pair"] = made["pair"]
  PROVE  Grants!Lapse
  <1>1. /\ made'["pair"] \in Nat /\ made'["pair"] <= Limit["pair"]
        /\ \A x \in HeldIn(disk') : x.id \in 1 .. made'["pair"] /\ x.grant \in GrantIds
    <2>1. HeldTyped' BY HeldIsTyped, PTL
    <2> QED BY <2>1 DEF HeldTyped, HeldIn
  <1>2. LiveOf(disk') \in [GrantIds -> SUBSET Ids("pair")] BY <1>1, LiveIsTyped
  <1>3. \A g \in GrantIds : LiveOf(disk')[g] \subseteq LiveOf(disk)[g] BY LiveIsHeld
  <1> QED BY <1>2, <1>3 DEF Grants!Lapse, LiveOf, GrantIds

\* A new pair of a grant that takes the place of what was live of it.
LEMMA NewPairStep ==
  ASSUME OAuthInv, OAuthInv', NEW g \in GrantIds, made'["pair"] = made["pair"] + 1,
         LiveOf(disk')[g] = {made["pair"] + 1},
         \A h \in GrantIds : h # g => LiveOf(disk')[h] = LiveOf(disk)[h]
  PROVE  Grants!Begin(g) \/ Grants!Rotate(g)
  <1> DEFINE p == made["pair"] + 1
  <1>1. made["pair"] \in Nat /\ made'["pair"] <= Limit["pair"]
    <2>1. HeldTyped BY HeldIsTyped
    <2>2. HeldTyped' BY HeldIsTyped, PTL
    <2> QED BY <2>1, <2>2 DEF HeldTyped
  <1>2. p \in Ids("pair") /\ p \notin 1 .. made["pair"] BY <1>1, OAuthAssumption DEF Ids, Kinds
  <1>3. 1 .. made'["pair"] = 1 .. made["pair"] \cup {p} BY <1>1
  <1>4. LiveOf(disk') = [LiveOf(disk) EXCEPT ![g] = {p}] BY LiveIsHeld
  <1> QED BY <1>2, <1>3, <1>4 DEF Grants!Begin, Grants!Rotate, LiveOf, GrantIds
\* Where all that is held has no date, and the file can be read, what is held is
\* what is read back.
LEMMA UndyingIsReadBack ==
  ASSUME OAuthInv, readable, \A x \in Held : x.until = Never
  PROVE  \A i, g : (\E x \in HeldIn(Loaded) : x.id = i /\ x.grant = g)
                     <=> \E x \in HeldIn(disk) : x.id = i /\ x.grant = g
  <1>0. Lineage /\ Approvals BY DEF OAuthInv
  <1>1. \A x \in HeldIn(disk) : x \in HeldIn(Loaded) BY <1>0, LoadedKeepsUndying DEF Held, HeldIn
  <1>2. \A x \in HeldIn(Loaded) : \E y \in HeldIn(disk) : y.id = x.id /\ y.grant = x.grant
    BY <1>0, LoadedIsOld DEF HeldIn
  <1> QED BY <1>1, <1>2

\* The grants implement what they promise: a code starts one, a grant has one
\* live pair at a time, whoever rotates it gets the next one, and a pair that
\* died stays dead.
THEOREM GrantsRotate == Spec => ImplementsGrants
  <1>1. Init => Grants!Init
    <2> SUFFICES ASSUME Init PROVE Grants!Init OBVIOUS
    <2>1. OAuthInv BY OAuthInitial
    <2>2. HeldTyped BY <2>1, HeldIsTyped
    <2>3. LiveOf(disk) \in [GrantIds -> SUBSET Ids("pair")]
      BY <2>2, LiveIsTyped DEF HeldTyped
    <2>4. PICK aud \in Audience : disk = [Blank EXCEPT !.access = {Legacy(aud)}, !.refresh = {Legacy(aud)}]
      BY DEF Init
    <2>5. HeldIn(disk) = {Legacy(aud)} BY <2>4 DEF Blank, HeldIn
    <2>6. \A g \in GrantIds : LiveOf(disk)[g] = IF g = None THEN {1} ELSE {}
      <3>1. \A i, g : (\E x \in HeldIn(disk) : x.id = i /\ x.grant = g) <=> i = 1 /\ g = None
        BY <2>5 DEF Legacy
      <3> QED BY <3>1, LiveIs
    <2>7. None \in GrantIds BY DEF GrantIds
    <2>8. 1 .. made["pair"] = UNION {LiveOf(disk)[g] : g \in GrantIds}
      <3>1. made["pair"] = 1 BY DEF Init, Kinds
      <3>2. 1 .. made["pair"] = {1} BY <3>1
      <3> QED BY <2>6, <2>7, <3>2
    <2> QED BY <2>3, <2>6, <2>8 DEF Grants!Init, LiveOf, GrantIds
  <1>2. OAuthInv /\ OAuthInv' /\ [Next]_vars => Grants!Next
    <2> SUFFICES ASSUME OAuthInv, OAuthInv', [Next]_vars PROVE Grants!Next OBVIOUS
    <2>1. CASE TokensAsTheyAre
      BY <2>1, LapseStep DEF TokensAsTheyAre, HeldIn, Grants!Next
    <2>2. CASE TokensReadBack
      <3>1. Lineage /\ Approvals BY DEF OAuthInv
      <3>2. \A x \in HeldIn(disk') : \E y \in HeldIn(disk) : y.id = x.id /\ y.grant = x.grant
        BY <2>2, <3>1, LoadedIsOld DEF TokensReadBack, HeldIn
      <3> QED BY <2>2, <3>2, LapseStep DEF TokensReadBack, Grants!Next
    <2>3. ASSUME NEW c \in Loaded.codes, NEW aud, NEW proof, Exchange(c, aud, proof)
          PROVE  Grants!Next
      <3> DEFINE pair == NewPair(c.id, c.aud)
      <3>1. Lineage /\ Approvals /\ Numbers BY DEF OAuthInv
      <3>2. readable BY DEF Loaded, Blank
      <3>3. c \in disk.codes BY <3>1, LoadedIsOld
      <3>4. \A x \in Held : x.until = Never BY <3>1, <3>3 DEF Lineage
      <3>5. c.id \in Minted("code") /\ c.id # None /\ \A x \in HeldIn(disk) : x.grant # c.id
        BY <3>1, <3>3 DEF Lineage, Held, HeldIn, Minted, None
      <3>6. HeldIn(disk') = HeldIn(Loaded) \cup {pair}
        <4> HIDE DEF pair
        <4>1. disk' = WithPair(ConsumedCode(Loaded, c, TRUE), pair)
          BY <2>3 DEF Exchange, Written, pair
        <4> QED BY <4>1, LoadedShape DEF WithPair, ConsumedCode, Shaped, HeldIn
      <3>7. pair.id = made["pair"] + 1 /\ pair.grant = c.id BY DEF NewPair, Fresh
      <3>8. made'["pair"] = made["pair"] + 1
        BY <2>3, <3>1 DEF Exchange, Made, Numbers, Kinds
      <3>9. c.id \in GrantIds BY <3>1, <3>5, OAuthAssumption DEF GrantIds, Numbers, Minted, Ids, Kinds
      <3> HIDE DEF pair
      <3>10. \A i, g : (\E x \in HeldIn(disk') : x.id = i /\ x.grant = g)
                <=> (i = pair.id /\ g = c.id) \/ \E x \in HeldIn(disk) : x.id = i /\ x.grant = g
        BY <3>2, <3>4, <3>6, <3>7, UndyingIsReadBack
      <3>11. LiveOf(disk')[c.id] = {made["pair"] + 1}
        <4>1. \A i : i \in {made["pair"] + 1} <=> \E x \in HeldIn(disk') : x.id = i /\ x.grant = c.id
          BY <3>5, <3>7, <3>10
        <4> QED BY <3>9, <4>1, LiveIs
      <3>12. ASSUME NEW h \in GrantIds, h # c.id PROVE LiveOf(disk')[h] = LiveOf(disk)[h]
        <4>1. \A i : i \in LiveOf(disk)[h] <=> \E x \in HeldIn(disk') : x.id = i /\ x.grant = h
          BY <3>10, <3>12, LiveIsHeld
        <4> QED BY <4>1, LiveIs
      <3> QED BY <3>8, <3>9, <3>11, <3>12, NewPairStep DEF Grants!Next, GrantIds
    <2>4. ASSUME NEW r \in Loaded.refresh, Rotate(r)
          PROVE  Grants!Next
      <3> DEFINE pair == NewPair(r.grant, r.aud)
      <3>1. Lineage /\ Approvals /\ Numbers BY DEF OAuthInv
      <3>2. readable BY DEF Loaded, Blank
      <3>3. PICK q \in HeldIn(disk) : q.id = r.id /\ q.grant = r.grant BY <3>1, LoadedIsOld DEF HeldIn
      <3>4. HeldTyped BY HeldIsTyped
      <3>5. r.grant \in GrantIds BY <3>3, <3>4 DEF HeldTyped
      <3>6. HeldIn(disk') = Without(HeldIn(Loaded), r.id) \cup {pair}
        <4> HIDE DEF pair
        <4>1. disk' = Rotated(Loaded, r, pair)
          BY <2>4 DEF Rotate, Written, pair
        <4> QED BY <4>1, LoadedShape DEF WithPair, Rotated, Shaped, HeldIn, Without
      <3>7. pair.id = made["pair"] + 1 /\ pair.grant = r.grant BY DEF NewPair, Fresh
      <3>8. made'["pair"] = made["pair"] + 1
        BY <2>4, <3>1 DEF Rotate, Made, Numbers, Kinds
      <3> HIDE DEF pair
      <3>9. \A x, y \in HeldIn(disk) : x.id = y.id <=> x.grant = y.grant
        BY <3>1 DEF Lineage, Held, HeldIn
      <3>10. \A x \in HeldIn(Loaded) : \E y \in HeldIn(disk) : y.id = x.id /\ y.grant = x.grant
        BY <3>1, LoadedIsOld DEF HeldIn
      <3>11. \A x \in HeldIn(Loaded) : x.id = r.id <=> x.grant = r.grant
        BY <3>3, <3>9, <3>10
      <3>12. LiveOf(disk')[r.grant] = {made["pair"] + 1}
        <4>1. \A i : i \in {made["pair"] + 1} <=> \E x \in HeldIn(disk') : x.id = i /\ x.grant = r.grant
          BY <3>6, <3>7, <3>11 DEF Without
        <4> QED BY <3>5, <4>1, LiveIs
      <3>13. ASSUME NEW h \in GrantIds, h # r.grant PROVE LiveOf(disk')[h] = LiveOf(disk)[h]
        <4>1. CASE \A x \in Held : x.until = Never
          <5>1. \A i : (\E x \in HeldIn(disk') : x.id = i /\ x.grant = h)
                         <=> \E x \in HeldIn(Loaded) : x.id = i /\ x.grant = h
            BY <3>6, <3>7, <3>11, <3>13 DEF Without
          <5>2. \A i : i \in LiveOf(disk)[h] <=> \E x \in HeldIn(disk') : x.id = i /\ x.grant = h
            BY <3>2, <4>1, <5>1, UndyingIsReadBack, LiveIsHeld
          <5> QED BY <5>2, LiveIs
        <4>2. CASE \A x \in Held : x.grant = None
          <5>1. \A x \in HeldIn(disk) : x.grant = r.grant BY <3>3, <4>2 DEF Held, HeldIn
          <5>2. \A x \in HeldIn(disk') : x.grant = r.grant
            BY <3>6, <3>7, <3>10, <5>1 DEF Without
          <5>3. \A i : i \notin LiveOf(disk)[h] BY <3>13, <5>1, LiveIsHeld
          <5>4. \A i : i \notin LiveOf(disk')[h] BY <3>13, <5>2, LiveIsHeld
          <5> HIDE DEF LiveOf
          <5> QED BY <5>3, <5>4
        <4> QED BY <3>1, <4>1, <4>2 DEF Lineage
      <3> QED BY <3>5, <3>8, <3>12, <3>13, NewPairStep DEF Grants!Next, GrantIds
    <2> QED BY <2>1, <2>2, <2>3, <2>4, StepOnTokens
  <1> QED BY <1>1, <1>2, OAuthInvariant, PTL DEF Spec, ImplementsGrants, Grants!Spec
-----------------------------------------------------------------------------
(* The store stays within its types and its cap.                            *)

LEMMA NatMin ==
  ASSUME NEW T \in SUBSET Nat, T # {}
  PROVE  \E x \in T : \A y \in T : x <= y
  <1>1. \E x \in T : \A y \in T : ~(<<y, x>> \in OpToRel(<, Nat))
    BY NatLessThanWellFounded, WFMin
  <1>2. \A x, y \in Nat : y < x => <<y, x>> \in OpToRel(<, Nat)
    BY DEF OpToRel
  <1>3. \E x \in T : \A y \in T : ~(y < x)
    BY <1>1, <1>2, Zenon
  <1> QED BY <1>3

\* Of things with numbers of their own, those that have fewer than n above them
\* are at most n.
LEMMA NewestAreFew ==
  ASSUME NEW S, IsFiniteSet(S), \A a \in S : a.id \in Nat,
         \A a, b \in S : a.id = b.id => a = b, NEW n \in Nat \ {0}
  PROVE  Cardinality({a \in S : Cardinality({b \in S : b.id > a.id}) < n}) <= n
  <1> DEFINE Few == {a \in S : Cardinality({b \in S : b.id > a.id}) < n}
             numbers == {a.id : a \in Few}
  <1> SUFFICES Cardinality(Few) <= n OBVIOUS
  <1>1. IsFiniteSet(Few) BY FS_Subset
  <1>2. CASE Few = {}
    <2> HIDE DEF Few
    <2> QED BY <1>2, FS_EmptySet
  <1>3. CASE Few # {}
    <2>1. numbers \in SUBSET Nat /\ numbers # {} BY <1>3
    <2>2. PICK i \in numbers : \A j \in numbers : i <= j
      <3> HIDE DEF numbers
      <3> QED BY <2>1, NatMin
    <2>3. PICK a \in Few : a.id = i OBVIOUS
    <2> DEFINE Above == {b \in S : b.id > a.id}
    <2>4. \A b \in Few \ {a} : b \in Above
      <3> SUFFICES ASSUME NEW b \in Few, b # a PROVE b \in Above OBVIOUS
      <3>1. b.id \in numbers /\ a \in S /\ b \in S OBVIOUS
      <3>2. a.id <= b.id /\ a.id # b.id BY <2>2, <2>3, <3>1
      <3> QED BY <3>1, <3>2
    <2>5. Few \ {a} \subseteq Above /\ Above \subseteq S BY <2>4
    <2>6. Cardinality(Above) < n /\ IsFiniteSet(Above) /\ Cardinality(Above) \in Nat
      BY <2>3, <2>5, FS_Subset, FS_CardinalityType
    <2> HIDE DEF Above, Few, numbers
    <2>7. Cardinality(Few \ {a}) <= Cardinality(Above) BY <2>5, <2>6, FS_Subset
    <2>8. Cardinality(Few \ {a}) = Cardinality(Few) - 1 /\ Cardinality(Few) \in Nat
      BY <1>1, <2>3, FS_RemoveElement, FS_CardinalityType
    <2> QED BY <2>6, <2>7, <2>8
  <1> QED BY <1>2, <1>3

Bounded ==
  /\ IsFiniteSet(disk.asks) /\ \A a, b \in disk.asks : a.id = b.id => a = b
  /\ Cardinality(disk.asks) <= MaxAsks
  /\ disk.dead \subseteq [id : Minted("pair"), at : Nat]
  /\ readable \in BOOLEAN
\* A cap on requests is kept by whatever goes, is decided or is added.
LEMMA AsksStayFew ==
  ASSUME OAuthInv, Bounded
  PROVE  /\ IsFiniteSet(Loaded.asks) /\ \A a, b \in Loaded.asks : a.id = b.id => a = b
         /\ Cardinality(Loaded.asks) <= MaxAsks
  <1>1. Loaded.asks \subseteq disk.asks BY LoadedIsOld DEF OAuthInv
  <1>2. IsFiniteSet(disk.asks) /\ Cardinality(disk.asks) \in Nat /\ Cardinality(disk.asks) <= MaxAsks
    BY FS_CardinalityType DEF Bounded
  <1>3. IsFiniteSet(Loaded.asks) /\ Cardinality(Loaded.asks) <= Cardinality(disk.asks)
        /\ Cardinality(Loaded.asks) \in Nat
    BY <1>1, <1>2, FS_Subset, FS_CardinalityType
  <1>4. MaxAsks \in Nat BY OAuthAssumption
  <1> QED BY <1>1, <1>2, <1>3, <1>4 DEF Bounded

LEMMA SmallerAsks ==
  ASSUME NEW S, IsFiniteSet(S), \A a, b \in S : a.id = b.id => a = b, Cardinality(S) <= MaxAsks,
         NEW T \in SUBSET S
  PROVE  IsFiniteSet(T) /\ (\A a, b \in T : a.id = b.id => a = b) /\ Cardinality(T) <= MaxAsks
  <1>1. MaxAsks \in Nat BY OAuthAssumption
  <1>2. Cardinality(S) \in Nat /\ IsFiniteSet(T) /\ Cardinality(T) <= Cardinality(S) /\ Cardinality(T) \in Nat
    BY FS_Subset, FS_CardinalityType
  <1> QED BY <1>1, <1>2
OnlyFewerAsks == Loaded.dead = disk'.dead /\ disk'.asks \subseteq Loaded.asks

\* A step leaves the requests, or writes back fewer, or adds one to what is read
\* back, or decides one.
LEMMA StepOnAsks ==
  ASSUME OAuthInv, [Next]_vars
  PROVE  /\ \/ disk' = disk \/ OnlyFewerAsks
            \/ \E tx : MayMake("ask") /\ disk' = WithAsk(Loaded, tx)
            \/ \E a \in Loaded.asks : \E status : disk' = Decided(Loaded, a, status)
         /\ readable' \in {readable, TRUE, ~readable}
  <1>1. ASSUME NEW ask, NEW id, NEW tx, NEW x
        PROVE  LET d == Consumed(Loaded, ask, id)
                   e == WithCookie(d, tx)
               IN  /\ d.dead = Loaded.dead /\ d.asks \subseteq Loaded.asks
                   /\ e.dead = Loaded.dead /\ e.asks \subseteq Loaded.asks
                   /\ WithCode(d, x).dead = Loaded.dead /\ WithCode(d, x).asks \subseteq Loaded.asks
                   /\ WithCode(e, x).dead = Loaded.dead /\ WithCode(e, x).asks \subseteq Loaded.asks
    <2> DEFINE d == Consumed(Loaded, ask, id)
               e == WithCookie(d, tx)
    <2>1. Shaped(d) /\ d.dead = Loaded.dead /\ d.asks \subseteq Loaded.asks
      BY LoadedShape DEF Consumed, Shaped, Without
    <2> HIDE DEF d
    <2>2. Shaped(e) /\ e.dead = Loaded.dead /\ e.asks \subseteq Loaded.asks
      BY <2>1 DEF WithCookie, Shaped
    <2> HIDE DEF e
    <2>3. /\ WithCode(d, x).dead = Loaded.dead /\ WithCode(d, x).asks \subseteq Loaded.asks
          /\ WithCode(e, x).dead = Loaded.dead /\ WithCode(e, x).asks \subseteq Loaded.asks
      BY <2>1, <2>2 DEF WithCode, Shaped
    <2> QED BY <2>1, <2>2, <2>3 DEF d, e
  <1>2. ASSUME NEW tx, NEW ask, NEW cookie, NEW d,
               \/ d = GrantSteps(tx, ask, cookie)[1] \/ d = GrantSteps(tx, ask, cookie)[2]
               \/ d = GrantSteps(tx, ask, cookie)[3]
        PROVE  d.dead = Loaded.dead /\ d.asks \subseteq Loaded.asks
    <2> DEFINE d1 == Consumed(Loaded, ask, tx.id)
               d2 == IF ValidCookie(cookie) THEN d1 ELSE WithCookie(d1, tx.id)
    <2>1. d = d1 \/ d = d2 \/ d = WithCode(d2, tx) BY <1>2 DEF GrantSteps
    <2> HIDE DEF d1
    <2>2. d = d1 \/ d = WithCookie(d1, tx.id) \/ d = WithCode(d1, tx) \/ d = WithCode(WithCookie(d1, tx.id), tx)
      BY <2>1
    <2>3. /\ d1.dead = Loaded.dead /\ d1.asks \subseteq Loaded.asks
          /\ WithCookie(d1, tx.id).dead = Loaded.dead /\ WithCookie(d1, tx.id).asks \subseteq Loaded.asks
          /\ WithCode(d1, tx).dead = Loaded.dead /\ WithCode(d1, tx).asks \subseteq Loaded.asks
          /\ WithCode(WithCookie(d1, tx.id), tx).dead = Loaded.dead
          /\ WithCode(WithCookie(d1, tx.id), tx).asks \subseteq Loaded.asks
      BY <1>1, Zenon DEF d1
    <2> QED BY <2>2, <2>3
  <1>3. \A c, ok, pair : LET d == ConsumedCode(Loaded, c, ok)
                             e == WithPair(d, pair)
                         IN  d.dead = Loaded.dead /\ d.asks = Loaded.asks /\ e.dead = Loaded.dead /\ e.asks = Loaded.asks
    BY LoadedShape DEF ConsumedCode, WithPair, Shaped
  <1>4. \A r, pair : LET d == Rotated(Loaded, r, pair) IN d.dead = Loaded.dead /\ d.asks = Loaded.asks
    BY LoadedShape DEF Rotated, WithPair, Shaped
  <1> DEFINE Goal == /\ \/ disk' = disk \/ OnlyFewerAsks
                        \/ \E tx : MayMake("ask") /\ disk' = WithAsk(Loaded, tx)
                        \/ \E a \in Loaded.asks : \E status : disk' = Decided(Loaded, a, status)
                     /\ readable' \in {readable, TRUE, ~readable}
  <1> SUFFICES Goal OBVIOUS
  <1>5. CASE Tick \/ Unreadable \/ UNCHANGED vars BY <1>5 DEF Tick, Unreadable, vars
  <1>6. CASE Restart
    <2>1. CASE UNCHANGED <<disk, readable, presented>> BY <2>1
    <2>2. ASSUME NEW tx, NEW a, Written(GrantSteps(tx, a.id, None)[1]) PROVE Goal
      BY <1>2, <2>2 DEF Written, OnlyFewerAsks
    <2>3. ASSUME NEW c, Written(ConsumedCode(Loaded, c, TRUE)) PROVE Goal
      BY <1>3, <2>3 DEF Written, OnlyFewerAsks
    <2> HIDE DEF Goal
    <2> QED BY <1>6, <2>1, <2>2, <2>3, Zenon DEF Restart
  <1>7. CASE Register BY <1>7 DEF Register, Written, OnlyFewerAsks
  <1>8. ASSUME NEW aud, NEW cookie, Authorize(aud, cookie) PROVE Goal
    BY <1>8 DEF Authorize, Written
  <1>9. ASSUME NEW ask, NEW status, Decide(ask, status) PROVE Goal
    BY <1>9 DEF Decide, Written
  <1>10. ASSUME NEW tx, NEW ask, NEW cookie, NEW decision, Submit(tx, ask, cookie, decision) PROVE Goal
    <2>1. CASE Deny(tx, ask, cookie, decision) \/ NotYet(tx, ask, cookie, decision)
      <3> DEFINE d == Consumed(Loaded, ask, tx.id)
      <3>1. d.dead = Loaded.dead /\ d.asks \subseteq Loaded.asks BY <1>1
      <3>2. UNCHANGED <<disk, readable>> \/ Written(d) BY <2>1 DEF Deny, NotYet
      <3> HIDE DEF d
      <3> QED BY <3>1, <3>2 DEF Written, OnlyFewerAsks
    <2>2. CASE AskAgain(tx, ask, cookie, decision) BY <2>2 DEF AskAgain, Written
    <2>3. CASE Approve(tx, ask, cookie, decision)
      BY <1>2, <2>3 DEF Approve, Written, OnlyFewerAsks
    <2>4. CASE ApproveFails(tx, ask, cookie, decision)
      <3>1. \/ UNCHANGED <<disk, readable>>
            \/ Written(GrantSteps(tx, ask, cookie)[1]) \/ Written(GrantSteps(tx, ask, cookie)[2])
        BY <2>4 DEF ApproveFails
      <3> QED BY <1>2, <3>1 DEF Written, OnlyFewerAsks
    <2> QED BY <1>10, <2>1, <2>2, <2>3, <2>4 DEF Submit
  <1>11. ASSUME NEW c, NEW aud, NEW proof,
                Misuse(c, aud, proof) \/ Exchange(c, aud, proof) \/ ExchangeFails(c, aud, proof)
         PROVE  Goal
    BY <1>3, <1>11 DEF Misuse, Exchange, ExchangeFails, Written, OnlyFewerAsks
  <1>12. ASSUME NEW r, Rotate(r) PROVE Goal
    BY <1>4, <1>12 DEF Rotate, Written, OnlyFewerAsks
  <1> HIDE DEF Goal
  <1> QED BY <1>5, <1>6, <1>7, <1>8, <1>9, <1>10, <1>11, <1>12, Zenon DEF Next

LEMMA BoundedStep == OAuthInv /\ Bounded /\ [Next]_vars => Bounded'
  <1> SUFFICES ASSUME OAuthInv, Bounded, [Next]_vars PROVE Bounded' OBVIOUS
  <1>0. Numbers /\ Lineage /\ MaxAsks \in Nat \ {0} BY OAuthAssumption DEF OAuthInv
  <1> DEFINE Fits(S) == /\ IsFiniteSet(S) /\ \A a, b \in S : a.id = b.id => a = b
                        /\ Cardinality(S) <= MaxAsks
  <1>1. Fits(disk.asks) BY DEF Bounded
  <1>2. Fits(Loaded.asks) BY AsksStayFew
  <1>3. ASSUME NEW T, T \subseteq Loaded.asks PROVE Fits(T)
    BY <1>2, <1>3, SmallerAsks
  <1>4. Loaded.asks \subseteq [id : Minted("ask"), tx : Minted("tx"),
                               status : {"pending", "approved", "denied"}, until : Nat]
    BY LoadedIsOld DEF OAuthInv, Approvals, SoundAsks
  <1>5. Minted("pair") \subseteq Minted("pair")'
    <2>1. made["pair"] \in Nat /\ (made'["pair"] = made["pair"] \/ made'["pair"] = made["pair"] + 1)
      BY <1>0, StepOnTokens
         DEF TokensAsTheyAre, TokensReadBack, Exchange, Rotate, Made, Numbers, Kinds
    <2> QED BY <2>1 DEF Minted
  <1>6. Loaded.dead \subseteq [id : Minted("pair"), at : Nat]
    <2>1. CASE readable
      <3>1. Loaded.dead \subseteq disk.dead \cup {[id |-> a.id, at |-> a.until] : a \in disk.access}
        BY <2>1 DEF Loaded, Pruned, Tombstones
      <3>2. \A a \in disk.access : [id |-> a.id, at |-> a.until] \in [id : Minted("pair"), at : Nat]
        BY <1>0 DEF Lineage, TokenType
      <3> QED BY <3>1, <3>2 DEF Bounded
    <2>2. CASE ~readable BY <2>2 DEF Loaded, Blank
    <2> QED BY <2>1, <2>2
  <1>7. ASSUME disk' = disk PROVE Fits(disk'.asks) /\ disk'.dead \subseteq [id : Minted("pair"), at : Nat]
    BY <1>1, <1>7 DEF Bounded
  <1>8. ASSUME OnlyFewerAsks PROVE Fits(disk'.asks) /\ disk'.dead \subseteq [id : Minted("pair"), at : Nat]
    BY <1>3, <1>6, <1>8 DEF OnlyFewerAsks
  <1>9. ASSUME NEW tx, disk' = WithAsk(Loaded, tx)
        PROVE  Fits(disk'.asks) /\ disk'.dead \subseteq [id : Minted("pair"), at : Nat]
    <2> DEFINE new == Loaded.asks \cup {[id |-> Fresh("ask"), tx |-> tx, status |-> "pending", until |-> now + AskTtl]}
    <2>1. disk'.asks = {a \in new : Cardinality({b \in new : b.id > a.id}) < MaxAsks}
          /\ disk'.dead = Loaded.dead
      BY <1>9, LoadedShape DEF WithAsk, WithAskUncapped, Shaped
    <2>2. IsFiniteSet(new)
      <3>1. IsFiniteSet(Loaded.asks) BY <1>2
      <3> QED BY <3>1, FS_AddElement
    <2>3. \A a \in Loaded.asks : a.id \in 1 .. made["ask"] BY <1>4 DEF Minted
    <2>4. made["ask"] \in Nat /\ Fresh("ask") = made["ask"] + 1 BY <1>0 DEF Fresh, Numbers, Kinds
    <2>5. \A a \in new : a.id \in Nat BY <2>3, <2>4
    <2>6. \A a, b \in new : a.id = b.id => a = b BY <1>2, <2>3, <2>4
    <2> HIDE DEF new
    <2>7. Cardinality({a \in new : Cardinality({b \in new : b.id > a.id}) < MaxAsks}) <= MaxAsks
      BY <1>0, <2>2, <2>5, <2>6, NewestAreFew
    <2>8. disk'.asks \subseteq new /\ IsFiniteSet(disk'.asks) BY <2>1, <2>2, FS_Subset
    <2> QED BY <1>6, <2>1, <2>6, <2>7, <2>8
  <1>10. ASSUME NEW a \in Loaded.asks, NEW status, disk' = Decided(Loaded, a, status)
         PROVE  Fits(disk'.asks) /\ disk'.dead \subseteq [id : Minted("pair"), at : Nat]
    <2> DEFINE decided == [a EXCEPT !.status = status]
               others == Loaded.asks \ {a}
    <2>1. disk'.asks = Without(Loaded.asks, a.id) \cup {decided} /\ disk'.dead = Loaded.dead
      BY <1>10, LoadedShape DEF Decided, Shaped
    <2>2. Without(Loaded.asks, a.id) = others BY <1>2 DEF Without
    <2>3. decided.id = a.id BY <1>4
    <2>4. \A b \in others : b.id # a.id BY <1>2
    <2> HIDE DEF decided
    <2>5. IsFiniteSet(others) /\ Cardinality(others) = Cardinality(Loaded.asks) - 1
          /\ Cardinality(Loaded.asks) \in Nat
      BY <1>2, FS_RemoveElement, FS_CardinalityType
    <2>6. decided \notin others BY <2>3, <2>4
    <2>7. IsFiniteSet(disk'.asks) /\ Cardinality(disk'.asks) = Cardinality(others) + 1
      <3> HIDE DEF others
      <3> QED BY <2>1, <2>2, <2>5, <2>6, FS_AddElement
    <2>8. \A b, c \in disk'.asks : b.id = c.id => b = c
      BY <1>2, <2>1, <2>2, <2>3, <2>4
    <2>9. Cardinality(disk'.asks) = Cardinality(Loaded.asks) BY <2>5, <2>7
    <2> QED BY <1>2, <1>6, <2>1, <2>7, <2>8, <2>9
  <1>11. Fits(disk'.asks) /\ disk'.dead \subseteq [id : Minted("pair"), at : Nat]
    <2> HIDE DEF Fits
    <2> QED BY <1>7, <1>8, <1>9, <1>10, StepOnAsks
  <1>12. readable' \in BOOLEAN BY StepOnAsks DEF Bounded
  <1> QED BY <1>5, <1>11, <1>12 DEF Bounded

\* The store stays within its types, and never holds more requests for approval
\* than its cap.
THEOREM StoreIsTyped == Spec => []TypeOK
  <1>1. Init => Bounded
    <2> SUFFICES ASSUME Init PROVE Bounded OBVIOUS
    <2>1. disk.asks = {} /\ disk.dead = {} BY DEF Init, Blank
    <2>2. 0 <= MaxAsks BY OAuthAssumption
    <2> QED BY <2>1, <2>2, FS_EmptySet DEF Init, Bounded
  <1>2. OAuthInv /\ Bounded => TypeOK
    <2> SUFFICES ASSUME OAuthInv, Bounded PROVE TypeOK OBVIOUS
    <2>0. Numbers /\ Lineage /\ Approvals BY DEF OAuthInv
    <2>1. \A k \in Kinds : Minted(k) \subseteq Ids(k)
      BY <2>0, OAuthAssumption DEF Numbers, Minted, Ids
    <2>2. /\ Minted("tx") \subseteq Ids("tx") /\ Minted("ask") \subseteq Ids("ask")
          /\ Minted("cookie") \subseteq Ids("cookie") /\ Minted("code") \subseteq Ids("code")
          /\ Minted("pair") \subseteq Ids("pair")
      BY <2>1 DEF Kinds
    <2>3. disk.codes \subseteq [id : Ids("code"), aud : Audience, until : Nat]
      BY <2>0, <2>2 DEF Lineage
    <2>4. disk.access \subseteq Tokens /\ disk.refresh \subseteq Tokens
      BY <2>0, <2>2 DEF Lineage, TokenType, Tokens
    <2>5. disk.cookies \subseteq [id : Ids("cookie"), at : 0 .. now, by : Ids("tx")]
      BY <2>0, <2>2 DEF Approvals, SoundCookies
    <2>6. disk.asks \subseteq [id : Ids("ask"), tx : Ids("tx"),
                               status : {"pending", "approved", "denied"}, until : Nat]
      BY <2>0, <2>2 DEF Approvals, SoundAsks
    <2>7. disk.dead \subseteq [id : Ids("pair"), at : Nat] BY <2>2 DEF Bounded
    <2>8. codes \subseteq [id : Ids("code"), tx : Ids("tx"), aud : Audience, human : Ids("tx")]
      BY <2>0, <2>2 DEF Approvals
    <2>9. txs \subseteq [id : Ids("tx"), aud : Audience, until : Nat] BY <2>0, <2>2 DEF Approvals
    <2>10. approved \subseteq Ids("tx") /\ refused \subseteq Ids("tx") /\ presented \subseteq Ids("code")
      BY <2>0, <2>2 DEF Approvals, Lineage
    <2> QED BY <2>0, <2>3, <2>4, <2>5, <2>6, <2>7, <2>8, <2>9, <2>10 DEF TypeOK, Numbers, Bounded
  <1> QED BY <1>1, <1>2, BoundedStep, OAuthInvariant, PTL DEF Spec
=============================================================================
