------------------------------ MODULE TokenProofs ------------------------------
(***************************************************************************)
(* Proofs about PageTokens for every number of users, pages, consents,     *)
(* requests in progress and faults.                                        *)
(***************************************************************************)
EXTENDS PageTokens, SequenceTheorems, TLAPS

Token == [consent : 0..MaxConsents, page : Page \cup {NoPage}]

Call == [pc   : {"idle", "read", "adopt", "clone", "pages", "page", "resolve",
                 "exchange", "upsert"},
         op   : {"none", "callback", "refresh", "link", "url"},
         user : User,
         page : Page \cup {NoPage},
         tok  : Token]

UsersOK ==
    /\ users \in Seq([name : Name, password : Password])
    /\ Len(users) <= MaxUsers
    /\ sessions \subseteq [id : 1..Len(users), name : Name]

TokensTypeOK ==
    /\ consents \in 0..MaxConsents
    /\ DOMAIN states \subseteq 1..consents
    /\ \A s \in DOMAIN states : states[s] \in [user : User, fresh : BOOLEAN]
    /\ used \in [1..MaxConsents -> Nat]
    /\ starter \in [1..MaxConsents -> User]
    /\ crossed \subseteq 1..consents
    /\ DOMAIN rows \subseteq User
    /\ \A u \in DOMAIN rows : rows[u] \in Token
    /\ call \in [Worker -> Call]
    /\ own \in [User -> 0..MaxConsents]
    /\ choice \in [User -> Page \cup {NoPage}]

(* A pending state has let nobody through, and is its starter's.           *)
StatesOK ==
    /\ \A s \in DOMAIN states : states[s].user = starter[s] /\ used[s] = 0
    /\ \A s \in 1..MaxConsents : used[s] <= (IF s <= consents THEN 1 ELSE 0)

(* The token t may be that of u.                                           *)
IsOwn(u, t) ==
    /\ t.consent \in 1..consents
    /\ starter[t.consent] \in {u, Demo} \/ t.consent \in crossed

RowsOK == \A u \in DOMAIN rows : IsOwn(u, rows[u])

(* What a request is doing fits the step it is at.                         *)
CallOK(w) ==
    LET c == call[w]
    IN  /\ c.pc \notin {"idle", "read", "adopt"} => IsOwn(c.user, c.tok)
        /\ c.op = "none" => c.pc = "idle"
        /\ c.op = "callback" => c.pc \in {"exchange", "upsert"}
        /\ c.op = "refresh" => c.pc \in {"read", "pages", "upsert"}
        /\ c.op = "url" => c.pc \in {"read", "adopt", "clone", "resolve"}
        /\ c.op = "link" => c.pc \in {"read", "adopt", "clone", "page", "upsert"}
        /\ c.pc = "upsert" /\ c.op = "link" => c.tok.page = c.page
        /\ c.pc \in {"adopt", "clone"} => c.user # Demo

(* As long as u has a token of its own, or a page, the row is what the     *)
(* requests of u have read.                                                *)
ReadOK(w, u) ==
    HasRead(w, u) =>
        /\ own[u] # 0 \/ choice[u] # NoPage => call[w].pc \notin {"adopt", "clone"}
        /\ own[u] # 0 => call[w].tok.consent = own[u]
        /\ choice[u] # NoPage => call[w].op # "refresh"

OwnOK ==
    \A u \in User : own[u] # 0 => u \in DOMAIN rows /\ rows[u].consent = own[u]

ChoiceOK ==
    \A u \in User : choice[u] # NoPage => u \in DOMAIN rows /\ rows[u].page = choice[u]

TokensInv ==
    /\ UsersOK
    /\ TokensTypeOK
    /\ StatesOK
    /\ RowsOK
    /\ \A w \in Worker : CallOK(w)
    /\ \A w \in Worker, u \in User : ReadOK(w, u)
    /\ OwnOK
    /\ ChoiceOK

-------------------------------------------------------------------------------
(* Callers have user ids.                                                   *)
LEMMA CallerIsUser ==
  ASSUME UsersOK
  PROVE  Caller \subseteq User
  BY UsersAssumption DEF UsersOK, Caller, Authenticated, User, Demo

(* At first there are no users, states or rows.                             *)
LEMMA TokensInitial == Init => TokensInv
  <1> SUFFICES ASSUME Init PROVE TokensInv
    OBVIOUS
  <1> USE UsersAssumption, TokensAssumption DEF Init
  <1>1. UsersOK
    BY EmptySeq DEF UsersInit, UsersOK
  <1>2. TokensTypeOK
    BY DEF TokensTypeOK, Call, Token, Idle, NoRow, User, Demo, NoPage
  <1>3. StatesOK /\ RowsOK /\ OwnOK /\ ChoiceOK
    BY DEF StatesOK, RowsOK, OwnOK, ChoiceOK, User, NoPage
  <1>4. \A w \in Worker : CallOK(w)
    BY DEF CallOK, Idle
  <1>5. \A w \in Worker, u \in User : ReadOK(w, u)
    BY DEF ReadOK, HasRead, Idle
  <1> QED
    BY <1>1, <1>2, <1>3, <1>4, <1>5 DEF TokensInv

(* Registering, logging in and the end of a session concern no token.       *)
LEMMA UserSteps ==
  ASSUME TokensInv, UsersNext, UNCHANGED tokenVars
  PROVE  TokensInv'
  <1>1. UsersOK'
    <2>1. ASSUME NEW n \in Name, NEW p \in Password, Register(n, p)
          PROVE  UsersOK'
      <3> DEFINE row == [name |-> n, password |-> p]
      <3>1. /\ users \in Seq([name : Name, password : Password])
            /\ Len(users) \in Nat
            /\ users' = Append(users, row)
            /\ Len(users) < MaxUsers
            /\ sessions' = sessions
        BY <2>1, LenProperties DEF Register, TokensInv, UsersOK
      <3>2. row \in [name : Name, password : Password]
        OBVIOUS
      <3>3. /\ users' \in Seq([name : Name, password : Password])
            /\ Len(users') = Len(users) + 1
        BY <3>1, <3>2, AppendProperties
      <3>4. 1..Len(users) \subseteq 1..Len(users')
        BY <3>1, <3>3
      <3> QED
        BY <3>1, <3>3, <3>4, UsersAssumption DEF TokensInv, UsersOK
    <2>2. ASSUME NEW n \in Name, NEW p \in Password, Login(n, p)
          PROVE  UsersOK'
      BY <2>2, LenProperties DEF Login, Issued, GetByUserName, TokensInv, UsersOK
    <2>3. CASE SessionExpires
      BY <2>3 DEF SessionExpires, TokensInv, UsersOK
    <2> QED
      BY <2>1, <2>2, <2>3 DEF UsersNext
  <1> QED
    BY <1>1 DEF TokensInv, tokenVars, memory, flow, history, TokensTypeOK, StatesOK,
                RowsOK, IsOwn, CallOK, ReadOK, HasRead, OwnOK, ChoiceOK

-------------------------------------------------------------------------------
(* Steps of a request that change nothing but the request.                 *)
LEMMA RequestStep ==
  ASSUME TokensInv, NEW w \in Worker, NEW c \in Call,
         call' = [call EXCEPT ![w] = c],
         UNCHANGED <<userVars, rows, states, flow, history>>,
         CallOK(w)', \A u \in User : ReadOK(w, u)'
  PROVE  TokensInv'
  <1>1. UsersOK' /\ StatesOK' /\ RowsOK' /\ OwnOK' /\ ChoiceOK'
    BY DEF TokensInv, userVars, UsersOK, flow, StatesOK, RowsOK, IsOwn, OwnOK, ChoiceOK,
           history
  <1>2. TokensTypeOK'
    BY DEF TokensInv, TokensTypeOK, flow, history
  <1>3. \A x \in Worker \ {w} : call'[x] = call[x]
    BY DEF TokensInv, TokensTypeOK
  <1>4. \A x \in Worker \ {w} : CallOK(x)'
    BY <1>3 DEF TokensInv, CallOK, IsOwn, flow
  <1>5. \A x \in Worker \ {w}, u \in User : ReadOK(x, u)'
    BY <1>3 DEF TokensInv, ReadOK, HasRead, flow, history
  <1> QED
    BY <1>1, <1>2, <1>4, <1>5 DEF TokensInv

(* An idle request is well typed.                                           *)
LEMMA IdleIsCall == Idle \in Call
  BY TokensAssumption, UsersAssumption DEF Idle, Call, Token, NoRow, User, Demo, NoPage

(* A request begins or is over.                                            *)
LEMMA BeginsOrEnds ==
  ASSUME TokensInv, NEW w \in Worker, NEW c \in Call,
         call' = [call EXCEPT ![w] = c],
         UNCHANGED <<userVars, rows, states, flow, history>>,
         c.pc = "idle" \/ c.pc = "read",
         c.pc = "read" => c.op \in {"refresh", "link", "url"},
         c.pc = "idle" => c = Idle
  PROVE  TokensInv'
  <1>1. call'[w] = c
    BY DEF TokensInv, TokensTypeOK
  <1>2. CallOK(w)'
    BY <1>1 DEF CallOK, Idle
  <1>3. \A u \in User : ReadOK(w, u)'
    BY <1>1 DEF ReadOK, HasRead
  <1> QED
    BY <1>2, <1>3, RequestStep

(* A request begins with a read of its row.                                 *)
LEMMA Beginning ==
  ASSUME TokensInv, NEW w \in Worker, NEW u \in User,
         \/ RefreshPages(w, u)
         \/ LinkPageURL(w, u)
         \/ \E p \in Page : LinkPage(w, u, p)
  PROVE  TokensInv'
  <1>1. UNCHANGED <<userVars, rows, states, flow, history>>
    BY DEF RefreshPages, LinkPageURL, LinkPage
  <1>2. ASSUME NEW op \in {"refresh", "url"}, Begin(w, op, u, "read")
        PROVE  TokensInv'
    <2> DEFINE c == [Idle EXCEPT !.pc = "read", !.op = op, !.user = u]
    <2>1. c \in Call /\ c.pc = "read" /\ c.op = op
      BY IdleIsCall DEF Call, Idle
    <2>2. call' = [call EXCEPT ![w] = c]
      BY <1>2 DEF Begin
    <2> HIDE DEF c
    <2> QED
      BY <1>1, <2>1, <2>2, BeginsOrEnds
  <1>3. ASSUME NEW p \in Page, LinkPage(w, u, p)
        PROVE  TokensInv'
    <2> DEFINE c == [Idle EXCEPT !.pc = "read", !.op = "link", !.user = u, !.page = p]
    <2>1. c \in Call /\ c.pc = "read" /\ c.op = "link"
      BY IdleIsCall DEF Call, Idle
    <2>2. call' = [call EXCEPT ![w] = c]
      BY <1>3 DEF LinkPage
    <2> HIDE DEF c
    <2> QED
      BY <1>1, <2>1, <2>2, BeginsOrEnds
  <1> QED
    BY <1>2, <1>3 DEF RefreshPages, LinkPageURL

(* A request that is over has nothing in hand.                              *)
LEMMA Ending ==
  ASSUME TokensInv, NEW w \in Worker, Finish(w),
         UNCHANGED <<userVars, rows, states, flow, history>>
  PROVE  TokensInv'
  BY BeginsOrEnds, IdleIsCall DEF Finish, Idle

(* Where a request may go from each step.                                  *)
LEMMA OpOfStep ==
  ASSUME TokensInv, NEW w \in Worker
  PROVE  /\ call[w] \in Call
         /\ CallOK(w)
         /\ call[w].pc = "exchange" => call[w].op = "callback"
         /\ call[w].pc = "resolve" => call[w].op = "url"
         /\ call[w].pc = "page" => call[w].op = "link"
         /\ call[w].pc = "pages" => call[w].op = "refresh"
         /\ call[w].pc \in {"adopt", "clone"} => call[w].op \in {"link", "url"}
         /\ call[w].pc = "read" => call[w].op \in {"refresh", "link", "url"}
         /\ call[w].pc = "upsert" => call[w].op \in {"callback", "refresh", "link"}
  <1>1. call[w] \in Call /\ CallOK(w)
    BY DEF TokensInv, TokensTypeOK
  <1> QED
    BY <1>1 DEF CallOK, Call

(* A callback's token is that of a consent of its user.                     *)
LEMMA ExchangeStep ==
  ASSUME TokensInv, NEW w \in Worker, Exchange(w)
  PROVE  TokensInv'
  <1> DEFINE old == call[w]
  <1>1. /\ old \in Call /\ CallOK(w)
        /\ old.pc = "exchange" /\ old.op = "callback"
    BY OpOfStep DEF Exchange
  <1>2. PICK p \in FirstPage :
            call' = [call EXCEPT ![w] = [old EXCEPT !.pc = "upsert", !.tok.page = p]]
    BY DEF Exchange
  <1> DEFINE c == [old EXCEPT !.pc = "upsert", !.tok.page = p]
  <1>3. /\ c \in Call
        /\ c.pc = "upsert" /\ c.op = "callback" /\ c.user = old.user
        /\ c.tok.consent = old.tok.consent
    BY <1>1, TokensAssumption DEF Call, Token, NoPage
  <1>4. call' = [call EXCEPT ![w] = c] /\ call'[w] = c
    BY <1>2 DEF TokensInv, TokensTypeOK
  <1> HIDE DEF c
  <1>5. CallOK(w)'
    BY <1>1, <1>3, <1>4 DEF CallOK, IsOwn, Exchange, flow
  <1>6. \A u \in User : ReadOK(w, u)'
    BY <1>3, <1>4 DEF ReadOK, HasRead
  <1> QED
    BY <1>3, <1>4, <1>5, <1>6, RequestStep DEF Exchange

(* GetToken goes on with the row, ...                                      *)
LEMMA RowIsRead ==
  ASSUME TokensInv, NEW w \in Worker, GetToken(w), HasToken(call[w].user),
         AfterRead(call[w].op, rows[call[w].user]) # "idle"
  PROVE  TokensInv'
  <1> DEFINE old == call[w]
             row == rows[old.user]
             next == AfterRead(old.op, row)
             c == [old EXCEPT !.pc = next, !.tok = row]
  <1>1. /\ old \in Call /\ CallOK(w)
        /\ old.pc = "read" /\ old.op \in {"refresh", "link", "url"}
    BY OpOfStep DEF GetToken
  <1>2. old.user \in DOMAIN rows /\ old.user \in User /\ row \in Token
    BY <1>1 DEF HasToken, TokensInv, TokensTypeOK, Call
  <1>3. /\ old.op = "refresh" => next = "pages" /\ row.page = NoPage
        /\ old.op = "link" => next = "page"
        /\ old.op = "url" => next = "resolve"
    BY <1>1 DEF AfterRead
  <1>4. /\ c \in Call
        /\ c.pc = next /\ c.op = old.op /\ c.user = old.user /\ c.tok = row
    BY <1>1, <1>2, <1>3 DEF Call
  <1>5. call' = [call EXCEPT ![w] = c]
    BY DEF GetToken
  <1>6. call'[w] = c
    BY <1>5 DEF TokensInv, TokensTypeOK
  <1>7. UNCHANGED <<userVars, rows, states, flow, history>>
    BY DEF GetToken
  <1> HIDE DEF c, next
  <1>8. IsOwn(old.user, row)
    BY <1>2 DEF TokensInv, RowsOK
  <1>9. CallOK(w)'
    BY <1>1, <1>3, <1>4, <1>6, <1>7, <1>8 DEF CallOK, IsOwn, flow
  <1>10. \A u \in User : ReadOK(w, u)'
    BY <1>1, <1>2, <1>3, <1>4, <1>6, <1>7
    DEF ReadOK, HasRead, history, flow, TokensInv, OwnOK, ChoiceOK
  <1> QED
    BY <1>4, <1>5, <1>7, <1>9, <1>10, RequestStep

(* ... or, where there is none, asks for that of demo-user.                *)
LEMMA Adoption ==
  ASSUME TokensInv, NEW w \in Worker, call[w].pc = "read",
         call[w].user # Demo, Goto(w, "adopt"), call[w].op \in {"link", "url"},
         UNCHANGED <<userVars, rows, states, flow, history>>,
         own[call[w].user] = 0, choice[call[w].user] = NoPage
  PROVE  TokensInv'
  <1> DEFINE c == [call[w] EXCEPT !.pc = "adopt"]
  <1>1. call[w] \in Call /\ CallOK(w)
    BY OpOfStep
  <1>2. /\ c \in Call
        /\ c.pc = "adopt" /\ c.op = call[w].op /\ c.user = call[w].user
    BY <1>1 DEF Call
  <1>3. call' = [call EXCEPT ![w] = c] /\ call'[w] = c
    BY DEF Goto, TokensInv, TokensTypeOK
  <1> HIDE DEF c
  <1>4. CallOK(w)'
    BY <1>1, <1>2, <1>3 DEF CallOK
  <1>5. \A u \in User : ReadOK(w, u)'
    BY <1>1, <1>2, <1>3 DEF ReadOK, HasRead, history
  <1> QED
    BY <1>2, <1>3, <1>4, <1>5, RequestStep

(* What is read of a row is the row, until somebody writes it.              *)
LEMMA GetTokenStep ==
  ASSUME TokensInv, NEW w \in Worker, GetToken(w)
  PROVE  TokensInv'
  <1>1. UNCHANGED <<userVars, rows, states, flow, history>>
    BY DEF GetToken
  <1>2. CASE HasToken(call[w].user)
    <2>1. CASE AfterRead(call[w].op, rows[call[w].user]) = "idle"
      BY <1>1, <1>2, <2>1, Ending DEF GetToken
    <2> QED
      BY <1>2, <2>1, RowIsRead
  <1>3. CASE ~HasToken(call[w].user) /\ call[w].op \in {"link", "url"} /\ call[w].user # Demo
    <2>1. own[call[w].user] = 0 /\ choice[call[w].user] = NoPage
      BY <1>3, OpOfStep DEF HasToken, TokensInv, OwnOK, ChoiceOK, Call
    <2> QED
      BY <1>1, <1>3, <2>1, Adoption DEF GetToken, NoToken
  <1>4. CASE ~HasToken(call[w].user) /\ ~(call[w].op \in {"link", "url"} /\ call[w].user # Demo)
    BY <1>1, <1>4, Ending DEF GetToken, NoToken
  <1> QED
    BY <1>2, <1>3, <1>4

(* The row of demo-user is read for who has none of its own.                *)
LEMMA GetDemoTokenStep ==
  ASSUME TokensInv, NEW w \in Worker, GetDemoToken(w)
  PROVE  TokensInv'
  <1> DEFINE old == call[w]
             c == [old EXCEPT !.pc = "clone", !.tok = rows[Demo]]
  <1>1. UNCHANGED <<userVars, rows, states, flow, history>>
    BY DEF GetDemoToken
  <1>2. CASE Demo \notin DOMAIN rows
    BY <1>1, <1>2, Ending DEF GetDemoToken
  <1>3. CASE Demo \in DOMAIN rows
    <2>1. /\ old \in Call /\ CallOK(w)
          /\ old.pc = "adopt" /\ old.op \in {"link", "url"} /\ old.user # Demo
      BY OpOfStep DEF GetDemoToken, CallOK
    <2>2. rows[Demo] \in Token /\ IsOwn(old.user, rows[Demo])
      BY <1>3 DEF TokensInv, TokensTypeOK, RowsOK, IsOwn
    <2>3. /\ c \in Call
          /\ c.pc = "clone" /\ c.op = old.op /\ c.user = old.user /\ c.tok = rows[Demo]
      BY <2>1, <2>2 DEF Call
    <2>4. call' = [call EXCEPT ![w] = c] /\ call'[w] = c
      BY <1>3 DEF GetDemoToken, TokensInv, TokensTypeOK
    <2> HIDE DEF c
    <2>5. CallOK(w)'
      BY <1>1, <2>1, <2>2, <2>3, <2>4 DEF CallOK, IsOwn, flow
    <2>6. ASSUME NEW u \in User, HasRead(w, u)'
          PROVE  ReadOK(w, u)'
      <3>1. HasRead(w, u) /\ u = old.user
        BY <2>1, <2>3, <2>4, <2>6 DEF HasRead
      <3>2. own[u] = 0 /\ choice[u] = NoPage
        BY <2>1, <3>1 DEF TokensInv, ReadOK
      <3> QED
        BY <1>1, <3>2 DEF ReadOK, history
    <2>7. \A u \in User : ReadOK(w, u)'
      BY <2>6 DEF ReadOK
    <2> QED
      BY <1>1, <2>3, <2>4, <2>5, <2>7, RequestStep
  <1> QED
    BY <1>2, <1>3

(* A page is resolved with the token in hand.                               *)
LEMMA ResolvePageStep ==
  ASSUME TokensInv, NEW w \in Worker, ResolvePage(w)
  PROVE  TokensInv'
  <1> DEFINE old == call[w]
  <1>1. UNCHANGED <<userVars, rows, states, flow, history>>
    BY DEF ResolvePage
  <1>2. old \in Call /\ CallOK(w) /\ old.pc = "resolve" /\ old.op = "url"
    BY OpOfStep DEF ResolvePage
  <1>3. PICK p \in Page :
            call' = [call EXCEPT ![w] = [old EXCEPT !.pc = "page", !.op = "link", !.page = p]]
    BY DEF ResolvePage
  <1> DEFINE c == [old EXCEPT !.pc = "page", !.op = "link", !.page = p]
  <1>4. /\ c \in Call
        /\ c.pc = "page" /\ c.op = "link" /\ c.user = old.user /\ c.tok = old.tok
    BY <1>2 DEF Call
  <1>5. call' = [call EXCEPT ![w] = c] /\ call'[w] = c
    BY <1>3 DEF TokensInv, TokensTypeOK
  <1> HIDE DEF c
  <1>6. CallOK(w)'
    BY <1>1, <1>2, <1>4, <1>5 DEF CallOK, IsOwn, flow
  <1>7. ASSUME NEW u \in User, HasRead(w, u)'
        PROVE  ReadOK(w, u)'
    <2>1. HasRead(w, u)
      BY <1>2, <1>4, <1>5, <1>7 DEF HasRead
    <2>2. ReadOK(w, u)
      BY DEF TokensInv
    <2> QED
      BY <1>1, <1>2, <1>4, <1>5, <2>1, <2>2 DEF ReadOK, history
  <1>8. \A u \in User : ReadOK(w, u)'
    BY <1>7 DEF ReadOK
  <1> QED
    BY <1>1, <1>4, <1>5, <1>6, <1>8, RequestStep

(* The token of the chosen page is at hand: FetchPage and FetchPages.      *)
LEMMA PageIsFetched ==
  ASSUME TokensInv, NEW w \in Worker, NEW p \in Page \cup {NoPage},
         \/ call[w].pc = "pages"
         \/ call[w].pc = "page" /\ p = call[w].page,
         call' = [call EXCEPT ![w].pc = "upsert", ![w].tok = OfPage(@, p)],
         UNCHANGED <<userVars, rows, states, flow, history>>
  PROVE  TokensInv'
  <1> DEFINE old == call[w]
             c == [old EXCEPT !.pc = "upsert", !.tok = OfPage(@, p)]
  <1>1. /\ old \in Call /\ CallOK(w)
        /\ \/ old.pc = "pages" /\ old.op = "refresh"
           \/ old.pc = "page" /\ old.op = "link"
    BY OpOfStep
  <1>2. /\ c \in Call
        /\ c.pc = "upsert" /\ c.op = old.op /\ c.user = old.user /\ c.page = old.page
        /\ c.tok.consent = old.tok.consent /\ c.tok.page = p
    BY <1>1 DEF Call, Token, OfPage
  <1>3. call' = [call EXCEPT ![w] = c] /\ call'[w] = c
    BY DEF TokensInv, TokensTypeOK
  <1> HIDE DEF c
  <1>4. CallOK(w)'
    BY <1>1, <1>2, <1>3 DEF CallOK, IsOwn, flow
  <1>5. ASSUME NEW u \in User, HasRead(w, u)'
        PROVE  ReadOK(w, u)'
    <2>1. HasRead(w, u)
      BY <1>1, <1>2, <1>3, <1>5 DEF HasRead
    <2>2. ReadOK(w, u)
      BY DEF TokensInv
    <2> QED
      BY <1>2, <1>3, <2>1, <2>2 DEF ReadOK, history, flow
  <1>6. \A u \in User : ReadOK(w, u)'
    BY <1>5 DEF ReadOK
  <1> QED
    BY <1>2, <1>3, <1>4, <1>6, RequestStep

(* A page's token is derived from the token in hand.                        *)
LEMMA FetchSteps ==
  ASSUME TokensInv, NEW w \in Worker, FetchPage(w) \/ FetchPages(w)
  PROVE  TokensInv'
  <1>1. CASE FetchPage(w)
    <2>1. call[w].page \in Page \cup {NoPage}
      BY OpOfStep DEF Call
    <2> QED
      BY <1>1, <2>1, PageIsFetched DEF FetchPage
  <1>2. CASE FetchPages(w) /\ Finish(w)
    BY <1>2, Ending DEF FetchPages
  <1>3. CASE FetchPages(w) /\ ~Finish(w)
    BY <1>3, PageIsFetched, TokensAssumption DEF FetchPages, NoPage
  <1> QED
    BY <1>1, <1>2, <1>3
-------------------------------------------------------------------------------
(* Consents.                                                               *)
LEMMA GetAuthURLStep ==
  ASSUME TokensInv, NEW u \in User, GetAuthURL(u)
  PROVE  TokensInv'
  <1> DEFINE n == consents + 1
  <1>1. /\ consents \in Nat /\ n \in 1..MaxConsents /\ n \notin DOMAIN states
        /\ consents' = n
        /\ UNCHANGED <<userVars, rows, call, used, crossed, history, faults>>
    BY TokensAssumption DEF GetAuthURL, TokensInv, TokensTypeOK
  <1>2. /\ DOMAIN states' = DOMAIN states \cup {n}
        /\ states'[n] = [user |-> u, fresh |-> TRUE]
        /\ \A s \in DOMAIN states : states'[s] = states[s]
    BY <1>1 DEF GetAuthURL, Set
  <1>3. /\ starter' \in [1..MaxConsents -> User]
        /\ starter'[n] = u
        /\ \A s \in 1..consents : starter'[s] = starter[s]
    BY <1>1 DEF GetAuthURL, TokensInv, TokensTypeOK
  <1>4. 1..consents \subseteq 1..n /\ 1..consents \subseteq 1..MaxConsents
    BY <1>1, TokensAssumption
  <1>5. UsersOK'
    BY <1>1 DEF TokensInv, UsersOK, userVars
  <1>6. TokensTypeOK'
    <2>1. DOMAIN states' \subseteq 1..n
      BY <1>1, <1>2, <1>4, TokensAssumption DEF TokensInv, TokensTypeOK
    <2>2. \A s \in DOMAIN states' : states'[s] \in [user : User, fresh : BOOLEAN]
      <3>1. states'[n] \in [user : User, fresh : BOOLEAN]
        BY <1>2
      <3>2. \A s \in DOMAIN states : states'[s] \in [user : User, fresh : BOOLEAN]
        BY <1>2 DEF TokensInv, TokensTypeOK
      <3> QED
        BY <1>2, <3>1, <3>2
    <2> QED
      BY <1>1, <1>3, <2>1, <2>2 DEF TokensInv, TokensTypeOK, history
  <1>7. StatesOK'
    <2>1. used[n] = 0
      BY <1>1 DEF TokensInv, StatesOK, TokensTypeOK
    <2>2. \A s \in DOMAIN states' : states'[s].user = starter'[s] /\ used'[s] = 0
      BY <1>1, <1>2, <1>3, <2>1 DEF TokensInv, StatesOK, TokensTypeOK
    <2>3. \A s \in 1..MaxConsents : used'[s] <= (IF s <= consents' THEN 1 ELSE 0)
      BY <1>1 DEF TokensInv, StatesOK, TokensTypeOK
    <2> QED
      BY <2>2, <2>3 DEF StatesOK
  <1>8. ASSUME NEW v, NEW t, IsOwn(v, t)
        PROVE  IsOwn(v, t)'
    BY <1>1, <1>3, <1>4, <1>8 DEF IsOwn
  <1>9. RowsOK'
    BY <1>1, <1>8 DEF TokensInv, RowsOK
  <1>10. \A w \in Worker : CallOK(w)'
    <2> SUFFICES ASSUME NEW w \in Worker PROVE CallOK(w)'
      OBVIOUS
    <2>1. CallOK(w) /\ call'[w] = call[w] /\ call[w] \in Call
      BY <1>1 DEF TokensInv, TokensTypeOK
    <2> QED
      BY <1>1, <1>3, <1>8, <2>1 DEF CallOK, IsOwn
  <1>11. \A w \in Worker, v \in User : ReadOK(w, v)'
    <2> SUFFICES ASSUME NEW w \in Worker, NEW v \in User PROVE ReadOK(w, v)'
      OBVIOUS
    <2>1. CallOK(w) /\ ReadOK(w, v)
      BY DEF TokensInv
    <2> QED
      BY <1>1, <1>3, <2>1 DEF CallOK, IsOwn, ReadOK, HasRead, history
  <1>12. OwnOK'
    BY <1>1, <1>3 DEF TokensInv, OwnOK, RowsOK, IsOwn, history
  <1>13. ChoiceOK'
    BY <1>1 DEF TokensInv, ChoiceOK, history
  <1> QED
    BY <1>5, <1>6, <1>7, <1>9, <1>10, <1>11, <1>12, <1>13 DEF TokensInv

(* An expired state is still unused.                                        *)
LEMMA StateExpiresStep ==
  ASSUME TokensInv, NEW s \in DOMAIN states, StateExpires(s)
  PROVE  TokensInv'
  <1>1. /\ DOMAIN states' = DOMAIN states
        /\ \A t \in DOMAIN states :
               /\ states'[t].user = states[t].user
               /\ states'[t] \in [user : User, fresh : BOOLEAN]
    BY DEF StateExpires, TokensInv, TokensTypeOK
  <1>2. UNCHANGED <<userVars, rows, call, flow, history, faults>>
    BY DEF StateExpires
  <1>3. TokensTypeOK' /\ StatesOK'
    BY <1>1, <1>2 DEF TokensInv, TokensTypeOK, StatesOK, flow, history
  <1> QED
    BY <1>2, <1>3 DEF TokensInv, userVars, UsersOK, flow, history, RowsOK, IsOwn, CallOK,
                      ReadOK, HasRead, OwnOK, ChoiceOK

(* A callback drops its state in the step that lets it through.             *)
LEMMA CallbackStep ==
  ASSUME TokensInv, NEW w \in Worker, NEW s \in DOMAIN states, NEW session \in User,
         Callback(w, s, session)
  PROVE  TokensInv'
  <1> DEFINE u == CallbackUser(s, session)
             c == [Idle EXCEPT !.pc = "exchange", !.op = "callback",
                               !.user = u, !.tok.consent = s]
  <1>1. UNCHANGED <<userVars, rows, consents, starter, history, faults>>
    BY DEF Callback
  <1>2. /\ s \in 1..consents /\ s \in 1..MaxConsents /\ consents \in Nat
        /\ states[s].user = starter[s] /\ used[s] = 0 /\ states[s].user \in User
    BY TokensAssumption DEF TokensInv, TokensTypeOK, StatesOK
  <1>3. /\ u \in User
        /\ crossed \subseteq crossed' /\ crossed' \subseteq crossed \cup {s}
        /\ starter[s] = u \/ s \in crossed'
    BY <1>2 DEF CallbackUser, Callback
  <1>4. /\ used' \in [1..MaxConsents -> Nat]
        /\ used'[s] = 1
        /\ \A t \in 1..MaxConsents \ {s} : used'[t] = used[t]
    BY <1>2 DEF Callback, TokensInv, TokensTypeOK
  <1>5. /\ DOMAIN states' = DOMAIN states \ {s}
        /\ \A t \in DOMAIN states' : states'[t] = states[t]
    BY DEF Callback, DropState
  <1>6. /\ c \in Call
        /\ c.pc = "exchange" /\ c.op = "callback" /\ c.user = u /\ c.tok.consent = s
    <2> HIDE DEF u
    <2>1. Idle \in Call /\ Idle.tok \in Token /\ s \in 0..MaxConsents
      BY <1>2, IdleIsCall, TokensAssumption DEF Call
    <2>2. [Idle.tok EXCEPT !.consent = s] \in Token
      BY <2>1 DEF Token
    <2> QED
      BY <1>3, <2>1, <2>2 DEF Call, Token
  <1>7. call' = [call EXCEPT ![w] = c]
    BY DEF Callback
  <1>8. call'[w] = c /\ \A x \in Worker \ {w} : call'[x] = call[x]
    BY <1>7 DEF TokensInv, TokensTypeOK
  <1> HIDE DEF c, u
  <1>9. UsersOK'
    BY <1>1 DEF TokensInv, UsersOK, userVars
  <1>10. TokensTypeOK'
    <2>1. call' \in [Worker -> Call]
      BY <1>6, <1>7 DEF TokensInv, TokensTypeOK
    <2> QED
      BY <1>1, <1>3, <1>4, <1>5, <2>1 DEF TokensInv, TokensTypeOK, history
  <1>11. StatesOK'
    <2>1. \A t \in DOMAIN states' : states'[t].user = starter'[t] /\ used'[t] = 0
      BY <1>1, <1>2, <1>3, <1>4, <1>5, TokensAssumption
      DEF TokensInv, TokensTypeOK, StatesOK
    <2>2. \A t \in 1..MaxConsents : used'[t] <= (IF t <= consents' THEN 1 ELSE 0)
      BY <1>1, <1>2, <1>4 DEF TokensInv, TokensTypeOK, StatesOK
    <2> QED
      BY <2>1, <2>2 DEF StatesOK
  <1>12. ASSUME NEW v, NEW t, IsOwn(v, t)
         PROVE  IsOwn(v, t)'
    BY <1>1, <1>3, <1>12, TokensAssumption DEF IsOwn, TokensInv, TokensTypeOK
  <1>13. RowsOK'
    BY <1>1, <1>12 DEF TokensInv, RowsOK
  <1>14. \A t \in 1..consents : t \in 1..MaxConsents
    BY TokensAssumption DEF TokensInv, TokensTypeOK
  <1>15. \A x \in Worker : CallOK(x)'
    <2>1. CallOK(w)'
      BY <1>1, <1>2, <1>3, <1>6, <1>8 DEF CallOK, IsOwn
    <2>2. ASSUME NEW x \in Worker \ {w} PROVE CallOK(x)'
      <3>1. CallOK(x) /\ call'[x] = call[x] /\ call[x] \in Call
        BY <1>8 DEF TokensInv, TokensTypeOK
      <3> QED
        BY <1>1, <1>3, <1>12, <1>14, <3>1 DEF CallOK, IsOwn
    <2> QED
      BY <2>1, <2>2
  <1>16. \A x \in Worker, v \in User : ReadOK(x, v)'
    <2>1. ASSUME NEW v \in User PROVE ReadOK(w, v)'
      BY <1>6, <1>8 DEF ReadOK, HasRead
    <2>2. ASSUME NEW x \in Worker \ {w}, NEW v \in User PROVE ReadOK(x, v)'
      <3>1. CallOK(x) /\ ReadOK(x, v) /\ call'[x] = call[x]
        BY <1>8 DEF TokensInv
      <3> QED
        BY <1>1, <1>3, <1>14, <3>1 DEF CallOK, IsOwn, ReadOK, HasRead, history
    <2> QED
      BY <2>1, <2>2
  <1>17. OwnOK'
    BY <1>1, <1>3, <1>14 DEF TokensInv, OwnOK, RowsOK, IsOwn, history
  <1>18. ChoiceOK'
    BY <1>1 DEF TokensInv, ChoiceOK, history
  <1> QED
    BY <1>9, <1>10, <1>11, <1>13, <1>15, <1>16, <1>17, <1>18 DEF TokensInv
-------------------------------------------------------------------------------
(* Steps that write the row, or may have written it.                       *)

(* The row of u becomes t, which may be that of u; what is remembered of u *)
(* is true of t, or of no request that goes on.                            *)
LEMMA RowIsWritten ==
  ASSUME TokensInv, NEW w \in Worker, NEW c \in Call, NEW u \in User, NEW t \in Token,
         u = call[w].user, IsOwn(u, t),
         rows' = Set(rows, u, t),
         call' = [call EXCEPT ![w] = c],
         UNCHANGED <<userVars, states, flow>>,
         own' \in [User -> 0..MaxConsents], choice' \in [User -> Page \cup {NoPage}],
         \A v \in User \ {u} : own'[v] = own[v] /\ choice'[v] = choice[v],
         own'[u] # 0 => t.consent = own'[u],
         choice'[u] # NoPage => t.page = choice'[u],
         \A x \in Worker \ {w} : HasRead(x, u) => own'[u] = 0 /\ choice'[u] = NoPage,
         CallOK(w)', \A v \in User : ReadOK(w, v)'
  PROVE  TokensInv'
  <1>1. /\ DOMAIN rows' = DOMAIN rows \cup {u}
        /\ rows'[u] = t
        /\ \A v \in DOMAIN rows \ {u} : rows'[v] = rows[v]
    BY DEF Set
  <1>2. call' \in [Worker -> Call] /\ \A x \in Worker \ {w} : call'[x] = call[x]
    BY DEF TokensInv, TokensTypeOK
  <1>3. UsersOK' /\ StatesOK'
    BY DEF TokensInv, userVars, UsersOK, flow, StatesOK
  <1>4. TokensTypeOK'
    BY <1>1, <1>2 DEF TokensInv, TokensTypeOK, flow
  <1>5. RowsOK'
    BY <1>1 DEF TokensInv, RowsOK, IsOwn, flow
  <1>6. \A x \in Worker \ {w} : CallOK(x)'
    BY <1>2 DEF TokensInv, CallOK, IsOwn, flow
  <1>7. ASSUME NEW x \in Worker \ {w}, NEW v \in User
        PROVE  ReadOK(x, v)'
    <2>1. ReadOK(x, v) /\ call'[x] = call[x]
      BY <1>2 DEF TokensInv
    <2>2. CASE v = u
      BY <2>1, <2>2 DEF ReadOK, HasRead
    <2>3. CASE v # u
      BY <2>1, <2>3 DEF ReadOK, HasRead, flow
    <2> QED
      BY <2>2, <2>3
  <1>8. OwnOK'
    <2> SUFFICES ASSUME NEW v \in User, own'[v] # 0
                 PROVE  v \in DOMAIN rows' /\ rows'[v].consent = own'[v]
      BY DEF OwnOK
    <2>1. CASE v = u
      BY <1>1, <2>1 DEF flow
    <2>2. CASE v # u
      BY <1>1, <2>2 DEF flow, TokensInv, OwnOK
    <2> QED
      BY <2>1, <2>2
  <1>9. ChoiceOK'
    BY <1>1 DEF TokensInv, ChoiceOK
  <1> QED
    BY <1>3, <1>4, <1>5, <1>6, <1>7, <1>8, <1>9 DEF TokensInv

(* Nothing is remembered of a user who is forgotten, and the rest stays.   *)
LEMMA ForgetType ==
  ASSUME TokensInv, NEW u \in User, Forget(u)
  PROVE  /\ own' \in [User -> 0..MaxConsents] /\ own'[u] = 0
         /\ choice' \in [User -> Page \cup {NoPage}] /\ choice'[u] = NoPage
         /\ \A v \in User \ {u} : own'[v] = own[v] /\ choice'[v] = choice[v]
  <1>1. 0 \in 0..MaxConsents
    BY TokensAssumption
  <1> QED
    BY <1>1 DEF Forget, TokensInv, TokensTypeOK

(* What Note leaves of the user of w is true of the token w stores.        *)
LEMMA NoteIsTrue ==
  ASSUME TokensInv, NEW w \in Worker, Note(w) \/ Forget(call[w].user),
         call[w].pc \in {"clone", "upsert"}
  PROVE  LET u == call[w].user
             t == call[w].tok
         IN  /\ own' \in [User -> 0..MaxConsents]
             /\ choice' \in [User -> Page \cup {NoPage}]
             /\ \A v \in User \ {u} : own'[v] = own[v] /\ choice'[v] = choice[v]
             /\ own'[u] # 0 => t.consent = own'[u]
             /\ choice'[u] # NoPage => t.page = choice'[u]
             /\ \A x \in Worker \ {w} : HasRead(x, u) => own'[u] = 0 /\ choice'[u] = NoPage
             /\ call[w].pc = "clone" => own'[u] = 0 /\ choice'[u] = NoPage
  <1> DEFINE u == call[w].user
             t == call[w].tok
  <1>1. /\ u \in User /\ t \in Token /\ call[w].page \in Page \cup {NoPage}
        /\ CallOK(w) /\ ReadOK(w, u)
        /\ call[w].pc = "clone" => call[w].op \in {"link", "url"}
        /\ call[w].pc = "upsert" => call[w].op \in {"callback", "refresh", "link"}
    BY OpOfStep DEF Call, TokensInv
  <1>2. own \in [User -> 0..MaxConsents] /\ choice \in [User -> Page \cup {NoPage}]
    BY DEF TokensInv, TokensTypeOK
  <1>3. CASE Forget(u)
    BY <1>1, <1>3, ForgetType
  <1>4. CASE ~ \E x \in Worker \ {w} : HasRead(x, u)
    <2>1. call[w].pc = "clone" \/ (call[w].pc = "upsert" /\ call[w].op # "callback")
             => HasRead(w, u)
      BY DEF HasRead
    <2>2. CASE ~Forget(u) /\ call[w].pc = "clone"
      <3>1. UNCHANGED history
        BY <1>1, <1>4, <2>2 DEF Note
      <3>2. own[u] = 0 /\ choice[u] = NoPage
        BY <1>1, <2>1, <2>2 DEF ReadOK
      <3> QED
        BY <1>2, <1>4, <3>1, <3>2 DEF history
    <2>3. CASE ~Forget(u) /\ call[w].pc = "upsert" /\ call[w].op = "callback"
      <3>1. own' = [own EXCEPT ![u] = t.consent] /\ choice' = [choice EXCEPT ![u] = NoPage]
        BY <1>4, <2>3 DEF Note
      <3>2. t.consent \in 0..MaxConsents
        BY <1>1 DEF Token
      <3> QED
        BY <1>1, <1>2, <1>4, <2>3, <3>1, <3>2
    <2>4. CASE ~Forget(u) /\ call[w].pc = "upsert" /\ call[w].op = "refresh"
      <3>1. UNCHANGED history
        BY <1>4, <2>4 DEF Note
      <3>2. choice[u] = NoPage /\ (own[u] # 0 => t.consent = own[u])
        BY <1>1, <2>1, <2>4 DEF ReadOK
      <3> QED
        BY <1>2, <1>4, <2>4, <3>1, <3>2 DEF history
    <2>5. CASE ~Forget(u) /\ call[w].pc = "upsert" /\ call[w].op = "link"
      <3>1. own' = own /\ choice' = [choice EXCEPT ![u] = call[w].page]
        BY <1>4, <2>5 DEF Note
      <3>2. t.page = call[w].page /\ (own[u] # 0 => t.consent = own[u])
        BY <1>1, <2>1, <2>5 DEF CallOK, ReadOK
      <3> QED
        BY <1>1, <1>2, <1>4, <2>5, <3>1, <3>2
    <2> QED
      BY <1>1, <1>3, <2>2, <2>3, <2>4, <2>5
  <1> QED
    BY <1>3, <1>4 DEF Note

(* Whatever is written to a row, the other requests of its user lose what   *)
(* history promised them, or had not read it.                               *)
LEMMA Written ==
  ASSUME TokensInv, NEW w \in Worker, UpsertToken(w), Note(w) \/ Forget(call[w].user),
         call[w].pc \in {"clone", "upsert"},
         UNCHANGED <<userVars, states, flow>>,
         NEW c \in Call, call' = [call EXCEPT ![w] = c], c = Idle \/ call[w].pc = "clone",
         CallOK(w)', \A v \in User : v # call[w].user => ReadOK(w, v)'
  PROVE  TokensInv'
  <1>1. call[w] \in Call /\ CallOK(w)
    BY OpOfStep
  <1>2. PICK u \in User, t \in Token : u = call[w].user /\ t = call[w].tok
    BY <1>1 DEF Call
  <1>3. IsOwn(u, t) /\ rows' = Set(rows, u, t)
    BY <1>1, <1>2 DEF CallOK, UpsertToken
  <1>4. /\ own' \in [User -> 0..MaxConsents]
        /\ choice' \in [User -> Page \cup {NoPage}]
        /\ \A v \in User \ {u} : own'[v] = own[v] /\ choice'[v] = choice[v]
        /\ own'[u] # 0 => t.consent = own'[u]
        /\ choice'[u] # NoPage => t.page = choice'[u]
        /\ \A x \in Worker \ {w} : HasRead(x, u) => own'[u] = 0 /\ choice'[u] = NoPage
        /\ call[w].pc = "clone" => own'[u] = 0 /\ choice'[u] = NoPage
    BY <1>2, NoteIsTrue
  <1>5. ReadOK(w, u)'
    <2>1. call'[w] = c
      BY DEF TokensInv, TokensTypeOK
    <2>2. CASE c = Idle
      BY <2>1, <2>2 DEF ReadOK, HasRead, Idle
    <2>3. CASE call[w].pc = "clone"
      BY <1>4, <2>3 DEF ReadOK
    <2> QED
      BY <2>2, <2>3
  <1>6. \A v \in User : ReadOK(w, v)'
    BY <1>2, <1>5
  <1> QED
    BY <1>2, <1>3, <1>4, <1>6, RowIsWritten

(* A request that is over relies on no row.                                 *)
LEMMA IdleFits ==
  ASSUME TokensInv, NEW w \in Worker, Finish(w)
  PROVE  CallOK(w)' /\ \A v \in User : ReadOK(w, v)'
  <1>1. call'[w] = Idle
    BY DEF Finish, TokensInv, TokensTypeOK
  <1> QED
    BY <1>1 DEF CallOK, ReadOK, HasRead, Idle

(* The row is stored as it is in hand.                                      *)
LEMMA StoreStep ==
  ASSUME TokensInv, NEW w \in Worker, Store(w)
  PROVE  TokensInv'
  BY IdleFits, IdleIsCall, Written DEF Store, Finish

(* The row of demo-user is stored for the user.                             *)
LEMMA CloneStep ==
  ASSUME TokensInv, NEW w \in Worker, CloneDemoToken(w)
  PROVE  TokensInv'
  <1> DEFINE old == call[w]
             next == IF old.op = "link" THEN "page" ELSE "resolve"
             c == [old EXCEPT !.pc = next]
  <1>1. /\ old \in Call /\ CallOK(w)
        /\ old.pc = "clone" /\ old.op \in {"link", "url"}
    BY OpOfStep DEF CloneDemoToken
  <1>2. /\ c \in Call
        /\ c.pc = next /\ c.op = old.op /\ c.user = old.user /\ c.tok = old.tok
    BY <1>1 DEF Call
  <1>3. call' = [call EXCEPT ![w] = c] /\ call'[w] = c
    BY DEF CloneDemoToken, Goto, TokensInv, TokensTypeOK
  <1> HIDE DEF c
  <1>4. CallOK(w)'
    BY <1>1, <1>2, <1>3 DEF CloneDemoToken, CallOK, IsOwn, flow
  <1>5. \A v \in User : v # old.user => ReadOK(w, v)'
    BY <1>2, <1>3 DEF ReadOK, HasRead
  <1> QED
    BY <1>1, <1>2, <1>3, <1>4, <1>5, Written DEF CloneDemoToken

(* A call fails before it changes the row.                                 *)
LEMMA Forgotten ==
  ASSUME TokensInv, NEW w \in Worker, NEW c \in Call, Forget(call[w].user),
         call' = [call EXCEPT ![w] = c],
         c = Idle \/ (c.pc = "adopt" /\ c.user = call[w].user),
         UNCHANGED <<userVars, rows, states, flow>>,
         CallOK(w)'
  PROVE  TokensInv'
  <1> DEFINE u == call[w].user
  <1>1. /\ u \in User
        /\ own' = [own EXCEPT ![u] = 0] /\ choice' = [choice EXCEPT ![u] = NoPage]
        /\ own' \in [User -> 0..MaxConsents] /\ choice' \in [User -> Page \cup {NoPage}]
        /\ own'[u] = 0 /\ choice'[u] = NoPage
        /\ \A v \in User \ {u} : own'[v] = own[v] /\ choice'[v] = choice[v]
    BY OpOfStep, ForgetType DEF Call, Forget
  <1>2. /\ call'[w] = c /\ call' \in [Worker -> Call]
        /\ \A x \in Worker \ {w} : call'[x] = call[x]
    BY DEF TokensInv, TokensTypeOK
  <1>3. UsersOK' /\ StatesOK' /\ RowsOK'
    BY DEF TokensInv, userVars, UsersOK, flow, StatesOK, RowsOK, IsOwn
  <1>4. TokensTypeOK'
    BY <1>1, <1>2 DEF TokensInv, TokensTypeOK, flow
  <1>5. \A x \in Worker \ {w} : CallOK(x)'
    BY <1>2 DEF TokensInv, CallOK, IsOwn, flow
  <1>6. OwnOK' /\ ChoiceOK'
    BY <1>1 DEF TokensInv, OwnOK, ChoiceOK, flow
  <1>7. ASSUME NEW x \in Worker, NEW v \in User
        PROVE  ReadOK(x, v)'
    <2>1. CASE x = w
      BY <1>1, <1>2, <2>1 DEF ReadOK, HasRead, Idle
    <2>2. CASE x # w /\ v = u
      BY <1>1, <2>2 DEF ReadOK
    <2>3. CASE x # w /\ v # u
      BY <1>1, <1>2, <2>3 DEF TokensInv, ReadOK, HasRead, flow
    <2> QED
      BY <2>1, <2>2, <2>3
  <1> QED
    BY <1>3, <1>4, <1>5, <1>6, <1>7 DEF TokensInv

(* A failing call forgets what was promised to its user.                    *)
LEMMA CallFailsStep ==
  ASSUME TokensInv, NEW w \in Worker, CallFails(w)
  PROVE  TokensInv'
  <1>1. Forget(call[w].user) /\ UNCHANGED <<userVars, states, flow>>
    BY DEF CallFails
  <1>2. CASE Finish(w) /\ UNCHANGED rows
    BY <1>1, <1>2, IdleFits, IdleIsCall, Forgotten DEF Finish
  <1>3. CASE call[w].pc = "read" /\ Goto(w, "adopt") /\ UNCHANGED rows
               /\ call[w].op \in {"link", "url"} /\ call[w].user # Demo
    <2> DEFINE c == [call[w] EXCEPT !.pc = "adopt"]
    <2>1. call[w] \in Call /\ CallOK(w)
      BY OpOfStep
    <2>2. /\ c \in Call
          /\ c.pc = "adopt" /\ c.op = call[w].op /\ c.user = call[w].user
      BY <2>1 DEF Call
    <2>3. call' = [call EXCEPT ![w] = c] /\ call'[w] = c
      BY <1>3 DEF Goto, TokensInv, TokensTypeOK
    <2> HIDE DEF c
    <2>4. CallOK(w)'
      BY <1>3, <2>1, <2>2, <2>3 DEF CallOK
    <2> QED
      BY <1>1, <1>3, <2>2, <2>3, <2>4, Forgotten
  <1>4. CASE call[w].pc \in {"clone", "upsert"} /\ UpsertToken(w) /\ Finish(w)
    BY <1>1, <1>4, IdleFits, IdleIsCall, Written DEF Finish
  <1> QED
    BY <1>2, <1>3, <1>4 DEF CallFails, NoToken

(* A restart forgets states and requests, but no row.                       *)
LEMMA RestartStep ==
  ASSUME TokensInv, Restart
  PROVE  TokensInv'
  <1>1. /\ states' = <<>> /\ call' = [w \in Worker |-> Idle]
        /\ UNCHANGED <<userVars, rows, flow, history>>
    BY DEF Restart
  <1>2. UsersOK' /\ StatesOK' /\ RowsOK' /\ OwnOK' /\ ChoiceOK'
    BY <1>1 DEF TokensInv, userVars, UsersOK, flow, history, StatesOK, RowsOK, IsOwn,
                OwnOK, ChoiceOK
  <1>3. TokensTypeOK'
    BY <1>1, IdleIsCall DEF TokensInv, TokensTypeOK, flow, history
  <1>4. \A w \in Worker : CallOK(w)' /\ \A u \in User : ReadOK(w, u)'
    BY <1>1 DEF CallOK, ReadOK, HasRead, Idle
  <1> QED
    BY <1>2, <1>3, <1>4 DEF TokensInv
-------------------------------------------------------------------------------
(* What a request of facebook_oauth_handler.go has read of its user's row is*)
(* what the row says, unless history has forgotten it; states are unused    *)
(* until they are dropped; and tokens are of consents of their users.       *)
THEOREM TokensInvariance == Spec => []TokensInv
  <1>1. TokensInv /\ [Next]_vars => TokensInv'
    <2> SUFFICES ASSUME TokensInv, [Next]_vars PROVE TokensInv'
      OBVIOUS
    <2>1. Caller \subseteq User
      BY CallerIsUser DEF TokensInv
    <2>2. CASE UsersNext /\ UNCHANGED tokenVars
      BY <2>2, UserSteps
    <2>3. ASSUME NEW u \in Caller, GetAuthURL(u) PROVE TokensInv'
      BY <2>1, <2>3, GetAuthURLStep
    <2>4. ASSUME NEW s \in DOMAIN states, StateExpires(s) PROVE TokensInv'
      BY <2>4, StateExpiresStep
    <2>5. ASSUME NEW w \in Worker, Serve(w) PROVE TokensInv'
      <3>1. ASSUME NEW u \in Caller, RefreshPages(w, u) \/ LinkPageURL(w, u)
            PROVE  TokensInv'
        BY <2>1, <3>1, Beginning
      <3>2. ASSUME NEW u \in Caller, NEW p \in Page, LinkPage(w, u, p)
            PROVE  TokensInv'
        BY <2>1, <3>2, Beginning
      <3>3. ASSUME NEW s \in DOMAIN states, NEW u \in Caller, Callback(w, s, u)
            PROVE  TokensInv'
        BY <2>1, <3>3, CallbackStep
      <3>4. CASE Exchange(w)
        BY <3>4, ExchangeStep
      <3>5. CASE GetToken(w)
        BY <3>5, GetTokenStep
      <3>6. CASE GetDemoToken(w)
        BY <3>6, GetDemoTokenStep
      <3>7. CASE CloneDemoToken(w)
        BY <3>7, CloneStep
      <3>8. CASE ResolvePage(w)
        BY <3>8, ResolvePageStep
      <3>9. CASE FetchPage(w) \/ FetchPages(w)
        BY <3>9, FetchSteps
      <3>10. CASE Store(w)
        BY <3>10, StoreStep
      <3>11. CASE CallFails(w)
        BY <3>11, CallFailsStep
      <3> QED
        BY <2>5, <3>1, <3>2, <3>3, <3>4, <3>5, <3>6, <3>7, <3>8, <3>9, <3>10, <3>11
        DEF Serve
    <2>6. CASE Restart
      BY <2>6, RestartStep
    <2>7. CASE UNCHANGED vars
      BY <2>7 DEF vars, tokenVars, memory, flow, history, userVars, TokensInv, UsersOK,
                  TokensTypeOK, StatesOK, RowsOK, IsOwn, CallOK, ReadOK, HasRead, OwnOK,
                  ChoiceOK
    <2> QED
      BY <2>2, <2>3, <2>4, <2>5, <2>6, <2>7 DEF Next
  <1> QED
    BY <1>1, TokensInitial, PTL DEF Spec

(* However often a callback is repeated, one passes.                       *)
THEOREM StatesAreUsedOnce == Spec => []StateUsedOnce
  <1>1. TokensInv => StateUsedOnce
    BY TokensAssumption DEF TokensInv, StatesOK, TokensTypeOK, StateUsedOnce
  <1> QED
    BY <1>1, TokensInvariance, PTL

(* The token of a row is of a consent of its user, or of demo-user.        *)
THEOREM RowsAreOwn == Spec => []TokensAreOwn
  <1>1. TokensInv => TokensAreOwn
    BY DEF TokensInv, RowsOK, IsOwn, TokensAreOwn
  <1> QED
    BY <1>1, TokensInvariance, PTL

(* An own token stays unless requests of its user overlap or fail.         *)
THEOREM OwnTokensAreKept == Spec => []OwnTokenKept
  <1>1. TokensInv => OwnTokenKept
    BY DEF TokensInv, OwnOK, OwnTokenKept
  <1> QED
    BY <1>1, TokensInvariance, PTL

(* So does a linked page, until the next consent or link.                  *)
THEOREM LinkedPagesStay == Spec => []LinkedPageStays
  <1>1. TokensInv => LinkedPageStays
    BY DEF TokensInv, ChoiceOK, LinkedPageStays
  <1> QED
    BY <1>1, TokensInvariance, PTL
===============================================================================
