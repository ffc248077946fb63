------------------------------- MODULE PageTokens ------------------------------
(***************************************************************************)
(* Facebook consents and the token row of each user                        *)
(* (interfaces/http/facebook_oauth_handler.go over                         *)
(* persistence/oauth_token_repository.go), by concurrent requests of the   *)
(* users of module Users.                                                  *)
(*                                                                         *)
(* A consent starts with a state that GetAuthURL keeps in memory and ends  *)
(* in Callback, which stores a token under the user of the session that    *)
(* calls it back, and only if it has none under the user of the state, who *)
(* started the consent.  Linking a page reads the row of the user, asks    *)
(* Facebook for a token of the page and writes the whole row back; who has *)
(* no row adopts that of demo-user.                                        *)
(*                                                                         *)
(* Not modelled: the three exchanges of Callback one by one, as they only  *)
(* read from Facebook; Status; scopes and dates of a row.                  *)
(***************************************************************************)
EXTENDS Users

CONSTANTS
    Worker,      \* requests in progress
    Page,
    FirstPage,   \* what a list of pages may start with; NoPage if it is empty
    MaxConsents, \* bound on states
    MaxFaults    \* bound on failing calls and process stops

ASSUME TokensAssumption ==
    /\ IsFiniteSet(Worker)
    /\ {MaxConsents, MaxFaults} \subseteq Nat
    /\ 0 \notin Page
    /\ FirstPage \subseteq Page \cup {0}

Demo   == 0    \* the user id "demo-user", of callers without a token
NoPage == 0

VARIABLES
    states,    \* in memory: user and freshness of each pending state
    rows,      \* oauth_tokens, platform facebook, by user: the consent and
               \* the page of the access token
    call,      \* what each request is doing
    consents,  \* states given out
    used,      \* how many callbacks each state has let through
    starter,   \* who started each consent
    crossed,   \* consents called back in the session of somebody else
    own,       \* the consent whose token was last stored for each user, and
    choice,    \* the page each user was last told is linked: both are
               \* forgotten when the row changes while another request has it
               \* read, or when a call for this user fails
    faults

memory    == <<states, call>>
flow      == <<consents, used, starter, crossed>>
history   == <<own, choice>>
tokenVars == <<rows, memory, flow, history, faults>>
vars      == <<userVars, tokenVars>>

NoRow == [consent |-> 0, page |-> NoPage]
Idle  == [pc |-> "idle", op |-> "none", user |-> Demo, page |-> NoPage, tok |-> NoRow]

User == 0..MaxUsers

Init ==
    /\ UsersInit
    /\ states = <<>>
    /\ rows = <<>>
    /\ call = [w \in Worker |-> Idle]
    /\ consents = 0
    /\ used = [s \in 1..MaxConsents |-> 0]
    /\ starter = [s \in 1..MaxConsents |-> Demo]
    /\ crossed = {}
    /\ own = [u \in User |-> 0]
    /\ choice = [u \in User |-> NoPage]
    /\ faults = 0

Caller == Authenticated \cup {Demo}

Set(f, k, v) == [x \in DOMAIN f \cup {k} |-> IF x = k THEN v ELSE f[x]]

Begin(w, op, u, next) ==
    call' = [call EXCEPT ![w] = [Idle EXCEPT !.pc = next, !.op = op, !.user = u]]
Goto(w, next) == call' = [call EXCEPT ![w].pc = next]
Finish(w)     == call' = [call EXCEPT ![w] = Idle]

-------------------------------------------------------------------------------
(* Consents.                                                               *)

GetAuthURL(u) ==
    /\ consents < MaxConsents
    /\ consents' = consents + 1
    /\ states' = Set(states, consents', [user |-> u, fresh |-> TRUE])
    /\ starter' = [starter EXCEPT ![consents'] = u]
    /\ UNCHANGED <<userVars, rows, call, used, crossed, history, faults>>

StateExpires(s) ==
    /\ states[s].fresh
    /\ states' = [states EXCEPT ![s].fresh = FALSE]
    /\ UNCHANGED <<userVars, rows, call, flow, history, faults>>

(* Variant: the state stays.                                               *)
KeepState(s) == states' = states

(* Check and removal of a state are one critical section.                  *)
DropState(s) == states' = [t \in DOMAIN states \ {s} |-> states[t]]

(* Variant: only the session of the callback says whose token it is.       *)
CallbackUserOfSession(s, session) == session

(* The user of the callback's session, if it has one, else of the state.   *)
CallbackUser(s, session) == IF session # Demo THEN session ELSE states[s].user

(* A callback with an unknown or expired state is refused, and an expired  *)
(* state stays.                                                            *)
Callback(w, s, session) ==
    /\ call[w].pc = "idle"
    /\ states[s].fresh
    /\ DropState(s)
    /\ used' = [used EXCEPT ![s] = @ + 1]
    /\ crossed' = IF session \in {Demo, starter[s]} THEN crossed ELSE crossed \cup {s}
    /\ call' = [call EXCEPT ![w] = [Idle EXCEPT !.pc = "exchange", !.op = "callback",
                    !.user = CallbackUser(s, session), !.tok.consent = s]]
    /\ UNCHANGED <<userVars, rows, consents, starter, history, faults>>

(* The first page of the account, or the token of the user if it has none. *)
Exchange(w) ==
    /\ call[w].pc = "exchange"
    /\ \E p \in FirstPage :
           call' = [call EXCEPT ![w].pc = "upsert", ![w].tok.page = p]
    /\ UNCHANGED <<userVars, rows, states, flow, history, faults>>

-------------------------------------------------------------------------------
(* RefreshPages, LinkPage, LinkPageURL.                                    *)

RefreshPages(w, u) ==
    /\ call[w].pc = "idle"
    /\ Begin(w, "refresh", u, "read")
    /\ UNCHANGED <<userVars, rows, states, flow, history, faults>>

LinkPage(w, u, p) ==
    /\ call[w].pc = "idle"
    /\ call' = [call EXCEPT ![w] = [Idle EXCEPT !.pc = "read", !.op = "link",
                                                !.user = u, !.page = p]]
    /\ UNCHANGED <<userVars, rows, states, flow, history, faults>>

LinkPageURL(w, u) ==
    /\ call[w].pc = "idle"
    /\ Begin(w, "url", u, "read")
    /\ UNCHANGED <<userVars, rows, states, flow, history, faults>>

(* Variant: a refresh does not look at the page there is.                  *)
AfterReadAnyPage(op, row) ==
    CASE op = "refresh" -> "pages" [] op = "link" -> "page" [] op = "url" -> "resolve"

(* A refresh is over if there is a page.                                   *)
AfterRead(op, row) ==
    CASE op = "refresh" /\ row.page # NoPage -> "idle"
      [] op = "refresh" /\ row.page = NoPage -> "pages"
      [] op = "link" -> "page"
      [] op = "url"  -> "resolve"

(* Variant: a row without a page is not good enough.                       *)
HasPageToken(u) == u \in DOMAIN rows /\ rows[u].page # NoPage

HasToken(u) == u \in DOMAIN rows

(* No row, and no answer from the database, are the same to the handlers.  *)
NoToken(w) ==
    IF call[w].op \in {"link", "url"} /\ call[w].user # Demo
    THEN Goto(w, "adopt") ELSE Finish(w)

GetToken(w) ==
    /\ call[w].pc = "read"
    /\ IF HasToken(call[w].user)
       THEN LET row  == rows[call[w].user]
                next == AfterRead(call[w].op, row)
            IN  IF next = "idle" THEN Finish(w)
                ELSE call' = [call EXCEPT ![w].pc = next, ![w].tok = row]
       ELSE NoToken(w)
    /\ UNCHANGED <<userVars, rows, states, flow, history, faults>>

GetDemoToken(w) ==
    /\ call[w].pc = "adopt"
    /\ IF Demo \in DOMAIN rows
       THEN call' = [call EXCEPT ![w].pc = "clone", ![w].tok = rows[Demo]]
       ELSE Finish(w)
    /\ UNCHANGED <<userVars, rows, states, flow, history, faults>>

(* What a request of u goes on with, the row or its absence, is read.      *)
HasRead(x, u) ==
    /\ call[x].user = u
    /\ \/ call[x].pc \in {"pages", "page", "resolve", "adopt", "clone"}
       \/ call[x].pc = "upsert" /\ call[x].op # "callback"

(* INSERT ... ON CONFLICT (user_id, platform) DO UPDATE of all columns.    *)
UpsertToken(w) == rows' = Set(rows, call[w].user, call[w].tok)

Forget(u) ==
    /\ own' = [own EXCEPT ![u] = 0]
    /\ choice' = [choice EXCEPT ![u] = NoPage]

(* A consent stores a token of the user's own, and undoes an earlier link. *)
Note(w) ==
    LET u == call[w].user
    IN  IF \E x \in Worker \ {w} : HasRead(x, u)
        THEN Forget(u)
        ELSE CASE call[w].pc = "clone" -> UNCHANGED history
               [] call[w].op = "callback" ->
                      /\ own' = [own EXCEPT ![u] = call[w].tok.consent]
                      /\ choice' = [choice EXCEPT ![u] = NoPage]
               [] call[w].op = "refresh" -> UNCHANGED history
               [] OTHER -> /\ choice' = [choice EXCEPT ![u] = call[w].page]
                           /\ UNCHANGED own

CloneDemoToken(w) ==
    /\ call[w].pc = "clone"
    /\ UpsertToken(w)
    /\ Goto(w, IF call[w].op = "link" THEN "page" ELSE "resolve")
    /\ Note(w)
    /\ UNCHANGED <<userVars, states, flow, faults>>

ResolvePage(w) ==
    /\ call[w].pc = "resolve"
    /\ \E p \in Page : call' = [call EXCEPT ![w].pc = "page", ![w].op = "link",
                                              ![w].page = p]
    /\ UNCHANGED <<userVars, rows, states, flow, history, faults>>

(* Token, id, name and type are those of the page.                         *)
OfPage(tok, p) == [tok EXCEPT !.page = p]

FetchPage(w) ==
    /\ call[w].pc = "page"
    /\ call' = [call EXCEPT ![w].pc = "upsert", ![w].tok = OfPage(@, call[w].page)]
    /\ UNCHANGED <<userVars, rows, states, flow, history, faults>>

FetchPages(w) ==
    /\ call[w].pc = "pages"
    /\ \/ Finish(w)      \* still no pages
       \/ \E p \in FirstPage \ {NoPage} :
              call' = [call EXCEPT ![w].pc = "upsert", ![w].tok = OfPage(@, p)]
    /\ UNCHANGED <<userVars, rows, states, flow, history, faults>>

Store(w) ==
    /\ call[w].pc = "upsert"
    /\ UpsertToken(w)
    /\ Note(w)
    /\ Finish(w)
    /\ UNCHANGED <<userVars, states, flow, faults>>

-------------------------------------------------------------------------------
Fault == faults < MaxFaults /\ faults' = faults + 1

(* A read of the row fails: taken for a missing row.  Any other failing    *)
(* call ends the request; a write may have been made all the same.         *)
CallFails(w) ==
    /\ Fault
    /\ Forget(call[w].user)
    /\ \/ call[w].pc = "read" /\ NoToken(w) /\ UNCHANGED rows
       \/ call[w].pc \notin {"idle", "read"} /\ Finish(w) /\ UNCHANGED rows
       \/ call[w].pc \in {"clone", "upsert"} /\ UpsertToken(w) /\ Finish(w)
    /\ UNCHANGED <<userVars, states, flow>>

(* The process stops and starts again: states are in its memory only.      *)
Restart ==
    /\ Fault
    /\ states' = <<>>
    /\ call' = [w \in Worker |-> Idle]
    /\ UNCHANGED <<userVars, rows, flow, history>>

Serve(w) ==
    \/ \E u \in Caller : RefreshPages(w, u) \/ LinkPageURL(w, u)
    \/ \E u \in Caller, p \in Page : LinkPage(w, u, p)
    \/ \E s \in DOMAIN states, u \in Caller : Callback(w, s, u)
    \/ Exchange(w)
    \/ GetToken(w)
    \/ GetDemoToken(w)
    \/ CloneDemoToken(w)
    \/ ResolvePage(w)
    \/ FetchPage(w)
    \/ FetchPages(w)
    \/ Store(w)
    \/ CallFails(w)

Next ==
    \/ UsersNext /\ UNCHANGED tokenVars
    \/ \E u \in Caller : GetAuthURL(u)
    \/ \E s \in DOMAIN states : StateExpires(s)
    \/ \E w \in Worker : Serve(w)
    \/ Restart

Spec == Init /\ [][Next]_vars
-------------------------------------------------------------------------------
(* A state lets one callback through, whoever repeats it and whenever.     *)
StateUsedOnce == \A s \in 1..consents : used[s] <= 1

(* A user's token comes from a consent that this user started, or failing  *)
(* that demo-user: whatever is raced, repeated or adopted, no row gets the *)
(* token of another user's consent.  Excepted are consents called back in  *)
(* the session of somebody else, see TokenOfStarter.                       *)
TokensAreOwn ==
    \A u \in DOMAIN rows :
        starter[rows[u].consent] \in {u, Demo} \/ rows[u].consent \in crossed

(* "Capture the current authenticated user (if any) so callback can store  *)
(* token under correct user_id" (facebook_oauth_handler.go:64) and "Prefer *)
(* userID captured at auth-url generation" (108): the same of every        *)
(* consent, in whatever session it is called back.                         *)
TokenOfStarter ==
    \A u \in DOMAIN rows : starter[rows[u].consent] \in {u, Demo}

(* The token a user was given by a callback stays until the next callback  *)
(* for this user: page links and refreshes keep its consent, and the token *)
(* of demo-user does not replace it, unless a call of this user fails (a   *)
(* failing read is taken for a missing row), or stores a token while       *)
(* another call of this user goes on with what it has read.                *)
OwnTokenKept ==
    \A u \in User : own[u] # 0 => u \in DOMAIN rows /\ rows[u].consent = own[u]

(* The page a user was told is linked stays until the next consent or      *)
(* link, unless requests of this user overlap or fail.                     *)
LinkedPageStays ==
    \A u \in User : choice[u] # NoPage => rows[u].page = choice[u]
===============================================================================
