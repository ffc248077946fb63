--------------------------------- MODULE Users ---------------------------------
(***************************************************************************)
(* Registration, login and the Auth middleware (usecase/user_usecase.go    *)
(* over persistence/user_repository.go, middleware/auth.go).               *)
(*                                                                         *)
(* The user table has no unique key but its id (changelog, table user):    *)
(* nothing keeps a name from being registered twice.  A login reads one of *)
(* the rows of the name, and the token it hands out carries the id of that *)
(* row beside the name; the middleware looks for a row of the name and     *)
(* takes the id from the token.                                            *)
(*                                                                         *)
(* Not modelled: hashing and signing.  A client has a password or not, and *)
(* a token is one that Login issued.                                       *)
(***************************************************************************)
EXTENDS Integers, Sequences, FiniteSets

CONSTANTS
    Name,      \* user names
    Password,
    MaxUsers   \* bound on registrations

ASSUME UsersAssumption == MaxUsers \in Nat

VARIABLES
    users,     \* rows of table user, by id
    sessions   \* tokens that were issued and have not expired: id and name

userVars == <<users, sessions>>

UsersInit == users = <<>> /\ sessions = {}

(* The rows GetByUserName may return.                                      *)
GetByUserName(n) == {i \in DOMAIN users : users[i].name = n}

Register(n, p) ==
    /\ Len(users) < MaxUsers
    /\ users' = Append(users, [name |-> n, password |-> p])
    /\ UNCHANGED sessions

(* The tokens Login may issue: for the row it has read, if its password is *)
(* the one given.                                                          *)
Issued(n, p) ==
    {[id |-> i, name |-> n] : i \in {k \in GetByUserName(n) : users[k].password = p}}

Login(n, p) ==
    /\ \E s \in Issued(n, p) : sessions' = sessions \cup {s}
    /\ UNCHANGED users

(* A token is good for 24 hours.                                           *)
SessionExpires ==
    /\ \E s \in sessions : sessions' = sessions \ {s}
    /\ UNCHANGED users

UsersNext ==
    \/ \E n \in Name, p \in Password : Register(n, p) \/ Login(n, p)
    \/ SessionExpires

(* Who may call: the user_id of a token whose name still has a row.        *)
Authenticated == {s.id : s \in {t \in sessions : GetByUserName(t.name) # {}}}
===============================================================================
