------------------------------ MODULE Sessions ------------------------------
(*************************************************************************)
(* app/api/auth.py, app/core/security.py and get_current_user of         *)
(* app/dependencies.py: a client that logs in and out and calls, with a  *)
(* token it sends itself or as a cookie, while an administrator changes  *)
(* passwords and deactivates accounts. Tokens are nowhere in the         *)
(* database: what ends one is its time, or the account.                  *)
(*************************************************************************)
EXTENDS Integers

CONSTANTS
  Accounts, Passwords,
  Lifetime,  \* access_token_expire_minutes
  MaxTime,   \* bound of the clock
  NoToken,
  Never,
  Address    \* client_ip_identifier

ASSUME SessionAssumption ==
  /\ Lifetime \in Nat \ {0} /\ MaxTime \in Nat
  /\ Never \notin Nat
  /\ Address \notin Accounts
  /\ NoToken \notin [sub : Accounts, exp : Nat, proved : Nat \cup {Never}]

VARIABLES
  now,
  account,  \* the rows of users
  bearer,   \* the token the client sends as a header
  cookie,   \* access_token
  login,    \* a login in progress: the account and the password given
  call,     \* a call: its token, and whom it is counted and served as
  stage     \* next steps of the login and of the call

sessionsVars == <<now, account, bearer, cookie, login, call, stage>>

Times == 0..MaxTime
AccountRow == [password : Passwords, active : BOOLEAN]

\* proved is when the client had shown that it knew the password of an active
\* account; the code does not know it.
Token == [sub : Accounts, exp : 0..(MaxTime + Lifetime), proved : Times \cup {Never}]

NoLogin == [sub |-> Never, password |-> Never, row |-> Never]
NoCall == [token |-> NoToken, at |-> 0, alive |-> FALSE,
           counted |-> Address, served |-> Never]

SessionsInit ==
  /\ now = 0
  /\ account \in [Accounts -> AccountRow]
  /\ bearer = NoToken
  /\ cookie = NoToken
  /\ login = NoLogin
  /\ call = NoCall
  /\ stage = [login |-> "idle", call |-> "idle"]

Goto(process, step) == stage' = [stage EXCEPT ![process] = step]

---------------------------------------------------------------------------
Tick ==
  /\ now < MaxTime
  /\ now' = now + 1
  /\ UNCHANGED <<account, bearer, cookie, login, call, stage>>

\* update_user sets a password, or activates or deactivates.
ChangeAccount(user) ==
  /\ \E row \in AccountRow : account' = [account EXCEPT ![user] = row]
  /\ account' # account
  /\ call' = [call EXCEPT !.alive =
                @ \/ (call.token # NoToken /\ account'[call.token.sub].active)]
  /\ UNCHANGED <<now, bearer, cookie, login, stage>>

---------------------------------------------------------------------------
\* login and login_cookie read the account.
LogIn(user, password) ==
  /\ stage.login = "idle"
  /\ login' = [sub |-> user, password |-> password, row |-> account[user]]
  /\ Goto("login", "verifying")
  /\ UNCHANGED <<now, account, bearer, cookie, call>>

\* verify_password and is_active
Accepts == login.password = login.row.password /\ login.row.active

\* create_access_token
Issued ==
  [sub |-> login.sub, exp |-> now + Lifetime,
   proved |-> IF login.row = [password |-> login.password, active |-> TRUE]
                THEN now ELSE Never]

\* The answer: a token, as a body or as a cookie.
EndLogin ==
  /\ stage.login = "verifying"
  /\ Goto("login", "idle")
  /\ IF Accepts
       THEN \/ bearer' = Issued /\ UNCHANGED cookie
            \/ cookie' = Issued /\ UNCHANGED bearer
       ELSE UNCHANGED <<bearer, cookie>>
  /\ login' = NoLogin
  /\ UNCHANGED <<now, account, call>>

\* Nothing but the cookie goes.
LogOut ==
  /\ cookie' = NoToken
  /\ UNCHANGED <<now, account, bearer, login, call, stage>>

\* The client forgets the token it sends itself.
Forget ==
  /\ bearer' = NoToken
  /\ UNCHANGED <<now, account, cookie, login, call, stage>>

---------------------------------------------------------------------------
\* _extract_token
Extracted == IF bearer # NoToken THEN bearer ELSE cookie

\* Faulty variant: the limiter looks at the cookie first.
IdentifiedByCookie == IF cookie # NoToken THEN cookie ELSE bearer

\* The token the limiter sees.
Identified == Extracted

\* Faulty variant: a token is for ever.
DecodesForEver(token) == token # NoToken

\* decode_token
Decodes(token) == token # NoToken /\ token.exp > now

\* The call arrives, and user_identifier says whom the rate limit counts.
Call ==
  /\ stage.call = "idle"
  /\ call' = [token |-> Extracted, at |-> now,
              alive |-> Extracted # NoToken /\ account[Extracted.sub].active,
              counted |-> IF Decodes(Identified) THEN Identified.sub ELSE Address,
              served |-> Never]
  /\ Goto("call", "counted")
  /\ UNCHANGED <<now, account, bearer, cookie, login>>

\* get_current_user decodes the token,
Decode ==
  /\ stage.call = "counted"
  /\ IF Decodes(call.token)
       THEN call' = [call EXCEPT !.at = now] /\ Goto("call", "decoded")
       ELSE call' = NoCall /\ Goto("call", "idle")
  /\ UNCHANGED <<now, account, bearer, cookie, login>>

\* Faulty variant: the token is enough.
AdmitsAnyone == TRUE

\* and reads the account.
Admits == account[call.token.sub].active

ReadUser ==
  /\ stage.call = "decoded"
  /\ IF Admits
       THEN call' = [call EXCEPT !.served = call.token.sub] /\ Goto("call", "served")
       ELSE call' = NoCall /\ Goto("call", "idle")
  /\ UNCHANGED <<now, account, bearer, cookie, login>>

Answered ==
  /\ stage.call = "served"
  /\ Goto("call", "idle")
  /\ call' = NoCall
  /\ UNCHANGED <<now, account, bearer, cookie, login>>

---------------------------------------------------------------------------
SessionsNext ==
  \/ Tick
  \/ \E user \in Accounts : ChangeAccount(user)
  \/ \E user \in Accounts, password \in Passwords : LogIn(user, password)
  \/ EndLogin \/ LogOut \/ Forget
  \/ Call \/ Decode \/ ReadUser \/ Answered

SessionsSpec == SessionsInit /\ [][SessionsNext]_sessionsVars

---------------------------------------------------------------------------
\* Every field keeps its type.
SessionsTypeOK ==
  /\ now \in Times
  /\ account \in [Accounts -> AccountRow]
  /\ {bearer, cookie} \subseteq Token \cup {NoToken}
  /\ login = NoLogin \/ login \in [sub : Accounts, password : Passwords, row : AccountRow]
  /\ call \in [token : Token \cup {NoToken}, at : Times, alive : BOOLEAN,
              counted : Accounts \cup {Address}, served : Accounts \cup {Never}]
  /\ stage \in [login : {"idle", "verifying"},
                call : {"idle", "counted", "decoded", "served"}]

\* Who is served is who the rate limit counted, although the token is looked at
\* twice and may expire in between (dependencies.py:24-58).
CountedAsServed == stage.call = "served" => call.counted = call.served

\* No token that a client holds, or calls with, has more than Lifetime left.
TokensEnd ==
  \A token \in {bearer, cookie, call.token} : token # NoToken => token.exp <= now + Lifetime

\* A client is let in only less than Lifetime after a login in which it gave the
\* password the account had, active, when the login read it.
ServedByPassword ==
  stage.call = "served" =>
    /\ call.token.proved # Never
    /\ call.at - call.token.proved < Lifetime

\* A password ends with the tokens it gave: what is issued is good for a limited
\* time, and for who gave a password. When the password changes, before the token
\* is issued or after, or the account comes back, the token stays good until it
\* ends (auth.py:55-60, security.py:21-34).
LetInByPassword ==
  /\ SessionsTypeOK
  /\ TokensEnd
  /\ ServedByPassword

\* An account that was inactive all through a call does not make it, whatever
\* tokens it has (dependencies.py:67-70).
InactiveIsOut == stage.call = "served" => call.alive

===========================================================================
