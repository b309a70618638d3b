------------------------------- MODULE Accounts -------------------------------
(***************************************************************************)
(* Accounts of the console: registration, sign-in with a password or with  *)
(* Google, sessions, and the single-use tokens behind email verification   *)
(* and password reset.  Every request is a sequence of Postgres            *)
(* statements; requests run side by side and may end after any statement,  *)
(* because the statement is rejected or the instance stops.                *)
(*                                                                         *)
(* An account is named by its email (users.email is UNIQUE and no route    *)
(* changes or deletes a user).  A password is the number of times it was   *)
(* written; a password a caller types is the current one or is refused,    *)
(* which changes nothing and is left out.                                  *)
(***************************************************************************)
EXTENDS Naturals, Sequences, FiniteSets

CONSTANTS
    Emails,
    Subs,         \* stable account ids of the identity provider
    Callers,      \* requests, each of which is made once
    MaxTokens     \* bound on the tokens issued

ASSUME AccountsAssumption == IsFiniteSet(Callers)

VARIABLES
    users,        \* users: Emails -|-> [pw, verified]; pw = 0 is a NULL password_hash
    sessions,     \* sessions: the rows, in the order they were inserted
    tokens,       \* email_verification_tokens and password_reset_tokens
    links,        \* oauth_accounts: Subs -|-> [user, fresh]
    caller,       \* caller[r]: where request r stands and what it has read
    vouched,      \* history: <<sub, email>> pairs asserted with email_verified = true
    resetTo       \* history: resetTo[e]: the password of the last reset of e that answered

accountTables == <<users, sessions, tokens, links>>
accountHistory == <<vouched, resetTo>>
accountVars == <<accountTables, caller, accountHistory>>

Accounts == DOMAIN users
Idle == [at |-> "idle"]
Done == [at |-> "done"]
Goes(r, next) == caller' = [caller EXCEPT ![r] = next]
Put(f, k, v) == [x \in DOMAIN f \cup {k} |-> IF x = k THEN v ELSE f[x]]

AccountsInit ==
    /\ users = << >> /\ links = << >>
    /\ sessions = << >> /\ tokens = << >>
    /\ caller = [r \in Callers |-> Idle]
    /\ vouched = {} /\ resetTo = [e \in Emails |-> 0]
-----------------------------------------------------------------------------
(* Sessions: a row rests on the password its request read; late says that  *)
(* this password was superseded before the row was inserted.               *)

OpenSession(r) ==
    LET c == caller[r] IN
    /\ c.at = "openSession"
    /\ sessions' = Append(sessions,
           [user |-> c.user, pw |-> c.pw, late |-> users[c.user].pw # c.pw, live |-> TRUE])
    /\ Goes(r, IF c.welcome THEN [at |-> "issueVerify", user |-> c.user] ELSE Done)
    /\ UNCHANGED <<users, tokens, links, accountHistory>>

Opening(e, pw, welcome) == [at |-> "openSession", user |-> e, pw |-> pw, welcome |-> welcome]

Logout(s) ==
    /\ sessions[s].live
    /\ sessions' = [sessions EXCEPT ![s].live = FALSE]
    /\ UNCHANGED <<users, tokens, links, caller, accountHistory>>
-----------------------------------------------------------------------------
(* POST /v1/auth/register and /v1/auth/login.                              *)

Register(r, e) ==
    /\ caller[r] = Idle
    /\ Goes(r, IF e \in Accounts THEN Done ELSE [at |-> "insertUser", user |-> e])
    /\ UNCHANGED <<accountTables, accountHistory>>

\* The UNIQUE index decides between two registrations that both passed the pre-check.
RegisterInsert(r) ==
    LET e == caller[r].user IN
    /\ caller[r].at = "insertUser"
    /\ IF e \in Accounts
       THEN Goes(r, Done) /\ UNCHANGED users
       ELSE /\ users' = Put(users, e, [pw |-> 1, verified |-> FALSE])
            /\ Goes(r, Opening(e, 1, TRUE))
    /\ UNCHANGED <<sessions, tokens, links, accountHistory>>

IssueVerification(r) ==
    /\ caller[r].at = "issueVerify"
    /\ Len(tokens) < MaxTokens
    /\ tokens' = Append(tokens, [user |-> caller[r].user, kind |-> "verify", used |-> FALSE])
    /\ Goes(r, Done)
    /\ UNCHANGED <<users, sessions, links, accountHistory>>

Login(r, e) ==
    /\ caller[r] = Idle
    /\ e \in Accounts /\ users[e].pw # 0
    /\ Goes(r, Opening(e, users[e].pw, FALSE))
    /\ UNCHANGED <<accountTables, accountHistory>>
-----------------------------------------------------------------------------
(* POST /v1/auth/verify-email, request-password-reset and reset-password.  *)

RequestReset(e) ==
    /\ e \in Accounts
    /\ Len(tokens) < MaxTokens
    /\ tokens' = Append(tokens, [user |-> e, kind |-> "reset", used |-> FALSE])
    /\ UNCHANGED <<users, sessions, links, caller, accountHistory>>

\* Mutant of LiveToken: used_at is not looked at.
LiveTokenUsedTwice(t) == t \in DOMAIN tokens

LiveToken(t) == t \in DOMAIN tokens /\ ~tokens[t].used

\* Mutant of ResetSteps: the sessions are revoked before the password is written.
ResetStepsRevokeFirst == <<"revokeAll", "setPassword">>

ResetSteps == <<"setPassword", "revokeAll">>

Steps(kind) == IF kind = "verify" THEN <<"markVerified">> ELSE ResetSteps

\* One UPDATE ... RETURNING: of two requests with one token, one gets the user.
ConsumeToken(r, t) ==
    /\ caller[r] = Idle
    /\ LiveToken(t)
    /\ tokens' = [tokens EXCEPT ![t].used = TRUE]
    /\ Goes(r, [at |-> "consumed", user |-> tokens[t].user, pw |-> 0,
                todo |-> Steps(tokens[t].kind)])
    /\ UNCHANGED <<users, sessions, links, accountHistory>>

Owes(r, step) == caller[r].at = "consumed" /\ Head(caller[r].todo) = step

\* The request did a step and wrote or knows password pw; it answers after its last one.
StepDone(r, pw) ==
    LET c == caller[r] IN
    /\ Goes(r, IF Len(c.todo) = 1 THEN Done
               ELSE [c EXCEPT !.pw = pw, !.todo = Tail(@)])
    /\ resetTo' = IF Len(c.todo) = 1 /\ pw > resetTo[c.user]
                  THEN [resetTo EXCEPT ![c.user] = pw] ELSE resetTo
    /\ UNCHANGED <<links, tokens, vouched>>

MarkEmailVerified(r) ==
    /\ Owes(r, "markVerified")
    /\ users' = [users EXCEPT ![caller[r].user].verified = TRUE]
    /\ StepDone(r, 0)
    /\ UNCHANGED sessions

SetUserPassword(r) ==
    LET e == caller[r].user IN
    /\ Owes(r, "setPassword")
    /\ users' = [users EXCEPT ![e].pw = @ + 1]
    /\ StepDone(r, users[e].pw + 1)
    /\ UNCHANGED sessions

RevokeAllUserSessions(r) ==
    /\ Owes(r, "revokeAll")
    /\ sessions' = [s \in DOMAIN sessions |->
           [sessions[s] EXCEPT !.live = @ /\ sessions[s].user # caller[r].user]]
    /\ StepDone(r, caller[r].pw)
    /\ UNCHANGED users
-----------------------------------------------------------------------------
(* GET /v1/auth/google/callback with a matching state: the provider says   *)
(* who the caller is and whether it has verified the address.              *)

\* email_verified of the provider's answer, which was once a string; exchange takes nothing
\* but the boolean for true.
EmailClaims == {"true", "the string true", "false", "absent"}
EmailVerified(claim) == claim = "true"

Callback(r, sub, e, claim) ==
    LET sure == EmailVerified(claim) IN
    /\ caller[r] = Idle
    /\ vouched' = IF sure THEN vouched \cup {<<sub, e>>} ELSE vouched
    /\ Goes(r, IF sub \in DOMAIN links
               THEN Opening(links[sub].user, users[links[sub].user].pw, FALSE)
               ELSE [at |-> "findEmail", user |-> e, sub |-> sub, sure |-> sure])
    /\ UNCHANGED <<accountTables, resetTo>>

Linking(c, pw, fresh) ==
    [at |-> "insertLink", user |-> c.user, sub |-> c.sub, pw |-> pw, fresh |-> fresh]

\* An address that has an account is linked only when the provider has verified it.
FindByEmail(r) ==
    LET c == caller[r] IN
    /\ c.at = "findEmail"
    /\ IF c.user \notin Accounts
       THEN Goes(r, [c EXCEPT !.at = "createUser"]) /\ UNCHANGED users
       ELSE IF ~c.sure
       THEN Goes(r, Done) /\ UNCHANGED users
       ELSE /\ users' = [users EXCEPT ![c.user].verified = TRUE]
            /\ Goes(r, Linking(c, users[c.user].pw, FALSE))
    /\ UNCHANGED <<sessions, tokens, links, accountHistory>>

\* The address may have been registered since the lookup: the insert then fails.
CreateOAuthUser(r) ==
    LET c == caller[r] IN
    /\ c.at = "createUser"
    /\ IF c.user \in Accounts
       THEN Goes(r, Done) /\ UNCHANGED users
       ELSE /\ users' = Put(users, c.user, [pw |-> 0, verified |-> c.sure])
            /\ Goes(r, Linking(c, 0, TRUE))
    /\ UNCHANGED <<sessions, tokens, links, accountHistory>>

InsertLink(r) ==
    LET c == caller[r] IN
    /\ c.at = "insertLink"
    /\ IF c.sub \in DOMAIN links
       THEN Goes(r, Done) /\ UNCHANGED links
       ELSE /\ links' = Put(links, c.sub, [user |-> c.user, fresh |-> c.fresh])
            /\ Goes(r, Opening(c.user, c.pw, FALSE))
    /\ UNCHANGED <<users, sessions, tokens, accountHistory>>
-----------------------------------------------------------------------------
\* A statement is rejected, or the instance stops: what was written stays written.
StopCaller(r) ==
    /\ caller[r] \notin {Idle, Done}
    /\ Goes(r, Done)
    /\ UNCHANGED <<accountTables, accountHistory>>

CallerStep(r) ==
    \/ OpenSession(r) \/ RegisterInsert(r) \/ IssueVerification(r)
    \/ MarkEmailVerified(r) \/ SetUserPassword(r) \/ RevokeAllUserSessions(r)
    \/ FindByEmail(r) \/ CreateOAuthUser(r) \/ InsertLink(r) \/ StopCaller(r)

CallerArrives(r) ==
    \/ \E e \in Emails : Register(r, e) \/ Login(r, e)
    \/ \E t \in DOMAIN tokens : ConsumeToken(r, t)
    \/ \E sub \in Subs, e \in Emails, claim \in EmailClaims : Callback(r, sub, e, claim)

AccountsNext ==
    \/ \E r \in Callers : CallerArrives(r) \/ CallerStep(r)
    \/ \E e \in Emails : RequestReset(e)
    \/ \E s \in DOMAIN sessions : Logout(s)

AccountsSpec == AccountsInit /\ [][AccountsNext]_accountVars
-----------------------------------------------------------------------------
AccountsTypeOK ==
    /\ Accounts \subseteq Emails
    /\ \A e \in Accounts : users[e] \in [pw : Nat, verified : BOOLEAN]
    /\ \A s \in DOMAIN sessions :
           sessions[s] \in [user : Accounts, pw : Nat, late : BOOLEAN, live : BOOLEAN]
    /\ \A t \in DOMAIN tokens :
           tokens[t] \in [user : Accounts, kind : {"verify", "reset"}, used : BOOLEAN]
    /\ DOMAIN links \subseteq Subs
    /\ \A sub \in DOMAIN links : links[sub] \in [user : Accounts, fresh : BOOLEAN]
    /\ vouched \subseteq Subs \X Emails
    /\ resetTo \in [Emails -> Nat]

Used(e, kind) == {t \in DOMAIN tokens : tokens[t] = [user |-> e, kind |-> kind, used |-> TRUE]}

(* Whatever an account has was proved by somebody: its password was written*)
(* once at registration and then once for each reset token that was spent; *)
(* its address was verified by a spent token or by the identity provider;  *)
(* and a provider's account is linked to an account it did not create only *)
(* when the provider has verified that very address.  Two registrations, a *)
(* registration and a callback, or two uses of a token may overlap, and    *)
(* nothing but the unique indexes and the UPDATE of consumeToken decides.  *)
AccountsAreBacked ==
    /\ AccountsTypeOK
    /\ \A e \in Accounts :
           /\ users[e].pw <= 1 + Cardinality(Used(e, "reset"))
           /\ users[e].verified => Used(e, "verify") # {} \/ \E p \in vouched : p[2] = e
    /\ \A sub \in DOMAIN links : links[sub].fresh \/ <<sub, links[sub].user>> \in vouched

(* A reset that answered leaves no session on an older password alive,     *)
(* except one whose login had read the account before the reset wrote it   *)
(* and inserted its row afterwards: writing the password first and revoking*)
(* second leaves only that window open.                                    *)
ResetEndsOlderSessions ==
    \A s \in DOMAIN sessions :
        sessions[s].live /\ sessions[s].pw < resetTo[sessions[s].user] => sessions[s].late
=============================================================================
