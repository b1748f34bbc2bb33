------------------------------ MODULE Sessions ------------------------------
(***************************************************************************)
(* Accounts and browser sessions: the auth endpoints of backend/main.py    *)
(* (register, login, refresh, logout, logout-all) over the lockout         *)
(* counters and the refresh-token rows of backend/services/auth_service.py.*)
(* Requests run concurrently against PostgreSQL at READ COMMITTED: a       *)
(* statement sees the rows committed when it starts, waits for the rows    *)
(* other transactions hold, and a deadlock is broken by aborting one of    *)
(* them. Any party that was sent a token may present it, any number of     *)
(* times. A token's row is a member of the sequence "tokens", its number   *)
(* the token; a family is named by its first token. The lockout counters   *)
(* are in the memory of the process that serves the login, one for every   *)
(* e-mail and client address (_rate_key).                                  *)
(* Left out: password hash formats (login's silent upgrade of an old hash  *)
(* touches nothing else), the breach warning, and User.is_active, which no *)
(* code clears.                                                            *)
(***************************************************************************)
EXTENDS Naturals, FiniteSets, Sequences, FiniteSetsExt, Relation

CONSTANTS Users,            \* e-mails somebody may register
          Processes,        \* the processes that serve, each with its own maps
          Addresses,        \* client addresses a login may come from
          Requests,         \* slots for requests that run at once
          MaxAttempts,      \* _MAX_ATTEMPTS
          FailWindow,       \* _FAIL_WINDOW_SECONDS
          LockoutSeconds,   \* _LOCKOUT_SECONDS
          RefreshSeconds,   \* REFRESH_TOKEN_SECONDS
          AbsoluteSeconds,  \* REFRESH_ABSOLUTE_SESSION_SECONDS
          JwtSeconds,       \* JWT_EXPIRE_SECONDS
          MaxTokens, MaxNow,  \* bounds
          MaxStarts         \* bound on a behaviour's requests and crashes

ASSUME SessionsAssumption ==
    /\ {MaxAttempts, FailWindow, LockoutSeconds} \subseteq Nat \ {0}
    /\ {RefreshSeconds, AbsoluteSeconds, JwtSeconds} \subseteq Nat \ {0}
    /\ {MaxTokens, MaxNow, MaxStarts} \subseteq Nat
    /\ FailWindow <= LockoutSeconds
    /\ IsFiniteSet(Requests)

VARIABLES now,
          accounts,   \* committed users rows
          keyed,      \* accounts whose key pairs are committed
          fails,      \* _FAIL_ATTEMPTS of every process: the times of failures
          lockedTill, \* _LOCKED_UNTIL, 0 when absent
          tokens,     \* refresh_tokens: the committed rows
          known,      \* tokens that a response carried to a client
          cached,     \* token hashes cached in Redis
          access,     \* per account: when its newest access token expires
          req,        \* the running requests
          wrong,      \* history: per counter, recent wrong guesses since the last
                      \* success, or since its process started
          ended,      \* history: families a revocation has ended
          raced,      \* history: families given a row while being revoked
          starts

db    == <<accounts, keyed, tokens>>
guard == <<fails, lockedTill, wrong>>
hist  == <<ended, raced>>
vars  == <<now, db, guard, known, cached, access, req, hist, starts>>

Row(u, f, t) == [user |-> u, family |-> f, created |-> t, used |-> FALSE, revoked |-> FALSE]

(* _rate_key, in the maps of one process *)
Counters == Processes \X Users \X Addresses

Idle == [loc |-> "idle", at |-> "none", user |-> "none", from |-> "none",
         tok |-> 0, old |-> 0, held |-> {}, todo |-> {}]

Init ==
    /\ now = 1
    /\ accounts = {} /\ keyed = {} /\ tokens = <<>>
    /\ fails = [c \in Counters |-> <<>>] /\ lockedTill = [c \in Counters |-> 0]
    /\ wrong = [c \in Counters |-> <<>>]
    /\ known = {} /\ cached = {}
    /\ access = [u \in Users |-> 0]
    /\ req = [r \in Requests |-> Idle]
    /\ ended = {} /\ raced = {}
    /\ starts = 0

-----------------------------------------------------------------------------
(* Requests and row locks *)

Begin(r, rec) ==
    /\ req[r] = Idle /\ starts < MaxStarts
    /\ req' = [req EXCEPT ![r] = rec]
    /\ starts' = starts + 1

(* Keeps the tokens issued within MaxTokens.                               *)
RoomForToken ==
    Len(tokens) + Cardinality({q \in Requests : req[q].loc \in {"verify", "issue", "read", "rotate"}})
        < MaxTokens

Goto(r, loc) == req' = [req EXCEPT ![r].loc = loc]

(* The session is not closed (mutant of Return). *)
ReturnHolding(r) == req' = [req EXCEPT ![r] = [Idle EXCEPT !.held = req[r].held]]

(* get_db closes the session when the handler returns or raises: what is   *)
(* not committed is undone, and the row locks are released.                *)
Return(r) == req' = [req EXCEPT ![r] = Idle]

(* The row is read without FOR UPDATE (mutant of LockedByOther). *)
RowsNeverLocked(r, t) == FALSE

(* with_for_update, and the row locks of UPDATE *)
LockedByOther(r, t) == \E q \in Requests \ {r} : t \in req[q].held

(* A statement locks the rows it is to change or to read FOR UPDATE, one   *)
(* at a time.                                                              *)
LockRow(r) ==
    /\ \E t \in req[r].todo \ req[r].held :
          /\ ~LockedByOther(r, t)
          /\ req' = [req EXCEPT ![r].held = @ \cup {t}]
    /\ UNCHANGED <<now, db, guard, known, cached, access, hist, starts>>

HasItsRows(r) == req[r].todo \subseteq req[r].held

WaitsForItself(r) ==
    LET waits == [a, b \in Requests |->
                    a # b /\ (req[a].todo \ req[a].held) \cap req[b].held # {}]
    IN  TransitiveClosure(waits, Requests)[r, r]

(* PostgreSQL aborts a transaction that waits for itself; the handler does *)
(* not catch that, so the request fails with its changes undone.           *)
DeadlockAbort(r) ==
    /\ ~HasItsRows(r) /\ WaitsForItself(r)
    /\ Return(r)
    /\ UNCHANGED <<now, db, guard, known, cached, access, hist, starts>>

-----------------------------------------------------------------------------
(* register: the address is looked up, then the keys are made, then the    *)
(* row is committed, if the unique constraint allows it, then the keys. An *)
(* address found taken is answered 409 and changes nothing.                *)
RegisterLookup(r, u) ==
    /\ u \notin accounts
    /\ Begin(r, [Idle EXCEPT !.loc = "register", !.user = u])
    /\ UNCHANGED <<now, db, guard, known, cached, access, hist>>

RegisterCommit(r) ==
    LET u == req[r].user
    IN  /\ req[r].loc = "register"
        /\ IF u \in accounts
           THEN Return(r) /\ UNCHANGED accounts
           ELSE Goto(r, "keys") /\ accounts' = accounts \cup {u}
        /\ UNCHANGED <<now, keyed, tokens, guard, known, cached, access, hist, starts>>

RegisterKeys(r) ==
    /\ req[r].loc = "keys"
    /\ keyed' = keyed \cup {req[r].user}
    /\ Return(r)
    /\ UNCHANGED <<now, accounts, tokens, guard, known, cached, access, hist, starts>>

-----------------------------------------------------------------------------
(* login *)

(* The times are in order, so those out of the window come first.          *)
Recent(times) ==
    LET old == {i \in DOMAIN times : now - times[i] >= FailWindow}
    IN  SubSeq(times, Cardinality(old) + 1, Len(times))

(* The maps of the process are cleared of what no longer matters, then the *)
(* counter's own failures of its old ones.                                 *)
ExpireLockoutState(p) ==
    [fails  |-> [c \in Counters |-> IF c[1] = p THEN Recent(fails[c]) ELSE fails[c]],
     locked |-> [c \in Counters |-> IF c[1] # p \/ now < lockedTill[c] THEN lockedTill[c] ELSE 0]]

(* A locked counter is answered 429 before the password is looked at.      *)
CheckRateLimit(r, p, u, a) ==
    LET s == ExpireLockoutState(p)
    IN  /\ RoomForToken
        /\ fails' = s.fails /\ lockedTill' = s.locked
        /\ IF s.locked[p, u, a] > 0
           THEN req[r] = Idle /\ UNCHANGED <<req, starts>>
           ELSE Begin(r, [Idle EXCEPT !.loc = "verify", !.at = p, !.user = u, !.from = a])
        /\ UNCHANGED <<now, db, wrong, known, cached, access, hist>>

RecordFailedAttemptUnlocked(c) ==
    LET s == ExpireLockoutState(c[1])
    IN  /\ fails' = [s.fails EXCEPT ![c] = Append(@, now)]
        /\ lockedTill' = s.locked

RecordFailedAttempt(c) ==
    LET s     == ExpireLockoutState(c[1])
        times == Append(s.fails[c], now)
        full  == Len(times) >= MaxAttempts
    IN  /\ fails' = [s.fails EXCEPT ![c] = IF full THEN <<>> ELSE times]
        /\ lockedTill' = [s.locked EXCEPT ![c] = IF full THEN now + LockoutSeconds ELSE @]

ClearFailedAttempts(c) ==
    /\ fails' = [fails EXCEPT ![c] = <<>>]
    /\ lockedTill' = [lockedTill EXCEPT ![c] = 0]

(* The counter of the login that r serves *)
CounterOf(r) == <<req[r].at, req[r].user, req[r].from>>

LoginFails(r) ==
    /\ req[r].loc = "verify"
    /\ RecordFailedAttempt(CounterOf(r))
    /\ wrong' = [wrong EXCEPT ![CounterOf(r)] = Append(Recent(@), now)]
    /\ Return(r)
    /\ UNCHANGED <<now, db, known, cached, access, hist, starts>>

LoginSucceeds(r) ==
    /\ req[r].loc = "verify" /\ req[r].user \in accounts
    /\ ClearFailedAttempts(CounterOf(r))
    /\ wrong' = [wrong EXCEPT ![CounterOf(r)] = <<>>]
    /\ req' = [req EXCEPT ![r] = [Idle EXCEPT !.loc = "issue", !.user = req[r].user]]
    /\ UNCHANGED <<now, db, known, cached, access, hist, starts>>

CreateRefreshToken(r) ==
    /\ req[r].loc = "issue"
    /\ tokens' = Append(tokens, Row(req[r].user, Len(tokens) + 1, now))
    /\ req' = [req EXCEPT ![r].loc = "respond", ![r].tok = Len(tokens) + 1]
    /\ UNCHANGED <<now, accounts, keyed, guard, known, cached, access, hist, starts>>

(* The response of login and of refresh carries a refresh and an access    *)
(* token; the hash is cached in Redis, and the old one dropped.            *)
Cookies(r) ==
    LET t == req[r].tok
    IN  /\ known'  = known \cup {t}
        /\ cached' = (cached \ {req[r].old}) \cup {t}
        /\ access' = [access EXCEPT ![tokens[t].user] = now + JwtSeconds]
        /\ Return(r)
        /\ UNCHANGED <<now, db, guard, hist, starts>>

LoginRespond(r) == req[r].loc = "respond" /\ req[r].old = 0 /\ Cookies(r)

RefreshRespond(r) == req[r].loc = "respond" /\ req[r].old # 0 /\ Cookies(r)

-----------------------------------------------------------------------------
(* refresh: rotate_refresh_token *)

Family(f) == {t \in DOMAIN tokens : tokens[t].family = f}

Expired(t) == tokens[t].created + RefreshSeconds < now

AgeOfToken(t) == now - tokens[t].created

FamilyAge(t) == now - Min({tokens[s].created : s \in Family(tokens[t].family)})

RefreshBegin(r) ==
    /\ RoomForToken
    /\ \E t \in known : Begin(r, [Idle EXCEPT !.loc = "read", !.tok = t, !.todo = {t}])
    /\ UNCHANGED <<now, db, guard, known, cached, access, hist>>

RotateRevoked(r) ==
    LET t == req[r].tok
    IN  /\ req[r].loc = "read" /\ HasItsRows(r)
        /\ IF Expired(t)
           THEN Return(r)
           ELSE IF tokens[t].used \/ FamilyAge(t) > AbsoluteSeconds
           THEN req' = [req EXCEPT ![r].loc = "revoke", ![r].todo = Family(tokens[t].family)]
           ELSE Goto(r, "rotate")
        /\ UNCHANGED <<now, db, guard, known, cached, access, hist, starts>>

(* The row is read locked; what it says decides. A family's revocation is  *)
(* an UPDATE of the rows committed at this moment.                         *)
RotateDecide(r) ==
    LET t == req[r].tok
    IN  /\ req[r].loc = "read" /\ HasItsRows(r)
        /\ IF Expired(t) \/ tokens[t].revoked
           THEN Return(r)
           ELSE IF tokens[t].used \/ FamilyAge(t) > AbsoluteSeconds
           THEN req' = [req EXCEPT ![r].loc = "revoke", ![r].todo = Family(tokens[t].family)]
           ELSE Goto(r, "rotate")
        /\ UNCHANGED <<now, db, guard, known, cached, access, hist, starts>>

(* The old row is marked used and the successor inserted, in one commit.   *)
RotateCommit(r) ==
    LET t == req[r].tok
        f == tokens[t].family
    IN  /\ req[r].loc = "rotate"
        /\ tokens' = Append([tokens EXCEPT ![t].used = TRUE], Row(tokens[t].user, f, now))
        /\ req' = [req EXCEPT ![r] = [Idle EXCEPT !.loc = "respond", !.old = t, !.tok = Len(tokens) + 1]]
        /\ raced' = raced \cup
               {g \in {f} : \E q \in Requests : req[q].loc = "revoke" /\ req[q].todo \cap Family(f) # {}}
        /\ UNCHANGED <<now, accounts, keyed, guard, known, cached, access, ended, starts>>

(* _revoke_family and revoke_user_refresh_tokens, once they hold the rows. *)
Revoked(rows) ==
    [t \in DOMAIN tokens |-> [tokens[t] EXCEPT !.revoked = @ \/ t \in rows]]

RevokeCommit(r) ==
    /\ req[r].loc = "revoke" /\ HasItsRows(r)
    /\ tokens' = Revoked(req[r].todo)
    /\ ended' = ended \cup {tokens[t].family : t \in req[r].todo}
    /\ Return(r)
    /\ UNCHANGED <<now, accounts, keyed, guard, known, cached, access, raced, starts>>

-----------------------------------------------------------------------------
(* logout revokes the presented token only; logout_all needs a live access *)
(* token and revokes the account's rows.                                   *)
LogoutBegin(r) ==
    /\ \E t \in known : Begin(r, [Idle EXCEPT !.loc = "logout", !.tok = t, !.todo = {t}])
    /\ UNCHANGED <<now, db, guard, known, cached, access, hist>>

LogoutCommit(r) ==
    LET t == req[r].tok
    IN  /\ req[r].loc = "logout" /\ HasItsRows(r)
        /\ tokens' = Revoked({t})
        /\ cached' = cached \ {t}
        /\ ended' = IF tokens[t].used THEN ended ELSE ended \cup {tokens[t].family}
        /\ Return(r)
        /\ UNCHANGED <<now, accounts, keyed, guard, known, access, raced, starts>>

AccessTokenLives(u) == now < access[u]

(* get_current_user. The CSRF token that comes with the cookie is the      *)
(* account's own.                                                          *)
Authenticated(u) == AccessTokenLives(u) /\ u \in accounts

LogoutAllBegin(r, u) ==
    /\ Authenticated(u)
    /\ Begin(r, [Idle EXCEPT !.loc = "revoke", !.user = u,
                             !.todo = {t \in DOMAIN tokens : tokens[t].user = u /\ ~tokens[t].revoked}])
    /\ UNCHANGED <<now, db, guard, known, cached, access, hist>>

-----------------------------------------------------------------------------
(* A unit of time is longer than the transaction of a rotation.            *)
Tick ==
    /\ now < MaxNow
    /\ \A r \in Requests : req[r].loc # "rotate"
    /\ now' = now + 1
    /\ UNCHANGED <<db, guard, known, cached, access, req, hist, starts>>

(* A process stops: its requests are rolled back, its lockout counters are *)
(* gone. Only a login before its password is verified tells its process;   *)
(* of the others any may be the process's own.                             *)
Crash(p) ==
    /\ starts < MaxStarts /\ starts' = starts + 1
    /\ \E gone \in SUBSET {r \in Requests : req[r].at \in {p, "none"}} :
          /\ \A r \in Requests : req[r].at = p => r \in gone
          /\ req' = [r \in Requests |-> IF r \in gone THEN Idle ELSE req[r]]
    /\ fails' = [c \in Counters |-> IF c[1] = p THEN <<>> ELSE fails[c]]
    /\ lockedTill' = [c \in Counters |-> IF c[1] = p THEN 0 ELSE lockedTill[c]]
    /\ wrong' = [c \in Counters |-> IF c[1] = p THEN <<>> ELSE wrong[c]]
    /\ UNCHANGED <<now, db, known, cached, access, hist>>

Step(r) ==
    \/ LockRow(r) \/ DeadlockAbort(r)
    \/ RegisterCommit(r) \/ RegisterKeys(r)
    \/ LoginFails(r) \/ LoginSucceeds(r) \/ CreateRefreshToken(r) \/ LoginRespond(r)
    \/ RotateDecide(r) \/ RotateCommit(r) \/ RefreshRespond(r) \/ RevokeCommit(r) \/ LogoutCommit(r)

Next ==
    \/ \E r \in Requests : Step(r) \/ RefreshBegin(r) \/ LogoutBegin(r)
    \/ \E r \in Requests, u \in Users : RegisterLookup(r, u) \/ LogoutAllBegin(r, u)
    \/ \E r \in Requests, p \in Processes, u \in Users, a \in Addresses : CheckRateLimit(r, p, u, a)
    \/ Tick
    \/ \E p \in Processes : Crash(p)

Fairness == \A r \in Requests : WF_vars(Step(r))

Spec == Init /\ [][Next]_vars /\ Fairness

-----------------------------------------------------------------------------
Live(t) == ~tokens[t].used /\ ~tokens[t].revoked

(* Two rotations of one token never both mint a successor, whatever the    *)
(* replays: a family has at most one token that rotate_refresh_token still *)
(* accepts, because the row is read FOR UPDATE.                            *)
OneHeadPerFamily ==
    \A s, t \in DOMAIN tokens :
        tokens[s].family = tokens[t].family /\ Live(s) /\ Live(t) => s = t

(* Once _revoke_family, revoke_user_refresh_tokens or the logout of the    *)
(* newest token has ended a family, no token of it is accepted ever again, *)
(* except where a rotation committed its successor while the revoking      *)
(* UPDATE was running and could not see that row.                          *)
EndedStaysEnded ==
    \A t \in DOMAIN tokens : Live(t) => tokens[t].family \notin ended \ raced

(* However often it is rotated, a session is over when the absolute        *)
(* lifetime and one sliding period have passed since its login.            *)
LifetimeIsAbsolute ==
    \A t \in DOMAIN tokens :
        Live(t) /\ ~Expired(t) =>
            now <= tokens[tokens[t].family].created + AbsoluteSeconds + RefreshSeconds

(* Of one e-mail, from one client address, to one process: login attempts  *)
(* are checked against the lockout before the password is verified and     *)
(* counted after it, so those that run at once may exceed the limit, by    *)
(* one for every other request, and no more. (An account as a whole has as *)
(* many such limits as there are addresses and processes.)                 *)
GuessesBounded ==
    \A c \in Counters : Len(Recent(wrong[c])) < MaxAttempts + Cardinality(Requests)

(* Every request ends, although revocations of one family may wait for     *)
(* each other's rows: PostgreSQL breaks the deadlock.                      *)
EveryRequestEnds ==
    \A r \in Requests : req[r] # Idle ~> req[r] = Idle

Token == [user : Users, family : Nat, created : Nat, used : BOOLEAN, revoked : BOOLEAN]

Request == [loc : {"idle", "register", "keys", "verify", "issue", "respond", "read", "rotate",
                   "revoke", "logout"},
            at : Processes \cup {"none"}, user : Users \cup {"none"},
            from : Addresses \cup {"none"}, tok : Nat, old : Nat, held : SUBSET Nat, todo : SUBSET Nat]

SessionsType ==
    /\ now \in Nat /\ accounts \subseteq Users /\ tokens \in Seq(Token)
    /\ fails \in [Counters -> Seq(Nat)] /\ wrong \in [Counters -> Seq(Nat)]
    /\ lockedTill \in [Counters -> Nat] /\ access \in [Users -> Nat]
    /\ known \subseteq DOMAIN tokens /\ req \in [Requests -> Request]

(* A family begins with its first token, belongs to one account, gets its  *)
(* tokens within the absolute lifetime and has one that is not used yet.   *)
TokensInv ==
    /\ ended \subseteq DOMAIN tokens
    /\ \A t \in DOMAIN tokens :
          LET f == tokens[t].family
          IN  /\ f \in DOMAIN tokens /\ tokens[f].family = f /\ tokens[f].user = tokens[t].user
              /\ tokens[f].created <= tokens[t].created /\ tokens[t].created <= now
              /\ tokens[t].created <= tokens[f].created + AbsoluteSeconds
    /\ \A s, t \in DOMAIN tokens :
          tokens[s].family = tokens[t].family /\ ~tokens[s].used /\ ~tokens[t].used => s = t

(* A row is locked by one request; what a rotation has read of its token   *)
(* stays so; and the UPDATE of a revocation covers the live token of every *)
(* family it touches, unless a rotation raced it.                          *)
LocksInv ==
    /\ \A q, r \in Requests : q # r => req[q].held \cap req[r].held = {}
    /\ \A r \in Requests :
          LET t == req[r].tok
          IN  /\ req[r].todo \subseteq DOMAIN tokens
              /\ req[r].loc \in {"register", "keys", "verify", "issue"} => req[r].user \in Users
              /\ req[r].loc = "verify" => CounterOf(r) \in Counters
              /\ req[r].loc \in {"respond", "read", "rotate", "logout"} => t \in DOMAIN tokens
              /\ req[r].loc \in {"read", "logout"} => req[r].todo = {t}
              /\ req[r].loc = "rotate" =>
                    t \in req[r].held /\ Live(t) /\ now <= tokens[tokens[t].family].created + AbsoluteSeconds
              /\ req[r].loc = "revoke" =>
                    \A s \in req[r].todo, v \in DOMAIN tokens :
                        tokens[s].family = tokens[v].family /\ Live(v) =>
                            v \in req[r].todo \/ tokens[v].family \in raced

Verifying(c) == {r \in Requests : req[r].loc = "verify" /\ CounterOf(r) = c}

InOrder(times) ==
    /\ \A i, j \in DOMAIN times : i <= j => times[i] <= times[j]
    /\ \A i \in DOMAIN times : times[i] <= now

(* The counted failures are the newest wrong guesses; the others are out   *)
(* of the window or led to the lockout, which lasts until they are.        *)
GuessesInv ==
    \A c \in Counters :
        LET uncounted == Len(wrong[c]) - Len(fails[c])
        IN  /\ InOrder(wrong[c])
            /\ uncounted >= 0 /\ Len(fails[c]) < MaxAttempts
            /\ \A i \in DOMAIN fails[c] : fails[c][i] = wrong[c][uncounted + i]
            /\ \A i \in 1..uncounted :
                  \/ now - wrong[c][i] >= FailWindow
                  \/ wrong[c][i] + LockoutSeconds <= lockedTill[c]
            /\ Len(Recent(wrong[c])) + Cardinality(Verifying(c)) < MaxAttempts + Cardinality(Requests)

(* Why a session has one head, ends for good and in time, and guesses are  *)
(* bounded                                                                 *)
SessionsInv == SessionsType /\ TokensInv /\ LocksInv /\ GuessesInv /\ EndedStaysEnded
=============================================================================
