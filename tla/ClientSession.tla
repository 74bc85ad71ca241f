---------------------------- MODULE ClientSession ----------------------------
(***************************************************************************)
(* The session of one browser window: the token (store/authStore), whose   *)
(* user the window shows (store/sessionStore), the axios interceptors that *)
(* renew the token when a call is refused (services/axiosInterceptor), the *)
(* modal that renews it before it expires and the stream that ends it      *)
(* (hooks/useAuthSessionSSE), beside the sessions of the server            *)
(* (services/auth_service).                                                *)
(*                                                                         *)
(* A token is the number of its session; owner[k] is the user of session   *)
(* k.  Everything the window awaits is answered in any order.              *)
(***************************************************************************)
EXTENDS Integers, Sequences

CONSTANTS
    Users, NoUser,
    Calls,       \* calls of the window under way at once
    MaxSessions  \* bound on the sessions the server issues

ASSUME SessionAssumption ==
    /\ NoUser \notin Users
    /\ "modal" \notin Calls
    /\ MaxSessions \in Nat

VARIABLES
    owner,         \* server: the user of each session issued so far
    sessions,      \* server: the sessions in Redis
    token,         \* accessToken, 0 when there is none
    profile,       \* sessionStore.user
    fresh,         \* lastFetchAt is set
    isLoading,     \* sessionStore.isLoading
    login,         \* the user a login under way is for
    call,          \* the calls under way
    isRefreshing,
    failedQueue,   \* who waits for a refresh begun by another
    refreshes,     \* the refreshes under way
    who,           \* history: the user who last logged in, NoUser after a logout
    crossed,       \* history: a refresh was under way at a logout or a login
    late,          \* history: so was a load of the profile
    stranded       \* history: who waits in the queue for a refresh that is over

server == <<owner, sessions>>
shown == <<profile, fresh, isLoading>>
waiting == <<isRefreshing, failedQueue>>
history == <<who, crossed, late, stranded>>
vars == <<server, token, shown, login, call, waiting, refreshes, history>>

Sessions == 1..MaxSessions
Callers == Calls \cup {"modal"}

\* "told": its refresh has failed, and it awaits the notice of that.
Idle == [at |-> "idle", what |-> "page", token |-> 0, retried |-> FALSE]
Call == [at : {"idle", "sent", "ok", "denied", "waiting", "told"}, what : {"me", "page"},
         token : 0..MaxSessions, retried : BOOLEAN]
Refresh == [by : Callers, old : Sessions, new : 0..MaxSessions,
            at : {"sent", "ok", "refused", "failed"}]

Init ==
    /\ owner = <<>>
    /\ sessions = {}
    /\ token = 0
    /\ profile = NoUser
    /\ fresh = FALSE
    /\ isLoading = FALSE
    /\ login = NoUser
    /\ call = [c \in Calls |-> Idle]
    /\ isRefreshing = FALSE
    /\ failedQueue = {}
    /\ refreshes = {}
    /\ who = NoUser
    /\ crossed = FALSE
    /\ late = FALSE
    /\ stranded = {}

Loads(cs) == \E c \in cs : call[c].at # "idle" /\ call[c].what = "me"
Sent(what, k) == [at |-> "sent", what |-> what, token |-> k, retried |-> FALSE]
Room == Len(owner) < MaxSessions
Settled(cs) == [c \in Calls |-> IF c \in cs THEN Idle ELSE call[c]]

\* loadFromApi: nothing while a load runs, nothing for five minutes after one.
loadFromApi(c, k) ==
    \/ /\ isLoading \/ fresh
       /\ UNCHANGED <<call, isLoading>>
    \/ /\ ~ isLoading
       /\ call[c].at = "idle"
       /\ call' = [call EXCEPT ![c] = Sent("me", k)]
       /\ isLoading' = TRUE

\* Mutant: the user shown stays.
clearTokenOnly(rest) ==
    /\ token' = 0
    /\ who' = NoUser
    /\ crossed' = (crossed \/ rest # {})
    /\ late' = (late \/ Loads(Calls))
    /\ UNCHANGED shown

\* clearAll: the local logout; the server is not told.  "rest" are the refreshes that
\* remain under way.
clearAll(rest) ==
    /\ token' = 0
    /\ profile' = NoUser
    /\ fresh' = FALSE
    /\ isLoading' = FALSE
    /\ who' = NoUser
    /\ crossed' = (crossed \/ rest # {})
    /\ late' = (late \/ Loads(Calls))

-----------------------------------------------------------------------------
(* Login, logout and reload                                                *)

AskLogin(u) ==
    /\ token = 0
    /\ login = NoUser
    /\ login' = u
    /\ UNCHANGED <<server, token, shown, call, waiting, refreshes, history>>

\* The answer of a login is stored wherever the window has gone meanwhile.
Login(c) ==
    /\ login # NoUser
    /\ Room
    /\ owner' = Append(owner, login)
    /\ sessions' = sessions \cup {Len(owner')}
    /\ token' = Len(owner')
    /\ login' = NoUser
    /\ loadFromApi(c, token')
    /\ who' = login
    /\ crossed' = (refreshes # {})
    /\ late' = (((late \/ crossed) /\ profile # NoUser) \/ Loads(Calls))
    /\ UNCHANGED <<profile, fresh, waiting, refreshes, stranded>>

\* A wrong password is a 401 on an endpoint of auth: clearAll.
LoginRefused ==
    /\ login # NoUser
    /\ login' = NoUser
    /\ clearAll(refreshes)
    /\ UNCHANGED <<server, call, waiting, refreshes, stranded>>

LoginFailed ==
    /\ login # NoUser
    /\ login' = NoUser
    /\ UNCHANGED <<server, token, shown, call, waiting, refreshes, history>>

\* The menus, the forbidden page, the modal's button or its countdown.
Logout ==
    /\ token # 0
    /\ clearAll(refreshes)
    /\ UNCHANGED <<server, login, call, waiting, refreshes, stranded>>

\* The page is loaded again from localStorage; a refresh under way is served or not, and
\* its answer finds nobody.
Reload ==
    /\ call' = [c \in Calls |-> Idle]
    /\ isLoading' = FALSE
    /\ \E lost \in SUBSET {r.old : r \in {q \in refreshes : q.at = "sent"}} :
          sessions' = sessions \ lost
    /\ fresh' = FALSE
    /\ login' = NoUser
    /\ isRefreshing' = FALSE
    /\ failedQueue' = {}
    /\ refreshes' = {}
    /\ stranded' = {}
    /\ UNCHANGED <<owner, token, profile, who, crossed, late>>

initFromStorage(c) ==
    /\ token # 0
    /\ ~ fresh
    /\ loadFromApi(c, token)
    /\ UNCHANGED <<server, token, profile, fresh, login, waiting, refreshes, history>>

-----------------------------------------------------------------------------
(* Calls                                                                   *)

Ask(c) ==
    /\ token # 0
    /\ call[c].at = "idle"
    /\ call' = [call EXCEPT ![c] = Sent("page", token)]
    /\ UNCHANGED <<server, token, shown, login, waiting, refreshes, history>>

\* The profile page and the dashboard load the user again whatever the cache says.
ForceLoad(c) ==
    /\ token # 0
    /\ ~ isLoading
    /\ call[c].at = "idle"
    /\ call' = [call EXCEPT ![c] = Sent("me", token)]
    /\ isLoading' = TRUE
    /\ UNCHANGED <<server, token, profile, fresh, login, waiting, refreshes, history>>

\* get_current_user: the session must be in Redis.  What a page does with its answer is
\* not modelled.
Serve(c) ==
    /\ call[c].at = "sent"
    /\ call' = IF call[c].what = "page" /\ call[c].token \in sessions THEN Settled({c})
               ELSE [call EXCEPT ![c].at = IF call[c].token \in sessions THEN "ok" ELSE "denied"]
    /\ UNCHANGED <<server, token, shown, login, waiting, refreshes, history>>

\* An error other than 401, or no answer within axios' timeout.
Fail(c) ==
    /\ call[c].at = "sent"
    /\ call' = Settled({c})
    /\ isLoading' = (isLoading /\ call[c].what # "me")
    /\ UNCHANGED <<server, token, profile, fresh, login, waiting, refreshes, history>>

\* The user is shown whoever the token belongs to by now.
Answered(c) ==
    /\ call[c].at = "ok"
    /\ call' = Settled({c})
    /\ profile' = owner[call[c].token]
    /\ fresh' = TRUE
    /\ isLoading' = FALSE
    /\ UNCHANGED <<server, token, login, waiting, refreshes, history>>

Begin(by) ==
    /\ isRefreshing' = TRUE
    /\ refreshes' = refreshes \cup {[by |-> by, old |-> token, new |-> 0, at |-> "sent"]}

\* Mutant: no queue, every refused call renews the token.
DeniedAlone(c) ==
    /\ call[c].at = "denied"
    /\ ~ call[c].retried /\ token # 0
    /\ call' = [call EXCEPT ![c].at = "waiting", ![c].retried = TRUE]
    /\ Begin(c)
    /\ UNCHANGED <<server, token, shown, login, failedQueue, history>>

\* Mutant: a refresh without a token.
DeniedBlindly(c) ==
    /\ call[c].at = "denied"
    /\ ~ call[c].retried /\ ~ isRefreshing
    /\ call' = [call EXCEPT ![c].at = "waiting", ![c].retried = TRUE]
    /\ Begin(c)
    /\ UNCHANGED <<server, token, shown, login, failedQueue, history>>

\* failedQueue.push: told by whoever has isRefreshing set, unless that refresh is over.
Join(c) ==
    /\ failedQueue' = failedQueue \cup {c}
    /\ stranded' = IF refreshes = {} THEN stranded \cup {c} ELSE stranded
    /\ UNCHANGED <<isRefreshing, refreshes>>

\* processQueue(error): the calls in the queue fail; c, which asked for the refresh, awaits
\* the notice, and isRefreshing stays set until then.
TellFailure(c) ==
    /\ call' = [Settled(failedQueue \ {c}) EXCEPT ![c].at = "told", ![c].retried = TRUE]
    /\ isRefreshing' = TRUE
    /\ failedQueue' = {}
    /\ stranded' = {}

\* A refused call waits for the refresh under way, or begins one, which with no token left
\* fails at once.
Denied(c) ==
    /\ call[c].at = "denied"
    /\ \/ /\ call[c].retried
          /\ call' = Settled({c})
          /\ isLoading' = (isLoading /\ call[c].what # "me")
          /\ UNCHANGED <<waiting, refreshes, stranded>>
       \/ /\ ~ call[c].retried /\ ~ isRefreshing /\ token = 0
          /\ TellFailure(c)
          /\ isLoading' = (isLoading /\ ~ Loads(failedQueue \cap Calls))
          /\ UNCHANGED refreshes
       \/ /\ ~ call[c].retried /\ (isRefreshing \/ token # 0)
          /\ call' = [call EXCEPT ![c].at = "waiting", ![c].retried = TRUE]
          /\ IF isRefreshing THEN Join(c) ELSE Begin(c) /\ UNCHANGED <<failedQueue, stranded>>
          /\ UNCHANGED isLoading
    /\ UNCHANGED <<server, token, profile, fresh, login, who, crossed, late>>

\* The notice is up (notify.error, imported on demand): finally, isRefreshing is cleared and
\* the call fails.  Whoever joined the queue meanwhile is not told.
Notified(c) ==
    /\ call[c].at = "told"
    /\ call' = Settled({c})
    /\ isLoading' = (isLoading /\ call[c].what # "me")
    /\ isRefreshing' = FALSE
    /\ UNCHANGED <<server, token, profile, fresh, login, failedQueue, refreshes, history>>

-----------------------------------------------------------------------------
(* Refreshing                                                              *)

\* refreshNow, of the modal shown before the token expires; its buttons are disabled
\* while it waits.
KeepAlive ==
    /\ token # 0
    /\ "modal" \notin failedQueue
    /\ \A r \in refreshes : r.by # "modal"
    /\ IF isRefreshing THEN Join("modal")
       ELSE Begin("modal") /\ UNCHANGED <<failedQueue, stranded>>
    /\ UNCHANGED <<server, token, shown, login, call, who, crossed, late>>

Become(r, at, new) ==
    refreshes' = (refreshes \ {r}) \cup {[r EXCEPT !.at = at, !.new = new]}

\* refresh_token: the old session goes before the new one comes, and an error between the
\* two leaves neither.
ServeRefresh(r) ==
    /\ r.at = "sent"
    /\ \/ /\ r.old \in sessions
          /\ Room
          /\ owner' = Append(owner, owner[r.old])
          /\ sessions' = (sessions \ {r.old}) \cup {Len(owner')}
          /\ Become(r, "ok", Len(owner'))
       \/ /\ r.old \notin sessions
          /\ Become(r, "refused", 0)
          /\ UNCHANGED server
       \/ /\ sessions' \in {sessions, sessions \ {r.old}}
          /\ Become(r, "failed", 0)
          /\ UNCHANGED owner
    /\ UNCHANGED <<token, shown, login, call, waiting, history>>

\* Mutant: the queue is not told.
RefreshedQuietly(r) ==
    /\ r.at = "ok"
    /\ token' = r.new
    /\ call' = [c \in Calls |->
                   IF c = r.by THEN [call[c] EXCEPT !.at = "sent", !.token = r.new] ELSE call[c]]
    /\ isRefreshing' = FALSE
    /\ refreshes' = refreshes \ {r}
    /\ UNCHANGED <<server, shown, login, failedQueue, history>>

\* updateTokens, whatever happened to the token meanwhile; processQueue sends the calls again.
Refreshed(r) ==
    /\ r.at = "ok"
    /\ token' = r.new
    /\ call' = [c \in Calls |->
                   IF c \in failedQueue \cup {r.by}
                   THEN [call[c] EXCEPT !.at = "sent", !.token = r.new] ELSE call[c]]
    /\ isRefreshing' = FALSE
    /\ failedQueue' = {}
    /\ refreshes' = refreshes \ {r}
    /\ stranded' = {}
    /\ UNCHANGED <<server, shown, login, who, crossed, late>>

\* Every failure logs the window out.  The calls in the queue fail with it, unless it was
\* the modal that asked: refreshNow leaves them where they are.
RefreshFailed(r) ==
    /\ r.at \in {"refused", "failed"}
    /\ clearAll(refreshes \ {r})
    /\ refreshes' = refreshes \ {r}
    /\ IF r.by = "modal"
       THEN /\ isRefreshing' = FALSE
            /\ stranded' = failedQueue
            /\ UNCHANGED <<call, failedQueue>>
       ELSE TellFailure(r.by)
    /\ UNCHANGED <<server, login>>

-----------------------------------------------------------------------------
(* Elsewhere                                                               *)

\* A session ends: closed from another device, by a change of password, at its expiry, or
\* by another window that shares the token and renewed it.
Revoke(k) ==
    /\ k \in sessions
    /\ sessions' = sessions \ {k}
    /\ UNCHANGED <<owner, token, shown, login, call, waiting, refreshes, history>>

\* stream_session_events finds the session of its token gone: also when it was a refresh
\* of this very window that took it, and the answer is still on its way.
SessionRevoked ==
    /\ token # 0
    /\ token \notin sessions
    /\ clearAll(refreshes)
    /\ UNCHANGED <<server, login, call, waiting, refreshes, stranded>>

-----------------------------------------------------------------------------
Handle(c) == Serve(c) \/ Fail(c) \/ Answered(c) \/ Denied(c) \/ Notified(c)
HandleRefresh(r) == ServeRefresh(r) \/ Refreshed(r) \/ RefreshFailed(r)
Next ==
    \/ \E u \in Users : AskLogin(u)
    \/ LoginRefused \/ LoginFailed \/ Logout \/ KeepAlive \/ SessionRevoked \/ Reload
    \/ \E c \in Calls : Login(c) \/ initFromStorage(c) \/ Ask(c) \/ ForceLoad(c) \/ Handle(c)
    \/ \E r \in refreshes : HandleRefresh(r)
    \/ \E k \in sessions : Revoke(k)

Spec == Init /\ [][Next]_vars

-----------------------------------------------------------------------------
TypeOK ==
    /\ owner \in Seq(Users) /\ Len(owner) <= MaxSessions
    /\ sessions \subseteq 1..Len(owner)
    /\ token \in 0..Len(owner)
    /\ profile \in Users \cup {NoUser}
    /\ fresh \in BOOLEAN
    /\ isLoading \in BOOLEAN
    /\ login \in Users \cup {NoUser}
    /\ call \in [Calls -> Call]
    /\ isRefreshing \in BOOLEAN
    /\ failedQueue \subseteq Callers
    /\ refreshes \subseteq Refresh
    /\ who \in Users \cup {NoUser}
    /\ crossed \in BOOLEAN
    /\ late \in BOOLEAN
    /\ stranded \subseteq Callers

\* The token is of the user who logged in and did not log out, and so is the name shown,
\* unless an answer for an earlier session was still on its way (updateTokens and
\* loadFromApi write the stores unconditionally).
OneUser ==
    token # 0 /\ ~ crossed =>
        /\ owner[token] = who
        /\ profile # NoUser /\ ~ late => profile = who

\* A refresh is of the token the window still has, and is refused, which logs the window
\* out, only when that session has really ended: the window never loses a session to a
\* second refresh of its own ("cola anti-colision").
RefreshIsOfToken ==
    ~ crossed =>
        \A r \in refreshes :
            /\ r.old = token
            /\ r.at = "refused" => token \notin sessions

\* Whoever waits for a new token is told, because a refresh is under way and knows of it;
\* except those in the queue when a refresh of the modal failed, and those who joined it
\* while the window still showed that a refresh had failed: they wait for the next one.
NobodyForgotten ==
    \A c \in Callers \ stranded :
        c \in failedQueue \/ (c \in Calls /\ call[c].at = "waiting") =>
            \E r \in refreshes : c \in failedQueue \/ r.by = c
=============================================================================
