------------------------- MODULE ClientSessionProofs -------------------------
(***************************************************************************)
(* For every number of users, calls and sessions: the window shows the     *)
(* user who logged in, renews the token it has, and leaves nobody waiting. *)
(***************************************************************************)
EXTENDS ClientSession, TLAPS

\* Tokens are of sessions that were issued.
Issued ==
    /\ \A c \in Calls : call[c].at # "idle" => call[c].token \in 1..Len(owner)
    /\ \A r \in refreshes : r.old \in 1..Len(owner) /\ r.new \in 0..Len(owner)

\* One refresh at a time, or one call that shows that its refresh has failed.
Told(c) == call[c].at = "told"
Waits(c) == c \in Calls /\ call[c].at = "waiting"
OneRefresh ==
    /\ isRefreshing <=> refreshes # {} \/ \E c \in Calls : Told(c)
    /\ \A r, q \in refreshes : r = q
    /\ \A c \in Calls : Told(c) => refreshes = {} /\ \A d \in Calls : Told(d) => d = c
    /\ \A r \in refreshes : r.by \in Calls => Waits(r.by)

\* A renewed session is of the same user, a refused one is over, and while no login or
\* logout met a refresh, the token renewed is the window's.
RefreshLine ==
    \A r \in refreshes :
        /\ r.at = "ok" => r.new # 0 /\ owner[r.new] = owner[r.old]
        /\ r.at = "refused" => r.old \notin sessions
        /\ ~ crossed => r.old = token

\* While nothing of an earlier session was on its way, a login begins without a token, and
\* token, name and profile on its way are of the user who logged in.
UserLine ==
    ~ crossed =>
        /\ login # NoUser => token = 0
        /\ token # 0 => owner[token] = who
        /\ ~ late =>
              /\ profile # NoUser => token # 0 /\ profile = who
              /\ \A c \in Calls : call[c].at # "idle" /\ call[c].what = "me" =>
                    token # 0 /\ owner[call[c].token] = who

\* Whoever waits for a refresh that is over is still in the queue.
WaitLine == stranded \subseteq failedQueue /\ NobodyForgotten

\* The answers a page waits for are of its user.
AnswerLine == \A c \in Calls : call[c].at = "ok" => call[c].what = "me"

SInv == TypeOK /\ Issued /\ AnswerLine /\ OneRefresh /\ RefreshLine /\ UserLine /\ WaitLine

LEMMA SessionInit == Init => SInv
<1> SUFFICES ASSUME Init PROVE SInv
  OBVIOUS
<1>1. owner \in Seq(Users) /\ Len(owner) = 0
  BY DEF Init
<1>2. TypeOK
  <2>1. call \in [Calls -> Call]
    BY SessionAssumption DEF Init, Call, Idle
  <2>2. Len(owner) <= MaxSessions /\ sessions \subseteq 1..Len(owner) /\ token \in 0..Len(owner)
    BY <1>1, SessionAssumption DEF Init
  <2> QED BY <1>1, <2>1, <2>2 DEF Init, TypeOK
<1>3. Issued /\ AnswerLine /\ OneRefresh /\ RefreshLine /\ UserLine /\ WaitLine
  BY DEF Init, Idle, Issued, AnswerLine, OneRefresh, Told, RefreshLine, UserLine, WaitLine,
     NobodyForgotten
<1> QED BY <1>2, <1>3 DEF SInv

-----------------------------------------------------------------------------
(* Types                                                                   *)

\* A session more leaves the earlier ones as they are.
LEMMA NextSession ==
    ASSUME TypeOK, NEW u \in Users, Room, owner' = Append(owner, u)
    PROVE  /\ owner' \in Seq(Users) /\ Len(owner') = Len(owner) + 1
           /\ Len(owner') <= MaxSessions /\ Len(owner) \in Nat
           /\ owner'[Len(owner')] = u
           /\ \A k \in 1..Len(owner) : owner'[k] = owner[k]
  BY SessionAssumption DEF TypeOK, Room

LEMMA MoreSessions ==
    ASSUME NEW n \in Nat, NEW old, old \subseteq 1..n, NEW now, now \subseteq old \cup {n + 1}
    PROVE  now \subseteq 1..(n + 1)
  OBVIOUS

LEMMA SettledType ==
    ASSUME TypeOK, NEW cs
    PROVE  Settled(cs) \in [Calls -> Call]
  BY SessionAssumption DEF TypeOK, Settled, Call, Idle

LEMMA TellType ==
    ASSUME TypeOK, NEW c \in Calls, call[c].at # "idle", Issued, TellFailure(c)
    PROVE  /\ call' \in [Calls -> Call]
           /\ \A d \in Calls : call'[d].at # "idle" => call'[d].token \in 1..Len(owner)
           /\ failedQueue' = {} /\ stranded' = {} /\ isRefreshing'
<1> DEFINE s == Settled(failedQueue \ {c})
<1>1. s \in [Calls -> Call] /\ \A d \in Calls : s[d].at # "idle" => s[d].token \in 1..Len(owner)
  BY SettledType DEF Settled, Issued, Idle
<1>2. s[c] = call[c] /\ call' = [s EXCEPT ![c].at = "told", ![c].retried = TRUE]
  BY DEF Settled, TellFailure
<1> HIDE DEF s
<1>3. call' \in [Calls -> Call] /\ \A d \in Calls : call'[d].token = s[d].token /\ (d # c => call'[d] = s[d])
  BY <1>1, <1>2 DEF Call
<1> QED BY <1>1, <1>2, <1>3 DEF TellFailure, Issued

LEMMA SentType ==
    ASSUME TypeOK, NEW c \in Calls, NEW what \in {"me", "page"}, NEW k \in 0..MaxSessions
    PROVE  [call EXCEPT ![c] = Sent(what, k)] \in [Calls -> Call]
  BY DEF TypeOK, Sent, Call

LEMMA BeginType ==
    ASSUME TypeOK, NEW by \in Callers, token # 0, Begin(by)
    PROVE  refreshes' \subseteq Refresh /\ isRefreshing' \in BOOLEAN
<1>1. token \in Sessions
  BY SessionAssumption DEF TypeOK, Sessions
<1> QED BY <1>1, SessionAssumption DEF TypeOK, Begin, Refresh

LEMMA ClearType ==
    ASSUME TypeOK, NEW rest, clearAll(rest)
    PROVE  /\ token' = 0 /\ profile' \in Users \cup {NoUser} /\ who' \in Users \cup {NoUser}
           /\ fresh' \in BOOLEAN /\ isLoading' \in BOOLEAN
           /\ crossed' \in BOOLEAN /\ late' \in BOOLEAN
  BY DEF TypeOK, clearAll

LEMMA TypeStep == SInv /\ [Next]_vars => TypeOK' /\ Issued'
<1> SUFFICES ASSUME SInv, [Next]_vars PROVE TypeOK' /\ Issued'
  OBVIOUS
<1> USE SessionAssumption DEF Idle
<1>0. /\ TypeOK /\ Issued /\ Len(owner) \in Nat /\ Len(owner) <= MaxSessions
      /\ token \in 0..Len(owner) /\ sessions \subseteq 1..Len(owner)
  BY DEF SInv, TypeOK
<1>1. ASSUME NEW u \in Users, AskLogin(u) PROVE TypeOK' /\ Issued'
  BY <1>0, <1>1 DEF AskLogin, TypeOK, Issued, server, shown, waiting, history
<1>2. ASSUME NEW c \in Calls, Login(c) PROVE TypeOK' /\ Issued'
  <2>1. login \in Users /\ token' = Len(owner')
    BY <1>0, <1>2 DEF TypeOK, Login
  <2>2. call' = call \/ call' = [call EXCEPT ![c] = Sent("me", token')]
    BY <1>2 DEF Login, loadFromApi
  <2>3. call' \in [Calls -> Call]
    BY <1>0, <1>2, <2>1, <2>2, NextSession, SentType DEF Login, TypeOK
  <2>4. TypeOK'
    <3>1. sessions' \subseteq 1..Len(owner') /\ token' \in 0..Len(owner')
      <4>1. Len(owner') = Len(owner) + 1 /\ sessions' = sessions \cup {Len(owner')}
        BY <1>0, <1>2, <2>1, NextSession DEF Login
      <4>2. sessions' \subseteq 1..Len(owner')
        BY <1>0, <4>1, MoreSessions
      <4>3. token' \in 0..Len(owner')
        BY <1>0, <2>1, <4>1
      <4> QED BY <4>2, <4>3
    <3>2. late' \in BOOLEAN /\ crossed' \in BOOLEAN /\ isLoading' \in BOOLEAN
      BY <1>0, <1>2 DEF Login, TypeOK, loadFromApi
    <3> QED BY <1>0, <1>2, <2>1, <2>3, <3>1, <3>2, NextSession DEF Login, TypeOK, waiting
  <2>5. Issued'
    <3>1. \A d \in Calls : call'[d] = call[d] \/ call'[d].token = token'
      BY <1>0, <2>2 DEF TypeOK, Sent
    <3> QED BY <1>0, <1>2, <2>1, <3>1, NextSession DEF Login, Issued
  <2> QED BY <2>4, <2>5
<1>3. CASE LoginRefused
  BY <1>0, <1>3, ClearType DEF LoginRefused, TypeOK, Issued, server, shown, waiting
<1>4. CASE LoginFailed
  BY <1>0, <1>4 DEF LoginFailed, TypeOK, Issued, server, shown, waiting, history
<1>5. CASE Logout \/ SessionRevoked
  <2>1. clearAll(refreshes) /\ UNCHANGED <<server, login, call, waiting, refreshes, stranded>>
    BY <1>5 DEF Logout, SessionRevoked
  <2> QED BY <1>0, <2>1, ClearType DEF TypeOK, Issued, server, waiting
<1>6. CASE Reload
  <2>1. call' \in [Calls -> Call] /\ \A c \in Calls : call'[c].at = "idle"
    BY <1>6 DEF Reload, Call
  <2>2. sessions' \subseteq sessions /\ refreshes' = {}
    BY <1>6 DEF Reload
  <2> QED BY <1>0, <1>6, <2>1, <2>2 DEF Reload, TypeOK, Issued
<1>7. ASSUME NEW c \in Calls, initFromStorage(c) PROVE TypeOK' /\ Issued'
  <2>1. call' = call \/ call' = [call EXCEPT ![c] = Sent("me", token)]
    BY <1>7 DEF initFromStorage, loadFromApi
  <2>2. call' \in [Calls -> Call]
    BY <1>0, <2>1, SentType DEF TypeOK
  <2>3. \A d \in Calls : call'[d] = call[d] \/ call'[d].token = token
    BY <1>0, <2>1 DEF TypeOK, Sent
  <2>4. token \in 1..Len(owner)
    BY <1>0, <1>7 DEF initFromStorage
  <2>5. isLoading' \in BOOLEAN
    BY <1>0, <1>7 DEF initFromStorage, loadFromApi, TypeOK
  <2> QED BY <1>0, <1>7, <2>2, <2>3, <2>4, <2>5
          DEF initFromStorage, TypeOK, Issued, server, waiting, history
<1>8. ASSUME NEW c \in Calls, Ask(c) \/ ForceLoad(c) PROVE TypeOK' /\ Issued'
  <2>1. PICK what \in {"me", "page"} : call' = [call EXCEPT ![c] = Sent(what, token)]
    BY <1>8 DEF Ask, ForceLoad
  <2>2. call' \in [Calls -> Call]
    BY <1>0, <2>1, SentType DEF TypeOK
  <2>3. \A d \in Calls : call'[d] = call[d] \/ call'[d].token = token
    BY <1>0, <2>1 DEF TypeOK, Sent
  <2>4. token \in 1..Len(owner)
    BY <1>0, <1>8 DEF Ask, ForceLoad
  <2>5. isLoading' \in BOOLEAN
    BY <1>0, <1>8 DEF Ask, ForceLoad, TypeOK, shown
  <2> QED BY <1>0, <1>8, <2>2, <2>3, <2>4, <2>5
          DEF Ask, ForceLoad, TypeOK, Issued, server, shown, waiting, history
<1>9. ASSUME NEW c \in Calls, Serve(c) PROVE TypeOK' /\ Issued'
  <2>1. CASE call' = Settled({c})
    <3>1. call' \in [Calls -> Call]
      BY <1>0, <2>1, SettledType
    <3> QED BY <1>0, <1>9, <2>1, <3>1
            DEF Serve, Settled, TypeOK, Issued, server, shown, waiting, history
  <2>2. ASSUME NEW at \in {"ok", "denied"}, call' = [call EXCEPT ![c].at = at]
        PROVE  TypeOK' /\ Issued'
    <3>1. call' \in [Calls -> Call]
      BY <1>0, <2>2 DEF TypeOK, Call
    <3>2. \A d \in Calls : call'[d].token = call[d].token /\ (call[d].at = "idle" => call'[d].at = "idle")
      BY <1>0, <1>9, <2>2 DEF Serve, TypeOK, Call
    <3>3. Issued'
      BY <1>0, <1>9, <3>2 DEF Serve, Issued, server
    <3> QED BY <1>0, <1>9, <3>1, <3>3 DEF Serve, TypeOK, server, shown, waiting, history
  <2> QED BY <1>9, <2>1, <2>2 DEF Serve
<1>10. ASSUME NEW c \in Calls, Fail(c) \/ Answered(c) PROVE TypeOK' /\ Issued'
  <2>1. call' = Settled({c}) /\ call' \in [Calls -> Call]
    BY <1>0, <1>10, SettledType DEF Fail, Answered
  <2>2. profile' \in Users \cup {NoUser}
    BY <1>0, <1>10 DEF Fail, Answered, TypeOK, Issued
  <2> QED BY <1>0, <1>10, <2>1, <2>2
          DEF Fail, Answered, Settled, TypeOK, Issued, server, waiting, history
<1>11. ASSUME NEW c \in Calls, Denied(c) PROVE TypeOK' /\ Issued'
  <2>1. /\ c \in Callers /\ call[c].at = "denied"
        /\ UNCHANGED <<server, token, profile, fresh, login, who, crossed, late>>
    BY <1>11 DEF Denied, Callers
  <2>2. call' \in [Calls -> Call] /\ \A d \in Calls :
            call'[d].at # "idle" => call'[d].token \in 1..Len(owner)
    <3>1. CASE call' = Settled({c})
      BY <1>0, <3>1, SettledType DEF Settled, Issued
    <3>2. CASE call' = [call EXCEPT ![c].at = "waiting", ![c].retried = TRUE]
      <4>1. call' \in [Calls -> Call] /\ \A d \in Calls : call'[d].token = call[d].token
        BY <1>0, <3>2 DEF TypeOK, Call
      <4>2. \A d \in Calls : call[d].at = "idle" => call'[d].at = "idle"
        BY <1>0, <2>1, <3>2 DEF TypeOK, Call
      <4> QED BY <1>0, <4>1, <4>2 DEF Issued
    <3>3. CASE TellFailure(c)
      BY <1>0, <2>1, <3>3, TellType
    <3> QED BY <1>11, <3>1, <3>2, <3>3 DEF Denied
  <2>3. failedQueue' \subseteq Callers /\ stranded' \subseteq Callers
    BY <1>0, <1>11, <2>1 DEF Denied, TypeOK, Join, TellFailure, waiting
  <2>4. isLoading' \in BOOLEAN
    BY <1>0, <1>11 DEF Denied, TypeOK
  <2>5. CASE UNCHANGED refreshes /\ isRefreshing' \in BOOLEAN
    BY <1>0, <2>1, <2>2, <2>3, <2>4, <2>5 DEF TypeOK, Issued, server
  <2>6. CASE Begin(c) /\ token # 0
    <3>1. Issued'
      BY <1>0, <2>1, <2>2, <2>6 DEF Begin, Issued, server
    <3> QED BY <1>0, <2>1, <2>2, <2>3, <2>4, <2>6, <3>1, BeginType DEF TypeOK, server
  <2> QED BY <1>0, <1>11, <2>5, <2>6 DEF Denied, Join, TellFailure, TypeOK, waiting
<1>18. ASSUME NEW c \in Calls, Notified(c) PROVE TypeOK' /\ Issued'
  <2>1. call' = Settled({c}) /\ call' \in [Calls -> Call]
    BY <1>0, <1>18, SettledType DEF Notified
  <2>2. Issued'
    BY <1>0, <1>18, <2>1 DEF Notified, Settled, Issued, server
  <2> QED BY <1>0, <1>18, <2>1, <2>2 DEF Notified, TypeOK, server, history
<1>12. CASE KeepAlive
  <2>1. /\ failedQueue' \subseteq Callers /\ stranded' \subseteq Callers
        /\ UNCHANGED <<server, token, shown, login, call, who, crossed, late>>
    BY <1>0, <1>12 DEF KeepAlive, TypeOK, Callers, Join
  <2>2. CASE UNCHANGED <<isRefreshing, refreshes>>
    BY <1>0, <2>1, <2>2 DEF TypeOK, Issued, server, shown
  <2>3. CASE Begin("modal") /\ token # 0
    <3>1. Issued'
      BY <1>0, <2>1, <2>3 DEF Begin, Issued, server
    <3>2. "modal" \in Callers
      BY DEF Callers
    <3> QED BY <1>0, <2>1, <2>3, <3>1, <3>2, BeginType DEF TypeOK, server, shown
  <2> QED BY <1>12, <2>2, <2>3 DEF KeepAlive, Join
<1>13. ASSUME NEW r \in refreshes, ServeRefresh(r) PROVE TypeOK' /\ Issued'
  <2>1. r \in Refresh /\ r.old \in 1..Len(owner) /\ owner[r.old] \in Users
    BY <1>0 DEF TypeOK, Issued
  <2>2. UNCHANGED <<token, shown, login, call, waiting, history>>
    BY <1>13 DEF ServeRefresh
  <2>3. ASSUME NEW at \in {"ok", "refused", "failed"}, NEW k \in 0..Len(owner'), Become(r, at, k),
               owner' \in Seq(Users), Len(owner') <= MaxSessions, Len(owner') \in Nat,
               Len(owner) <= Len(owner'), sessions' \subseteq 1..Len(owner')
        PROVE  TypeOK' /\ Issued'
    <3> DEFINE q == [r EXCEPT !.at = at, !.new = k]
    <3>0. k \in 0..MaxSessions
      BY <2>3
    <3>1. q \in Refresh /\ q.old = r.old /\ q.new = k
      BY <2>1, <2>3, <3>0 DEF Refresh
    <3>2. refreshes' = (refreshes \ {r}) \cup {q}
      BY <2>3 DEF Become
    <3> HIDE DEF q
    <3>3. refreshes' \subseteq Refresh
      BY <1>0, <3>1, <3>2 DEF TypeOK
    <3>4. token' \in 0..Len(owner') /\ \A d \in Calls : call[d].at # "idle" => call[d].token \in 1..Len(owner')
      BY <1>0, <2>2, <2>3 DEF Issued
    <3>5. Issued'
      BY <1>0, <2>1, <2>2, <2>3, <3>1, <3>2, <3>4 DEF Issued
    <3> QED BY <1>0, <2>2, <2>3, <3>3, <3>4, <3>5 DEF TypeOK, shown, waiting, history
  <2>4. CASE r.old \in sessions /\ Room /\ owner' = Append(owner, owner[r.old])
             /\ sessions' = (sessions \ {r.old}) \cup {Len(owner')} /\ Become(r, "ok", Len(owner'))
    <3>1. sessions' \subseteq 1..Len(owner') /\ Len(owner') \in 0..Len(owner')
      <4>1. Len(owner') = Len(owner) + 1
        BY <1>0, <2>1, <2>4, NextSession
      <4>2. sessions' \subseteq 1..Len(owner')
        BY <1>0, <2>4, <4>1, MoreSessions
      <4> QED BY <1>0, <4>1, <4>2
    <3> QED BY <1>0, <2>1, <2>3, <2>4, <3>1, NextSession
  <2>5. CASE Become(r, "refused", 0) /\ UNCHANGED server
    <3>1. owner' = owner /\ sessions' = sessions
      BY <2>5 DEF server
    <3>2. owner' \in Seq(Users) /\ Len(owner') \in Nat
      BY <1>0, <3>1 DEF TypeOK
    <3>3. 0 \in 0..Len(owner') /\ Len(owner') <= MaxSessions /\ Len(owner) <= Len(owner')
      BY <1>0, <3>1, <3>2
    <3> QED BY <1>0, <2>3, <2>5, <3>1, <3>2, <3>3
  <2>6. CASE Become(r, "failed", 0) /\ UNCHANGED owner /\ sessions' \in {sessions, sessions \ {r.old}}
    BY <1>0, <2>3, <2>6 DEF TypeOK
  <2> QED BY <1>13, <2>4, <2>5, <2>6 DEF ServeRefresh
<1>14. ASSUME NEW r \in refreshes, Refreshed(r) PROVE TypeOK' /\ Issued'
  <2>1. r.new \in 1..Len(owner) /\ r.new \in 0..MaxSessions
    <3>1. r.new \in 0..Len(owner) /\ r.new # 0
      BY <1>0, <1>14 DEF Refreshed, Issued, SInv, RefreshLine
    <3> QED BY <1>0, <3>1
  <2>2. call' \in [Calls -> Call]
    BY <1>0, <1>14, <2>1 DEF Refreshed, TypeOK, Call
  <2>3. \A d \in Calls : call'[d] = call[d] \/ call'[d].token = r.new
    BY <1>0, <1>14 DEF Refreshed, TypeOK, Call
  <2>4. Issued'
    BY <1>0, <1>14, <2>1, <2>3 DEF Refreshed, Issued, server
  <2>5. token' \in 0..Len(owner')
    <3>1. token' = r.new /\ owner' = owner
      BY <1>14 DEF Refreshed, server
    <3> QED BY <1>0, <2>1, <3>1
  <2> QED BY <1>0, <1>14, <2>2, <2>4, <2>5 DEF Refreshed, TypeOK, server, shown
<1>15. ASSUME NEW r \in refreshes, RefreshFailed(r) PROVE TypeOK' /\ Issued'
  <2>1. /\ call' \in [Calls -> Call]
        /\ \A d \in Calls : call'[d].at # "idle" => call'[d].token \in 1..Len(owner)
        /\ failedQueue' \subseteq Callers /\ stranded' \subseteq Callers
        /\ isRefreshing' \in BOOLEAN
    <3>1. CASE r.by = "modal"
      BY <1>0, <1>15, <3>1 DEF RefreshFailed, TypeOK, Issued
    <3>2. CASE r.by # "modal"
      <4>1. r.by \in Calls /\ call[r.by].at # "idle" /\ TellFailure(r.by)
        BY <1>0, <1>15, <3>2 DEF RefreshFailed, TypeOK, Refresh, Callers, SInv, OneRefresh, Waits
      <4> QED BY <1>0, <4>1, TellType DEF TellFailure
    <3> QED BY <3>1, <3>2
  <2>3. clearAll(refreshes \ {r})
    BY <1>15 DEF RefreshFailed
  <2>4. token' \in 0..Len(owner) /\ refreshes' \subseteq refreshes
    <3>1. token' = 0 /\ refreshes' = refreshes \ {r}
      BY <1>15, <2>3 DEF RefreshFailed, clearAll
    <3> QED BY <1>0, <3>1
  <2>5. Issued'
    BY <1>0, <1>15, <2>1, <2>4 DEF RefreshFailed, Issued, server
  <2> QED BY <1>0, <1>15, <2>1, <2>3, <2>4, <2>5, ClearType DEF RefreshFailed, TypeOK, server
<1>16. ASSUME NEW k \in sessions, Revoke(k) PROVE TypeOK' /\ Issued'
  BY <1>0, <1>16 DEF Revoke, TypeOK, Issued, shown, waiting, history
<1>17. CASE UNCHANGED vars
  BY <1>0, <1>17 DEF vars, TypeOK, Issued, server, shown, waiting, history
<1> QED BY <1>1, <1>2, <1>3, <1>4, <1>5, <1>6, <1>7, <1>8, <1>9, <1>10, <1>11, <1>12, <1>13,
           <1>14, <1>15, <1>16, <1>17, <1>18 DEF Next, Handle, HandleRefresh

-----------------------------------------------------------------------------
(* The refresh under way                                                   *)

\* A step without a part in a refresh: the sessions may end, a new one may come, and the
\* token changes only when the history says so.
LEMMA RefreshApart ==
    ASSUME SInv, UNCHANGED <<isRefreshing, refreshes>>,
           \A c \in Calls : (Told(c)' <=> Told(c)) /\ (Waits(c) => Waits(c)'),
           \A r \in refreshes : r.at = "refused" => r.old \notin sessions',
           \A k \in 1..Len(owner) : owner'[k] = owner[k],
           ~ crossed' /\ refreshes # {} => ~ crossed /\ token' = token
    PROVE  OneRefresh' /\ RefreshLine'
<1>1. \A r \in refreshes : r.new # 0 => r.new \in 1..Len(owner) /\ r.old \in 1..Len(owner)
  BY DEF SInv, Issued
<1>2. RefreshLine'
  BY <1>1 DEF SInv, RefreshLine
<1> QED BY <1>2 DEF SInv, OneRefresh

\* A refresh begins with the window's token, when there is none under way.
LEMMA RefreshBegins ==
    ASSUME SInv, NEW by, Begin(by), ~ isRefreshing, UNCHANGED <<server, token, crossed>>,
           \A c \in Calls : Told(c)' => Told(c), by \in Calls => Waits(by)'
    PROVE  OneRefresh' /\ RefreshLine'
<1> DEFINE new == [by |-> by, old |-> token, new |-> 0, at |-> "sent"]
<1>1. refreshes' = {new} /\ isRefreshing'
  BY DEF Begin, SInv, OneRefresh
<1>2. new.at = "sent" /\ new.old = token /\ new.by = by
  OBVIOUS
<1>3. \A c \in Calls : ~ Told(c)'
  BY DEF SInv, OneRefresh
<1> HIDE DEF new
<1> QED BY <1>1, <1>2, <1>3 DEF OneRefresh, RefreshLine

\* What becomes of the calls that wait and of those that were told.
LEMMA SettledApart ==
    ASSUME NEW c \in Calls, call[c].at \notin {"waiting", "told"}, call' = Settled({c})
    PROVE  \A d \in Calls : (Told(d)' <=> Told(d)) /\ (Waits(d) => Waits(d)')
  BY DEF Settled, Idle, Told, Waits

LEMMA MovedApart ==
    ASSUME call \in [Calls -> Call], NEW c \in Calls, call[c].at \notin {"waiting", "told"},
           NEW q, q.at # "told", call' = [call EXCEPT ![c] = q]
    PROVE  \A d \in Calls : (Told(d)' <=> Told(d)) /\ (Waits(d) => Waits(d)')
  BY DEF Told, Waits

LEMMA TellRefresh ==
    ASSUME SInv, NEW c \in Calls, TellFailure(c), \A d \in Calls : ~ Told(d), refreshes' = {}
    PROVE  OneRefresh' /\ RefreshLine'
<1>1. \A d \in Calls : Told(d)' <=> d = c
  BY DEF SInv, TypeOK, TellFailure, Settled, Idle, Told, Call
<1> QED BY <1>1 DEF OneRefresh, RefreshLine, TellFailure

LEMMA RefreshStep == SInv /\ [Next]_vars => OneRefresh' /\ RefreshLine'
<1> SUFFICES ASSUME SInv, [Next]_vars PROVE OneRefresh' /\ RefreshLine'
  OBVIOUS
<1>0. \A r \in refreshes : r.at = "refused" => r.old \notin sessions
  BY DEF SInv, RefreshLine
<1>1. ASSUME NEW u \in Users, AskLogin(u) PROVE OneRefresh' /\ RefreshLine'
  BY <1>0, <1>1, RefreshApart DEF AskLogin, server, waiting, history, Told, Waits
<1>2. ASSUME NEW c \in Calls, Login(c) PROVE OneRefresh' /\ RefreshLine'
  <2>1. TypeOK /\ login \in Users /\ \A r \in refreshes : r.old \in 1..Len(owner)
    BY <1>2 DEF SInv, TypeOK, Issued, Login
  <2>2. \A k \in 1..Len(owner) : owner'[k] = owner[k] /\ k # Len(owner')
    BY <1>2, <2>1, NextSession DEF Login
  <2>3. sessions' = sessions \cup {Len(owner')} /\ crossed' = (refreshes # {})
        /\ UNCHANGED <<isRefreshing, refreshes>>
    BY <1>2 DEF Login, waiting
  <2>4. \A d \in Calls : (Told(d)' <=> Told(d)) /\ (Waits(d) => Waits(d)')
    BY <1>2, <2>1 DEF Login, loadFromApi, Sent, Told, Waits, TypeOK
  <2> QED BY <1>0, <2>1, <2>2, <2>3, <2>4, RefreshApart
<1>3. CASE LoginRefused \/ Logout \/ SessionRevoked
  <2>1. clearAll(refreshes) /\ UNCHANGED <<server, waiting, refreshes, call>>
    BY <1>3 DEF LoginRefused, Logout, SessionRevoked
  <2> QED BY <1>0, <2>1, RefreshApart DEF clearAll, server, waiting, Told, Waits
<1>4. CASE LoginFailed
  BY <1>0, <1>4, RefreshApart DEF LoginFailed, server, waiting, history, Told, Waits
<1>5. CASE Reload
  BY <1>5 DEF Reload, OneRefresh, RefreshLine, Told, Idle
<1>6. ASSUME NEW c \in Calls, \/ initFromStorage(c) \/ Ask(c) \/ ForceLoad(c)
                             \/ Serve(c) \/ Fail(c) \/ Answered(c)
      PROVE  OneRefresh' /\ RefreshLine'
  <2>1. UNCHANGED <<server, token, waiting, refreshes, history>>
    BY <1>6 DEF initFromStorage, Ask, ForceLoad, Serve, Fail, Answered
  <2>2. \A d \in Calls : (Told(d)' <=> Told(d)) /\ (Waits(d) => Waits(d)')
    <3>1. call \in [Calls -> Call]
      BY DEF SInv, TypeOK
    <3>2. CASE initFromStorage(c) \/ Ask(c) \/ ForceLoad(c)
      BY <3>1, <3>2 DEF initFromStorage, Ask, ForceLoad, loadFromApi, Sent, Told, Waits
    <3>3. CASE Fail(c) \/ Answered(c)
      BY <3>3, SettledApart DEF Fail, Answered
    <3>4. CASE Serve(c)
      BY <3>1, <3>4, SettledApart DEF Serve, Told, Waits, Call
    <3> QED BY <1>6, <3>2, <3>3, <3>4
  <2> QED BY <1>0, <2>1, <2>2, RefreshApart DEF server, waiting, history
<1>7. ASSUME NEW c \in Calls, Denied(c) PROVE OneRefresh' /\ RefreshLine'
  <2>0. call \in [Calls -> Call] /\ call[c].at = "denied"
        /\ UNCHANGED <<server, token, crossed>>
    BY <1>7 DEF SInv, TypeOK, Denied
  <2>1. CASE call' = Settled({c}) /\ UNCHANGED <<isRefreshing, refreshes>>
    BY <1>0, <2>0, <2>1, SettledApart, RefreshApart DEF server
  <2>2. CASE ~ isRefreshing /\ TellFailure(c) /\ UNCHANGED refreshes
    BY <2>0, <2>2, TellRefresh DEF SInv, OneRefresh
  <2>3. CASE call' = [call EXCEPT ![c].at = "waiting", ![c].retried = TRUE]
    <3>1. \A d \in Calls : (Told(d)' <=> Told(d)) /\ (Waits(d) => Waits(d)') /\ Waits(c)'
      BY <2>0, <2>3 DEF Told, Waits, Call
    <3>2. CASE UNCHANGED <<isRefreshing, refreshes>>
      BY <1>0, <2>0, <3>1, <3>2, RefreshApart DEF server
    <3>3. CASE Begin(c) /\ ~ isRefreshing
      BY <2>0, <3>1, <3>3, RefreshBegins
    <3> QED BY <1>7, <2>3, <3>2, <3>3, <2>1, <2>2 DEF Denied, Join, waiting
  <2> QED BY <1>7, <2>1, <2>2, <2>3 DEF Denied, waiting
<1>13. ASSUME NEW c \in Calls, Notified(c) PROVE OneRefresh' /\ RefreshLine'
  <2>1. call \in [Calls -> Call] /\ refreshes = {} /\ \A d \in Calls : Told(d) => d = c
    BY <1>13 DEF SInv, TypeOK, OneRefresh, Told, Notified
  <2>2. \A d \in Calls : ~ Told(d)'
    BY <1>13, <2>1 DEF Notified, Settled, Idle, Told
  <2> QED BY <1>13, <2>1, <2>2 DEF Notified, OneRefresh, RefreshLine
<1>8. CASE KeepAlive
  <2>0. UNCHANGED <<server, token, crossed, call>>
    BY <1>8 DEF KeepAlive
  <2>1. CASE UNCHANGED <<isRefreshing, refreshes>>
    BY <1>0, <2>0, <2>1, RefreshApart DEF server, Told, Waits
  <2>2. CASE Begin("modal") /\ ~ isRefreshing
    BY <2>0, <2>2, RefreshBegins, SessionAssumption DEF Told
  <2> QED BY <1>8, <2>1, <2>2 DEF KeepAlive, Join
<1>9. ASSUME NEW r \in refreshes, ServeRefresh(r) PROVE OneRefresh' /\ RefreshLine'
  <2>1. /\ r \in Refresh /\ r.old \in 1..Len(owner) /\ owner[r.old] \in Users
        /\ \A q \in refreshes : q = r
    BY DEF SInv, TypeOK, Issued, OneRefresh
  <2>2. UNCHANGED <<token, waiting, crossed, call>>
    BY <1>9 DEF ServeRefresh, history
  <2>3. ASSUME NEW at, NEW k, Become(r, at, k),
               at = "ok" => k # 0 /\ owner'[k] = owner'[r.old],
               at = "refused" => r.old \notin sessions'
        PROVE  OneRefresh' /\ RefreshLine'
    <3> DEFINE q == [r EXCEPT !.at = at, !.new = k]
    <3>1. q.at = at /\ q.new = k /\ q.old = r.old /\ q.by = r.by
      BY <2>1 DEF Refresh
    <3>2. refreshes' = {q}
      BY <2>1, <2>3 DEF Become
    <3> HIDE DEF q
    <3>3. ~ crossed => r.old = token
      BY DEF SInv, RefreshLine
    <3>4. OneRefresh'
      BY <2>1, <2>2, <3>1, <3>2 DEF SInv, OneRefresh, waiting, Told, Waits
    <3> QED BY <2>2, <2>3, <3>1, <3>2, <3>3, <3>4 DEF SInv, RefreshLine
  <2>4. CASE Room /\ owner' = Append(owner, owner[r.old]) /\ Become(r, "ok", Len(owner'))
    <3>1. owner'[Len(owner')] = owner[r.old] /\ owner'[r.old] = owner[r.old] /\ Len(owner') # 0
      BY <2>1, <2>4, NextSession DEF SInv
    <3> QED BY <2>3, <2>4, <3>1
  <2>5. CASE r.old \notin sessions /\ Become(r, "refused", 0) /\ UNCHANGED server
    BY <2>3, <2>5 DEF server
  <2>6. CASE Become(r, "failed", 0)
    BY <2>3, <2>6
  <2> QED BY <1>9, <2>4, <2>5, <2>6 DEF ServeRefresh
<1>10. ASSUME NEW r \in refreshes, Refreshed(r) \/ RefreshFailed(r)
       PROVE  OneRefresh' /\ RefreshLine'
  <2>1. refreshes' = {} /\ call \in [Calls -> Call] /\ \A d \in Calls : ~ Told(d)
    BY <1>10 DEF Refreshed, RefreshFailed, SInv, TypeOK, OneRefresh
  <2>2. CASE RefreshFailed(r) /\ r.by # "modal"
    <3>1. r.by \in Calls /\ TellFailure(r.by)
      BY <2>2 DEF RefreshFailed, SInv, TypeOK, Refresh, Callers
    <3> QED BY <2>1, <3>1, TellRefresh
  <2>3. CASE ~ isRefreshing' /\ \A d \in Calls : ~ Told(d)'
    BY <2>1, <2>3 DEF OneRefresh, RefreshLine
  <2>4. CASE Refreshed(r)
    BY <2>1, <2>3, <2>4 DEF Refreshed, Told, Call
  <2>5. CASE RefreshFailed(r) /\ r.by = "modal"
    BY <2>1, <2>3, <2>5 DEF RefreshFailed, Told
  <2> QED BY <1>10, <2>2, <2>4, <2>5
<1>11. ASSUME NEW k \in sessions, Revoke(k) PROVE OneRefresh' /\ RefreshLine'
  BY <1>0, <1>11, RefreshApart DEF Revoke, waiting, history, Told, Waits
<1>12. CASE UNCHANGED vars
  BY <1>0, <1>12, RefreshApart DEF vars, server, waiting, history, Told, Waits
<1> QED BY <1>1, <1>2, <1>3, <1>4, <1>5, <1>6, <1>7, <1>8, <1>9, <1>10, <1>11, <1>12, <1>13
        DEF Next, Handle, HandleRefresh

-----------------------------------------------------------------------------
(* The user shown                                                          *)

Loading(c) == call[c].at # "idle" /\ call[c].what = "me"

\* A logout forgets the name; what is still on its way is remembered.
LEMMA UserCleared ==
    ASSUME NEW rest, clearAll(rest),
           (\A c \in Calls : ~ Loading(c)) => (\A c \in Calls : ~ Loading(c)')
    PROVE  UserLine'
  BY DEF clearAll, Loads, UserLine, Loading

\* A step that leaves token and name alone, and loads nothing but the user of the token.
LEMMA UserApart ==
    ASSUME SInv, UNCHANGED <<token, profile, who, crossed, late>>,
           \A k \in 1..Len(owner) : owner'[k] = owner[k],
           login' \in {login, NoUser} \/ token = 0,
           \A c \in Calls : Loading(c)' =>
               \/ Loading(c) /\ call'[c].token = call[c].token
               \/ token # 0 /\ call'[c].token = token
    PROVE  UserLine'
<1>1. /\ \A c \in Calls : Loading(c) => call[c].token \in 1..Len(owner)
      /\ token # 0 => token \in 1..Len(owner)
  <2>1. Len(owner) \in Nat /\ token \in 0..Len(owner)
    BY DEF SInv, TypeOK
  <2> QED BY <2>1 DEF SInv, Issued, Loading
<1> QED BY <1>1 DEF SInv, UserLine, Loading

\* A call that goes from one place to another asks what it asked.
LEMMA SettledLoads ==
    ASSUME NEW cs, call' = Settled(cs), NEW c \in Calls, Loading(c)'
    PROVE  Loading(c) /\ call'[c].token = call[c].token
  BY DEF Settled, Loading, Idle

LEMMA UserStep == SInv /\ [Next]_vars => UserLine'
<1> SUFFICES ASSUME SInv, [Next]_vars PROVE UserLine'
  OBVIOUS
<1>0. TypeOK /\ call \in [Calls -> Call] /\ UserLine
  BY DEF SInv, TypeOK
<1>1. ASSUME NEW u \in Users, AskLogin(u) PROVE UserLine'
  BY <1>1, UserApart DEF AskLogin, server, shown, history, Loading
<1>2. ASSUME NEW c \in Calls, Login(c) PROVE UserLine'
  <2>1. /\ login # NoUser /\ login' = NoUser /\ token' = Len(owner') /\ who' = login
        /\ profile' = profile
        /\ owner'[token'] = login
        /\ token' # 0
    BY <1>0, <1>2, NextSession DEF Login, TypeOK
  <2>2. late' = (((late \/ crossed) /\ profile # NoUser) \/ Loads(Calls))
    BY <1>2 DEF Login
  <2>3. \A d \in Calls : Loading(d)' => Loading(d) \/ call'[d].token = token'
    BY <1>0, <1>2 DEF Login, loadFromApi, Sent, Loading
  <2>4. ~ late' => /\ profile = NoUser
                   /\ \A d \in Calls : ~ Loading(d)
    BY <1>0, <2>1, <2>2 DEF UserLine, Loads, Loading
  <2> QED BY <2>1, <2>3, <2>4 DEF UserLine, Loading
<1>3. CASE LoginRefused \/ Logout \/ SessionRevoked
  <2>1. clearAll(refreshes) /\ call' = call
    BY <1>3 DEF LoginRefused, Logout, SessionRevoked
  <2> QED BY <2>1, UserCleared DEF Loading
<1>4. CASE LoginFailed
  BY <1>4, UserApart DEF LoginFailed, server, shown, history, Loading
<1>5. CASE Reload
  <2>1. \A c \in Calls : ~ Loading(c)'
    BY <1>5 DEF Reload, Idle, Loading
  <2> QED BY <1>5, <2>1, UserApart DEF Reload
<1>6. ASSUME NEW c \in Calls, initFromStorage(c) \/ Ask(c) \/ ForceLoad(c) PROVE UserLine'
  <2>1. token # 0 /\ UNCHANGED <<server, token, profile, login, history>>
    BY <1>6 DEF initFromStorage, Ask, ForceLoad, shown
  <2>2. \A d \in Calls : Loading(d)' =>
            \/ Loading(d) /\ call'[d].token = call[d].token
            \/ call'[d].token = token
    BY <1>0, <1>6 DEF initFromStorage, loadFromApi, Ask, ForceLoad, Sent, Loading
  <2> QED BY <2>1, <2>2, UserApart DEF server, history
<1>7. ASSUME NEW c \in Calls, Serve(c) \/ Fail(c) PROVE UserLine'
  <2>1. UNCHANGED <<server, token, profile, login, history>>
    BY <1>7 DEF Serve, Fail, shown
  <2>2. \A d \in Calls : Loading(d)' => Loading(d) /\ call'[d].token = call[d].token
    <3>1. CASE call' = Settled({c})
      BY <3>1, SettledLoads
    <3>2. ASSUME NEW at, call' = [call EXCEPT ![c].at = at]
          PROVE  \A d \in Calls : /\ call'[d].token = call[d].token /\ call'[d].what = call[d].what
                                 /\ d # c => call'[d] = call[d]
      BY <1>0, <3>2 DEF Call
    <3>3. CASE call[c].at = "sent" /\ \E at : call' = [call EXCEPT ![c].at = at]
      BY <3>2, <3>3 DEF Loading
    <3> QED BY <1>7, <3>1, <3>3 DEF Serve, Fail
  <2> QED BY <2>1, <2>2, UserApart DEF server, history
<1>8. ASSUME NEW c \in Calls, Answered(c) PROVE UserLine'
  <2>1. /\ call[c].at = "ok" /\ profile' = owner[call[c].token]
        /\ UNCHANGED <<owner, token, login, who, crossed, late>>
    BY <1>8 DEF Answered, server, history
  <2>2. \A d \in Calls : Loading(d)' => Loading(d) /\ call'[d].token = call[d].token
    BY <1>8, SettledLoads DEF Answered
  <2>3. ~ crossed /\ ~ late => token # 0 /\ profile' = who
    BY <1>0, <2>1 DEF UserLine, SInv, AnswerLine
  <2>4. \A d \in Calls : ~ crossed /\ ~ late /\ Loading(d)' =>
            token # 0 /\ owner[call'[d].token] = who
    BY <1>0, <2>2 DEF UserLine, Loading
  <2> QED BY <1>0, <2>1, <2>3, <2>4 DEF UserLine, Loading
<1>16. ASSUME NEW c \in Calls, TellFailure(c), call[c].at # "idle"
       PROVE  \A d \in Calls : Loading(d)' => Loading(d) /\ call'[d].token = call[d].token
  BY <1>0, <1>16 DEF TellFailure, Settled, Idle, Loading, Call
<1>9. ASSUME NEW c \in Calls, Denied(c) \/ Notified(c) PROVE UserLine'
  <2>1. UNCHANGED <<server, token, profile, login, who, crossed, late>>
    BY <1>9 DEF Denied, Notified, history
  <2>2. \A d \in Calls : Loading(d)' => Loading(d) /\ call'[d].token = call[d].token
    <3>1. CASE \E cs : call' = Settled(cs)
      BY <3>1, SettledLoads
    <3>2. CASE call' = [call EXCEPT ![c].at = "waiting", ![c].retried = TRUE]
      <4>1. \A d \in Calls : call'[d].token = call[d].token /\ call'[d].what = call[d].what
        BY <1>0, <3>2 DEF Call
      <4>2. \A d \in Calls : call[d].at = "idle" => call'[d].at = "idle"
        BY <1>0, <1>9, <3>2 DEF Denied, Notified, Call
      <4> QED BY <4>1, <4>2 DEF Loading
    <3> QED BY <1>9, <1>16, <3>1, <3>2 DEF Denied, Notified
  <2> QED BY <2>1, <2>2, UserApart DEF server
<1>10. CASE KeepAlive
  BY <1>10, UserApart DEF KeepAlive, server, shown, Loading
<1>11. ASSUME NEW r \in refreshes, ServeRefresh(r) PROVE UserLine'
  <2>1. UNCHANGED <<token, profile, login, call, who, crossed, late>>
    BY <1>11 DEF ServeRefresh, shown, history
  <2>2. \A k \in 1..Len(owner) : owner'[k] = owner[k]
    <3>1. owner[r.old] \in Users
      BY <1>0 DEF SInv, Issued, TypeOK
    <3> QED BY <1>0, <1>11, <3>1, NextSession DEF ServeRefresh, server
  <2> QED BY <2>1, <2>2, UserApart DEF Loading
<1>12. ASSUME NEW r \in refreshes, Refreshed(r) PROVE UserLine'
  <2>1. /\ token' = r.new /\ r.new # 0 /\ owner[r.new] = owner[r.old]
        /\ ~ crossed => r.old = token /\ token # 0
        /\ UNCHANGED <<owner, profile, login, who, crossed, late>>
    <3>1. r.old # 0
      BY DEF SInv, Issued
    <3> QED BY <1>12, <3>1 DEF Refreshed, SInv, RefreshLine, server, shown
  <2>2. \A d \in Calls : Loading(d)' =>
            \/ call'[d] = call[d]
            \/ call'[d].token = r.new
    BY <1>0, <1>12 DEF Refreshed, Call
  <2>3. ~ crossed => owner[token'] = who
    BY <1>0, <2>1 DEF UserLine
  <2>4. \A d \in Calls : ~ crossed /\ ~ late /\ Loading(d)' => owner[call'[d].token] = who
    BY <1>0, <2>1, <2>2, <2>3 DEF UserLine, Loading
  <2> QED BY <1>0, <2>1, <2>3, <2>4 DEF UserLine, Loading
<1>13. ASSUME NEW r \in refreshes, RefreshFailed(r) PROVE UserLine'
  <2>1. clearAll(refreshes \ {r}) /\ (call' = call \/ (r.by # "modal" /\ TellFailure(r.by)))
    BY <1>13 DEF RefreshFailed
  <2>2. \A c \in Calls : Loading(c)' => Loading(c)
    <3>1. r.by # "modal" => r.by \in Calls /\ call[r.by].at # "idle"
      BY <1>0 DEF SInv, TypeOK, Refresh, Callers, OneRefresh, Waits
    <3> QED BY <1>16, <2>1, <3>1 DEF Loading
  <2> QED BY <2>1, <2>2, UserCleared
<1>14. ASSUME NEW k \in sessions, Revoke(k) PROVE UserLine'
  BY <1>14, UserApart DEF Revoke, shown, history, Loading
<1>15. CASE UNCHANGED vars
  BY <1>15, UserApart DEF vars, server, shown, history, Loading
<1> QED BY <1>1, <1>2, <1>3, <1>4, <1>5, <1>6, <1>7, <1>8, <1>9, <1>10, <1>11, <1>12, <1>13,
           <1>14, <1>15 DEF Next, Handle, HandleRefresh

LEMMA AnswerStep == SInv /\ [Next]_vars => AnswerLine'
<1> SUFFICES ASSUME SInv, [Next]_vars PROVE AnswerLine'
  OBVIOUS
<1>0. call \in [Calls -> Call] /\ AnswerLine
  BY DEF SInv, TypeOK
<1>1. CASE call' = call
  BY <1>0, <1>1 DEF AnswerLine
<1>2. ASSUME NEW cs, call' = Settled(cs) PROVE AnswerLine'
  BY <1>0, <1>2 DEF AnswerLine, Settled, Idle
<1>3. ASSUME NEW c \in Calls, NEW what, NEW k, call' = [call EXCEPT ![c] = Sent(what, k)]
      PROVE  AnswerLine'
  BY <1>0, <1>3 DEF AnswerLine, Sent
<1>4. ASSUME NEW c \in Calls, Serve(c) PROVE AnswerLine'
  <2>1. CASE call[c].what = "me" \/ call[c].token \notin sessions
    <3>1. \/ call' = [call EXCEPT ![c].at = "ok"] /\ call[c].what # "page"
          \/ call' = [call EXCEPT ![c].at = "denied"]
      BY <1>0, <1>4, <2>1 DEF Serve, Call
    <3>2. call[c].what \in {"me", "page"}
      BY <1>0 DEF Call
    <3> QED BY <1>0, <3>1, <3>2 DEF AnswerLine, Call
  <2>2. CASE call[c].what # "me" /\ call[c].token \in sessions
    BY <1>0, <1>2, <1>4, <2>2 DEF Serve, Call
  <2> QED BY <2>1, <2>2
<1>5. ASSUME NEW c \in Calls, Login(c) \/ initFromStorage(c) \/ Ask(c) \/ ForceLoad(c)
      PROVE  AnswerLine'
  <2>1. call' = call \/ \E what, k : call' = [call EXCEPT ![c] = Sent(what, k)]
    BY <1>5 DEF Login, initFromStorage, loadFromApi, Ask, ForceLoad
  <2> QED BY <1>1, <1>3, <2>1
<1>6. ASSUME NEW c \in Calls, Fail(c) \/ Answered(c) PROVE AnswerLine'
  BY <1>2, <1>6 DEF Fail, Answered
<1>11. ASSUME NEW c \in Callers, TellFailure(c) PROVE AnswerLine'
  BY <1>0, <1>11 DEF AnswerLine, TellFailure, Settled, Idle, Call
<1>7. ASSUME NEW c \in Calls, Denied(c) \/ Notified(c) PROVE AnswerLine'
  <2>1. CASE call' = [call EXCEPT ![c].at = "waiting", ![c].retried = TRUE]
    BY <1>0, <2>1 DEF AnswerLine, Call
  <2> QED BY <1>2, <1>7, <1>11, <2>1 DEF Denied, Notified, Callers
<1>8. ASSUME NEW r \in refreshes, HandleRefresh(r) PROVE AnswerLine'
  <2>1. CASE Refreshed(r)
    BY <1>0, <2>1 DEF Refreshed, AnswerLine, Call
  <2>2. r.by \in Callers
    BY DEF SInv, TypeOK, Refresh
  <2> QED BY <1>1, <1>8, <1>11, <2>1, <2>2 DEF HandleRefresh, ServeRefresh, RefreshFailed
<1>9. CASE \/ \E u \in Users : AskLogin(u)
           \/ LoginRefused \/ LoginFailed \/ Logout \/ KeepAlive \/ SessionRevoked
           \/ \E k \in sessions : Revoke(k)
           \/ UNCHANGED vars
  BY <1>1, <1>9 DEF AskLogin, LoginRefused, LoginFailed, Logout, KeepAlive, SessionRevoked,
     Revoke, vars
<1>10. CASE Reload
  BY <1>10 DEF Reload, AnswerLine, Idle
<1> QED BY <1>4, <1>5, <1>6, <1>7, <1>8, <1>9, <1>10 DEF Next, Handle

-----------------------------------------------------------------------------
(* Who waits                                                               *)

\* A step that makes nobody wait, and leaves who refreshes.
LEMMA WaitApart ==
    ASSUME SInv, UNCHANGED <<failedQueue, stranded>>,
           \A c \in Calls : Waits(c)' => Waits(c),
           \A r \in refreshes : \E q \in refreshes' : q.by = r.by
    PROVE  WaitLine'
  BY DEF SInv, WaitLine, NobodyForgotten, Waits

\* Without a refresh under way, whoever waits is stranded.
LEMMA NobodyWaits ==
    ASSUME SInv, refreshes = {}, NEW c \in Callers, c \in failedQueue \/ Waits(c)
    PROVE  c \in stranded
  BY DEF SInv, WaitLine, NobodyForgotten, Waits

\* Whoever joins the queue is told of the refresh under way, or there is none.
LEMMA WaitJoins ==
    ASSUME SInv, NEW c \in Callers, Join(c), \A d \in Calls : Waits(d)' => Waits(d) \/ d = c
    PROVE  WaitLine'
<1>1. CASE refreshes = {}
  BY <1>1, NobodyWaits DEF SInv, WaitLine, NobodyForgotten, Waits, Join, Callers
<1>2. CASE refreshes # {}
  BY <1>2 DEF SInv, WaitLine, NobodyForgotten, Waits, Join
<1> QED BY <1>1, <1>2

\* A failure is told to everyone who waits for it.
LEMMA WaitTold ==
    ASSUME SInv, NEW c \in Calls, TellFailure(c),
           \A d \in Calls : Waits(d) => d \in failedQueue \cup {c}
    PROVE  WaitLine'
<1>1. \A d \in Calls : ~ Waits(d)'
  BY DEF SInv, TypeOK, TellFailure, Settled, Idle, Waits, Call
<1> QED BY <1>1 DEF TellFailure, WaitLine, NobodyForgotten, Waits

LEMMA WaitStep == SInv /\ [Next]_vars => WaitLine'
<1> SUFFICES ASSUME SInv, [Next]_vars PROVE WaitLine'
  OBVIOUS
<1>0. call \in [Calls -> Call] /\ WaitLine /\ "modal" \notin Calls /\ stranded \subseteq failedQueue
  BY SessionAssumption DEF SInv, TypeOK, WaitLine
<1>1. ASSUME NEW cs, call' = Settled(cs)
      PROVE  \A d \in Calls : Waits(d)' => Waits(d) /\ d \notin cs
  BY <1>0, <1>1 DEF Settled, Idle, Waits
<1>2. ASSUME NEW c \in Calls, NEW what, NEW k, call' = [call EXCEPT ![c] = Sent(what, k)]
      PROVE  \A d \in Calls : Waits(d)' => Waits(d)
  BY <1>0, <1>2 DEF Sent, Waits
<1>3. CASE \/ \E u \in Users : AskLogin(u)
           \/ LoginRefused \/ LoginFailed \/ Logout \/ SessionRevoked
           \/ \E k \in sessions : Revoke(k)
           \/ UNCHANGED vars
  BY <1>3, WaitApart DEF AskLogin, LoginRefused, LoginFailed, Logout, SessionRevoked,
     Revoke, waiting, history, vars, Waits
<1>4. CASE Reload
  BY <1>4 DEF Reload, WaitLine, NobodyForgotten, Idle
<1>5. ASSUME NEW c \in Calls, \/ Login(c) \/ initFromStorage(c) \/ Ask(c) \/ ForceLoad(c)
                             \/ Serve(c) \/ Fail(c) \/ Answered(c)
      PROVE  WaitLine'
  <2>1. UNCHANGED <<failedQueue, stranded, refreshes>>
    BY <1>5 DEF Login, initFromStorage, Ask, ForceLoad, Serve, Fail, Answered, waiting, history
  <2>2. \A d \in Calls : Waits(d)' => Waits(d)
    <3>1. CASE Serve(c)
      BY <1>0, <1>1, <3>1 DEF Serve, Waits, Call
    <3>2. CASE Fail(c) \/ Answered(c)
      BY <1>1, <3>2 DEF Fail, Answered
    <3>3. CASE Login(c) \/ initFromStorage(c) \/ Ask(c) \/ ForceLoad(c)
      <4>1. call' = call \/ \E what, k : call' = [call EXCEPT ![c] = Sent(what, k)]
        BY <3>3 DEF Login, initFromStorage, loadFromApi, Ask, ForceLoad
      <4> QED BY <1>2, <4>1 DEF Waits
    <3> QED BY <1>5, <3>1, <3>2, <3>3
  <2> QED BY <2>1, <2>2, WaitApart
<1>6. ASSUME NEW c \in Calls, Denied(c) PROVE WaitLine'
  <2>1. CASE call' = Settled({c}) /\ UNCHANGED <<waiting, refreshes, stranded>>
    BY <1>1, <2>1, WaitApart DEF waiting
  <2>2. CASE ~ isRefreshing /\ TellFailure(c)
    <3>1. refreshes = {}
      BY <2>2 DEF SInv, OneRefresh
    <3> QED BY <1>0, <2>2, <3>1, NobodyWaits, WaitTold DEF Callers
  <2>3. CASE call' = [call EXCEPT ![c].at = "waiting", ![c].retried = TRUE]
    <3>1. \A d \in Calls : Waits(d)' => Waits(d) \/ d = c
      BY <1>0, <2>3 DEF Waits, Call
    <3>2. CASE Join(c)
      BY <3>1, <3>2, WaitJoins DEF Callers
    <3>3. CASE ~ isRefreshing /\ Begin(c) /\ UNCHANGED <<failedQueue, stranded>>
      <4>1. [by |-> c, old |-> token, new |-> 0, at |-> "sent"] \in refreshes' /\ refreshes = {}
        BY <3>3 DEF Begin, SInv, OneRefresh
      <4>2. \E r \in refreshes' : r.by = c
        BY <4>1
      <4> QED BY <1>0, <3>1, <3>3, <4>1, <4>2, NobodyWaits DEF WaitLine, NobodyForgotten, Waits
    <3> QED BY <1>6, <2>1, <2>2, <2>3, <3>2, <3>3 DEF Denied
  <2> QED BY <1>6, <2>1, <2>2, <2>3 DEF Denied
<1>12. ASSUME NEW c \in Calls, Notified(c) PROVE WaitLine'
  BY <1>1, <1>12, WaitApart DEF Notified, history
<1>7. CASE KeepAlive
  <2>1. call' = call
    BY <1>7 DEF KeepAlive
  <2>2. CASE Join("modal")
    BY <2>1, <2>2, WaitJoins DEF Waits, Callers
  <2>3. CASE ~ isRefreshing /\ UNCHANGED <<failedQueue, stranded>>
    <3>1. refreshes = {}
      BY <2>3 DEF SInv, OneRefresh
    <3> QED BY <1>0, <2>1, <2>3, <3>1, NobodyWaits DEF WaitLine, NobodyForgotten, Waits
  <2> QED BY <1>7, <2>2, <2>3 DEF KeepAlive
<1>8. ASSUME NEW r \in refreshes, ServeRefresh(r) PROVE WaitLine'
  <2>1. UNCHANGED <<failedQueue, stranded, call>>
    BY <1>8 DEF ServeRefresh, waiting, history
  <2>2. PICK at, k : Become(r, at, k)
    BY <1>8 DEF ServeRefresh
  <2>3. r \in Refresh
    BY DEF SInv, TypeOK
  <2>4. \A p \in refreshes : \E q \in refreshes' : q.by = p.by
    <3>1. [r EXCEPT !.at = at, !.new = k] \in refreshes' /\ refreshes \ {r} \subseteq refreshes'
      BY <2>2 DEF Become
    <3>2. [r EXCEPT !.at = at, !.new = k].by = r.by
      BY <2>3 DEF Refresh
    <3> QED BY <3>1, <3>2
  <2> QED BY <2>1, <2>4, WaitApart DEF Waits
<1>9. ASSUME NEW r \in refreshes, NEW d \in Calls, Waits(d), d \notin failedQueue
      PROVE  r.by = d
  BY <1>0, <1>9 DEF SInv, OneRefresh, NobodyForgotten, WaitLine, Waits, Callers
<1>10. ASSUME NEW r \in refreshes, Refreshed(r) PROVE WaitLine'
  <2>1. failedQueue' = {} /\ stranded' = {}
    BY <1>10 DEF Refreshed
  <2>2. \A d \in Calls : ~ Waits(d)'
    BY <1>0, <1>9, <1>10 DEF Refreshed, Waits, Call
  <2> QED BY <2>1, <2>2 DEF WaitLine, NobodyForgotten, Waits
<1>11. ASSUME NEW r \in refreshes, RefreshFailed(r) PROVE WaitLine'
  <2>1. CASE r.by = "modal" /\ stranded' = failedQueue /\ UNCHANGED <<call, failedQueue>>
    <3>1. \A d \in Calls : Waits(d) => d \in failedQueue
      BY <1>0, <1>9, <2>1
    <3> QED BY <2>1, <3>1 DEF WaitLine, NobodyForgotten, Waits
  <2>2. CASE r.by # "modal" /\ TellFailure(r.by)
    <3>1. r.by \in Calls
      BY <2>2 DEF SInv, TypeOK, Refresh, Callers
    <3> QED BY <1>9, <2>2, <3>1, WaitTold
  <2> QED BY <1>11, <2>1, <2>2 DEF RefreshFailed
<1> QED BY <1>3, <1>4, <1>5, <1>6, <1>7, <1>8, <1>10, <1>11, <1>12 DEF Next, Handle, HandleRefresh

-----------------------------------------------------------------------------
LEMMA SessionInductive == Spec => []SInv
<1>1. SInv /\ [Next]_vars => SInv'
  BY TypeStep, AnswerStep, RefreshStep, UserStep, WaitStep DEF SInv
<1> QED BY <1>1, SessionInit, PTL DEF Spec

\* Every variable keeps its type, whatever the number of calls and sessions.
THEOREM SessionTypes == Spec => []TypeOK
  BY SessionInductive, PTL DEF SInv

\* The token and the name shown are of the user who logged in, but for answers that were on
\* their way at a logout or a login.
THEOREM OneUserOnly == Spec => []OneUser
<1>1. SInv => OneUser
  BY DEF SInv, UserLine, OneUser
<1> QED BY <1>1, SessionInductive, PTL

\* The window renews the token it has, and its renewals do not end each other's session.
THEOREM OneRefreshOnly == Spec => []RefreshIsOfToken
<1>1. SInv => RefreshIsOfToken
  BY DEF SInv, RefreshLine, RefreshIsOfToken
<1> QED BY <1>1, SessionInductive, PTL

\* Whoever waits for a token has a renewal under way that tells it, but for those a failed
\* renewal leaves in the queue: of the modal, or joined while the failure was shown.
THEOREM EveryoneTold == Spec => []NobodyForgotten
  BY SessionInductive, PTL DEF SInv, WaitLine
=============================================================================
