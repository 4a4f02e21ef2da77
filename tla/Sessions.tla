------------------------------- MODULE Sessions -------------------------------
(***************************************************************************)
(* The refresh sessions of one user: the keys TokenService keeps in Redis, *)
(* the handlers of AuthService and JwtRefreshStrategy that read and write  *)
(* them, and the browser tabs, each with one refresh in flight at most     *)
(* (frontend/lib/api/api-client.ts).  One action is one Redis command or   *)
(* MULTI, or one read or write of a row.                                   *)
(*                                                                         *)
(* raced, strayed, cleared and orphaned are history variables: sessions    *)
(* issued while a revocation was between its two commands; tabs reloaded   *)
(* with a refresh in flight, or duplicated; sessions older than a          *)
(* revocation that is over; a process that died before it gave the counter *)
(* of failed logins its expiry.  crossings counts the failures that began  *)
(* a lockout since that counter last started from nothing.                 *)
(***************************************************************************)
EXTENDS Integers, FiniteSets

CONSTANTS
    Tabs,           \* browser tabs
    Ids,            \* session ids (jti)
    Requests,       \* handlers that may be in flight
    None,           \* no session, no tab
    Mixes,          \* bound: the sets of request kinds that a behaviour mixes
    Ttl,            \* days a session lives
    Window,         \* days the counter of failed logins lives
    MaxFailures,    \* failed logins that begin a lockout
    MaxCount,       \* bound: failed logins counted
    MaxClock        \* bound: days

ASSUME NoneAssumption == None \notin Ids \cup Tabs
ASSUME TtlAssumption  == Ttl \in Nat \ {0} /\ Window \in Nat \ {0} /\ MaxFailures \in Nat \ {0}

VARIABLES
    kinds,          \* the kinds of requests of this behaviour
    clock,
    session,        \* [Ids -> [state, until]]
    index,          \* the set of session ids kept for the user
    indexUntil,     \* when Redis drops the index
    tab,            \* [Tabs -> [token, flights]]
    req,            \* [Requests -> handler in flight]
    resetToken,     \* the one-time token of a password-reset mail
    failures,       \* [count, until]: the counter of failed logins; until = 0: no expiry
    lockedUntil,
    raced, strayed, cleared, orphaned, crossings

vars == <<kinds, clock, session, index, indexUntil, tab, req, resetToken, failures, lockedUntil,
          raced, strayed, cleared, orphaned, crossings>>

\* What a session key is: not there yet, there, replaced by its successor, removed.
SessionState == {"unused", "live", "rotated", "ended"}

Idle    == [pc |-> "idle", tab |-> None, session |-> None, alarm |-> FALSE, seen |-> {}, before |-> {}]
NoCount == [count |-> 0, until |-> 0]

Init == /\ kinds \in Mixes
        /\ clock = 0
        /\ session = [s \in Ids |-> [state |-> "unused", until |-> 0]]
        /\ index = {} /\ indexUntil = 0
        /\ tab = [t \in Tabs |-> [token |-> None, flights |-> {}]]
        /\ req = [h \in Requests |-> Idle]
        /\ resetToken = "live"
        /\ failures = NoCount /\ lockedUntil = 0
        /\ raced = {} /\ strayed = {} /\ cleared = {} /\ orphaned = FALSE /\ crossings = 0

Live(s) == session[s].state = "live"

TypeOK ==
    /\ kinds \in Mixes /\ clock \in 0 .. MaxClock
    /\ session \in [Ids -> [state : SessionState, until : 0 .. MaxClock + Ttl]]
    /\ index \subseteq Ids /\ indexUntil \in 0 .. MaxClock + Ttl
    /\ tab \in [Tabs -> [token : Ids \cup {None}, flights : SUBSET Requests]]
    /\ \A h \in Requests : req[h].seen \subseteq Ids /\ req[h].before \subseteq Ids
    /\ resetToken \in {"live", "used"}
    /\ failures.count \in 0 .. MaxCount /\ lockedUntil \in Nat
    /\ raced \subseteq Ids /\ strayed \subseteq Tabs /\ cleared \subseteq Ids

redisVars == <<session, index, indexUntil>>
countVars == <<failures, lockedUntil, crossings, orphaned>>
ghostVars == <<raced, strayed, cleared>>

-----------------------------------------------------------------------------
(* A day passes: Redis drops what has expired. *)

Tick ==
    /\ clock < MaxClock
    /\ clock' = clock + 1
    /\ session' = [s \in Ids |-> IF Live(s) /\ session[s].until <= clock'
                                 THEN [session[s] EXCEPT !.state = "ended"] ELSE session[s]]
    /\ index' = IF indexUntil <= clock' THEN {} ELSE index
    /\ LET over == failures.until # 0 /\ failures.until <= clock'
       IN  /\ failures' = IF over THEN NoCount ELSE failures
           /\ crossings' = IF over THEN 0 ELSE crossings
    /\ UNCHANGED <<kinds, indexUntil, tab, req, resetToken, lockedUntil, ghostVars, orphaned>>

-----------------------------------------------------------------------------
(* The commands of TokenService. *)

Goto(h, pc) == req' = [req EXCEPT ![h].pc = pc]
Finish(h)   == req' = [req EXCEPT ![h] = Idle]

\* issueTokenPair: the key, the index and the expiry of the index in one MULTI.
IndexExpiry_First == IF index = {} THEN clock + Ttl ELSE indexUntil
IndexExpiry == clock + Ttl
Issue(s) ==
    /\ session[s].state = "unused"
    /\ session' = [session EXCEPT ![s] = [state |-> "live", until |-> clock + Ttl]]
    /\ index' = index \cup {s}
    /\ indexUntil' = IndexExpiry
    /\ raced' = IF \E h \in Requests : req[h].pc = "delete" THEN raced \cup {s} ELSE raced

\* rotateRefreshSession and revokeSession: one MULTI.
Remove(s, as) ==
    /\ session' = [session EXCEPT ![s].state = IF @ = "live" THEN as ELSE @]
    /\ index' = index \ {s}

-----------------------------------------------------------------------------
(* The tabs. *)

\* What a tab does with the answer to a refresh it still waits for: a failure, or no
\* answer, clears its tokens and leads to the login page.
Answered(h, s) ==
    LET t == req[h].tab
    IN  tab' = IF t # None /\ h \in tab[t].flights
               THEN [tab EXCEPT ![t] = [token |-> s, flights |-> @.flights \ {h}]] ELSE tab

\* apiFetch shares the refresh in flight between the calls of one tab.
MayStart_EachCall(t) == TRUE
MayStart(t) == tab[t].flights = {}
StartRefresh(t, h) ==
    /\ "refresh" \in kinds
    /\ tab[t].token # None /\ MayStart(t) /\ req[h].pc = "idle"
    /\ IF session[tab[t].token].until <= clock
       THEN tab' = [tab EXCEPT ![t].token = None] /\ UNCHANGED req   \* the JWT itself has expired
       ELSE /\ tab' = [tab EXCEPT ![t].flights = @ \cup {h}]
            /\ req' = [req EXCEPT ![h] = [Idle EXCEPT !.pc = "validate", !.tab = t,
                                            !.session = tab[t].token]]
    /\ UNCHANGED <<kinds, clock, redisVars, resetToken, countVars, ghostVars>>

\* A reload loses the flight; a duplicated tab starts with a copy of the token.
Reload(t) ==
    /\ "reload" \in kinds
    /\ tab[t].flights # {}
    /\ tab' = [tab EXCEPT ![t].flights = {}]
    /\ strayed' = strayed \cup {t}
    /\ UNCHANGED <<kinds, clock, redisVars, req, resetToken, countVars, raced, cleared>>

Duplicate(t, copy) ==
    /\ "reload" \in kinds
    /\ tab[t].token # None /\ tab[copy].token = None /\ tab[copy].flights = {}
    /\ tab' = [tab EXCEPT ![copy].token = tab[t].token]
    /\ strayed' = strayed \cup {t, copy}
    /\ UNCHANGED <<kinds, clock, redisVars, req, resetToken, countVars, raced, cleared>>

Logout(t) ==
    /\ "logout" \in kinds
    /\ tab[t].token # None /\ tab[t].flights = {}
    /\ Remove(tab[t].token, "ended")
    /\ tab' = [tab EXCEPT ![t].token = None]
    /\ UNCHANGED <<kinds, clock, indexUntil, req, resetToken, countVars, ghostVars>>

\* DELETE /auth/sessions/:jti, from any device.
RevokeSession(s) ==
    /\ "logout" \in kinds
    /\ Live(s)
    /\ Remove(s, "ended")
    /\ UNCHANGED <<kinds, clock, indexUntil, tab, req, resetToken, countVars, ghostVars>>

-----------------------------------------------------------------------------
(* Refresh: JwtRefreshStrategy.validate, then AuthService.refresh. *)

Validate(h) ==
    /\ req[h].pc = "validate"
    /\ IF Live(req[h].session) THEN Goto(h, "rotate")
       ELSE req' = [req EXCEPT ![h].pc = "members", ![h].alarm = TRUE]
    /\ UNCHANGED <<kinds, clock, redisVars, tab, resetToken, countVars, ghostVars>>

\* A user without an active membership is refused before anything changes.
Rotate(h) ==
    /\ req[h].pc = "rotate"
    /\ \/ Finish(h) /\ Answered(h, None) /\ UNCHANGED redisVars
       \/ Goto(h, "issue") /\ Remove(req[h].session, "rotated") /\ UNCHANGED <<indexUntil, tab>>
    /\ UNCHANGED <<kinds, clock, resetToken, countVars, ghostVars>>

IssueNext(h) ==
    /\ req[h].pc = "issue"
    /\ \E s \in Ids : Issue(s) /\ (Answered(h, s) \/ Answered(h, None))
    /\ Finish(h)
    /\ UNCHANGED <<kinds, clock, resetToken, countVars, strayed, cleared>>

-----------------------------------------------------------------------------
(* Revoking every session: after a reset, "log out everywhere", or an alarm. *)

LogoutAll(h) ==
    /\ "logoutAll" \in kinds /\ req[h].pc = "idle"
    /\ Goto(h, "members")
    /\ UNCHANGED <<kinds, clock, redisVars, tab, resetToken, countVars, ghostVars>>

\* consumePasswordResetToken reads and deletes in two commands.
Reset(h) ==
    /\ "reset" \in kinds /\ req[h].pc = "idle" /\ resetToken = "live"
    /\ Goto(h, "spend")
    /\ UNCHANGED <<kinds, clock, redisVars, tab, resetToken, countVars, ghostVars>>

Spend(h) ==
    /\ req[h].pc = "spend"
    /\ resetToken' = "used"
    /\ Goto(h, "members")
    /\ UNCHANGED <<kinds, clock, redisVars, tab, countVars, ghostVars>>

Members(h) ==
    /\ req[h].pc = "members"
    /\ LET older == {s \in Ids : session[s].state # "unused"}
       IN  IF index = {}
           THEN Finish(h) /\ Answered(h, None) /\ cleared' = cleared \cup older
           ELSE /\ req' = [req EXCEPT ![h].pc = "delete", ![h].seen = index, ![h].before = older]
                /\ UNCHANGED <<tab, cleared>>
    /\ UNCHANGED <<kinds, clock, redisVars, resetToken, countVars, raced, strayed>>

Doomed_Own(h) == IF req[h].alarm THEN {req[h].session} ELSE req[h].seen
Doomed(h) == req[h].seen
Delete(h) ==
    /\ req[h].pc = "delete"
    /\ session' = [s \in Ids |-> IF s \in Doomed(h) /\ Live(s) THEN [session[s] EXCEPT !.state = "ended"]
                                 ELSE session[s]]
    /\ index' = {}
    /\ cleared' = cleared \cup req[h].before
    /\ Finish(h) /\ Answered(h, None)
    /\ UNCHANGED <<kinds, clock, indexUntil, resetToken, countVars, raced, strayed>>

-----------------------------------------------------------------------------
(* Logging in: AuthService.login and recordFailedLoginAttempt. *)

StartLogin(t, h) ==
    /\ "login" \in kinds /\ req[h].pc = "idle" /\ lockedUntil <= clock
    /\ tab[t].token = None /\ tab[t].flights = {}
    /\ req' = [req EXCEPT ![h] = [Idle EXCEPT !.pc = "verify", !.tab = t]]
    /\ tab' = [tab EXCEPT ![t].flights = {h}]
    /\ UNCHANGED <<kinds, clock, redisVars, resetToken, countVars, ghostVars>>

\* The right password clears the counter; a wrong one is counted.
Verify(h) ==
    /\ req[h].pc = "verify"
    /\ \/ /\ Goto(h, "issue")
          /\ failures' = NoCount /\ crossings' = 0 /\ orphaned' = FALSE
       \/ "wrong" \in kinds /\ Goto(h, "incr") /\ UNCHANGED <<failures, crossings, orphaned>>
    /\ UNCHANGED <<kinds, clock, redisVars, tab, resetToken, lockedUntil, ghostVars>>

First(n) == n = 1
Crosses_AtLeast(n) == n >= MaxFailures
Crosses(n) == n = MaxFailures
Incr(h) ==
    /\ req[h].pc = "incr" /\ failures.count < MaxCount
    /\ LET n == failures.count + 1
       IN  /\ failures' = [failures EXCEPT !.count = n]
           /\ crossings' = IF Crosses(n) THEN crossings + 1 ELSE crossings
           /\ IF First(n) THEN Goto(h, "expiry") /\ UNCHANGED tab
              ELSE IF n >= MaxFailures THEN Goto(h, "lock") /\ UNCHANGED tab
              ELSE Finish(h) /\ Answered(h, None)
    /\ UNCHANGED <<kinds, clock, redisVars, resetToken, lockedUntil, orphaned, ghostVars>>

Expiry(h) ==
    /\ req[h].pc = "expiry"
    /\ failures' = IF failures.count = 0 THEN failures ELSE [failures EXCEPT !.until = clock + Window]
    /\ IF 1 >= MaxFailures THEN Goto(h, "lock") /\ UNCHANGED tab
       ELSE Finish(h) /\ Answered(h, None)
    /\ UNCHANGED <<kinds, clock, redisVars, resetToken, lockedUntil, crossings, orphaned, ghostVars>>

Lock(h) ==
    /\ req[h].pc = "lock"
    /\ lockedUntil' = clock + Window
    /\ Finish(h) /\ Answered(h, None)
    /\ UNCHANGED <<kinds, clock, redisVars, resetToken, failures, crossings, orphaned, ghostVars>>

\* The process dies: its requests are gone, and what they had not yet written.
Crash ==
    /\ "crash" \in kinds
    /\ \E h \in Requests : req[h].pc # "idle"
    /\ req' = [h \in Requests |-> Idle]
    /\ tab' = [t \in Tabs |-> IF tab[t].flights = {} THEN tab[t] ELSE [token |-> None, flights |-> {}]]
    /\ orphaned' = (orphaned \/ \E h \in Requests : req[h].pc = "expiry")
    /\ UNCHANGED <<kinds, clock, redisVars, resetToken, failures, lockedUntil, crossings, ghostVars>>

-----------------------------------------------------------------------------
Next ==
    \/ Tick \/ Crash
    \/ \E t \in Tabs : Reload(t) \/ Logout(t)
    \/ \E t \in Tabs, copy \in Tabs : Duplicate(t, copy)
    \/ \E t \in Tabs, h \in Requests : StartRefresh(t, h) \/ StartLogin(t, h)
    \/ \E s \in Ids : RevokeSession(s)
    \/ \E h \in Requests : \/ Validate(h) \/ Rotate(h) \/ IssueNext(h)
                           \/ LogoutAll(h) \/ Reset(h) \/ Spend(h) \/ Members(h) \/ Delete(h)
                           \/ Verify(h) \/ Incr(h) \/ Expiry(h) \/ Lock(h)

Spec == Init /\ [][Next]_vars

-----------------------------------------------------------------------------
(* Properties. *)

\* A tab that was neither reloaded in the middle of a refresh nor duplicated never
\* presents a token that was rotated: the alarm that ends every session is raised by
\* such a tab, or for a session that was ended (jwt-refresh.strategy.ts 41-45).
AlarmExplained ==
    \A h \in Requests : req[h].alarm =>
        req[h].tab \in strayed \/ session[req[h].session].state = "ended"

\* Every session that works is in the user's index, so that the list of devices shows
\* it and the next revocation finds it; except one issued in the middle of a revocation.
LiveIsListed == \A s \in Ids \ raced : Live(s) => s \in index

\* A revocation of every session leaves none of the sessions that were there before.
RevokedAllAreGone == \A s \in cleared \ raced : ~ Live(s)

\* One failed login begins a lockout, however many are counted side by side, and the
\* counter expires, unless the process died between counting and that.
ThrottleKept ==
    /\ crossings <= 1
    /\ failures.count > 0 /\ failures.until = 0 =>
          orphaned \/ \E h \in Requests : req[h].pc = "expiry"
=============================================================================
