---------------------------- MODULE Sessions_proofs ----------------------------
(***************************************************************************)
(* Proofs about Sessions, for any tabs, session ids, handlers in flight,   *)
(* expiries and limits, and for every mix of kinds of requests.            *)
(*                                                                         *)
(* Refreshes, revocations and failed logins meet in the same few keys, and *)
(* each of the three groups of properties has an invariant of its own.     *)
(***************************************************************************)
EXTENDS Sessions, TLAPS

-----------------------------------------------------------------------------
(***************************************************************************)
(* Types.                                                                  *)
(***************************************************************************)
Phases == {"idle", "validate", "rotate", "issue", "members", "spend", "delete", "verify", "incr", "expiry", "lock"}

Handler == [pc : Phases, tab : Tabs \cup {None}, session : Ids \cup {None}, alarm : BOOLEAN,
            seen : SUBSET Ids, before : SUBSET Ids]
SessionKey == [state : SessionState, until : Nat]
TabRow     == [token : Ids \cup {None}, flights : SUBSET Requests]
Counter    == [count : Nat, until : Nat]

Types ==
    /\ clock \in Nat /\ indexUntil \in Nat /\ index \subseteq Ids
    /\ session \in [Ids -> SessionKey]
    /\ tab \in [Tabs -> TabRow]
    /\ req \in [Requests -> Handler]
    /\ failures \in Counter /\ lockedUntil \in Nat /\ crossings \in Nat /\ orphaned \in BOOLEAN
    /\ raced \subseteq Ids /\ strayed \subseteq Tabs /\ cleared \subseteq Ids

\* The session was issued at some time.
Begun(s) == session[s].state # "unused"

\* Handler h goes on as r, and no other handler moves.
BecomesHandler(h, r) == req'[h] = r /\ \A g \in Requests \ {h} : req'[g] = req[g]

LEMMA IdleIsHandler == Idle \in Handler /\ NoCount \in Counter
  BY DEF Idle, Handler, Phases, NoCount, Counter

\* What Goto and Finish do.
LEMMA GotoEffect ==
  ASSUME Types, NEW h \in Requests, NEW pc \in Phases, Goto(h, pc)
  PROVE  /\ req' \in [Requests -> Handler]
         /\ BecomesHandler(h, [req[h] EXCEPT !.pc = pc])
  BY DEF Types, Goto, Handler, BecomesHandler

LEMMA FinishEffect ==
  ASSUME Types, NEW h \in Requests, Finish(h)
  PROVE  req' \in [Requests -> Handler] /\ BecomesHandler(h, Idle)
  BY IdleIsHandler DEF Types, Finish, BecomesHandler

\* What Answered does to the types of the tabs.
LEMMA AnsweredType ==
  ASSUME Types, NEW h \in Requests, NEW s \in Ids \cup {None}, Answered(h, s)
  PROVE  tab' \in [Tabs -> TabRow]
<1> DEFINE t == req[h].tab
<1>1. CASE t \in Tabs
  <2>1. [token |-> s, flights |-> tab[t].flights \ {h}] \in TabRow
    BY <1>1 DEF Types, TabRow
  <2> QED
    BY <1>1, <2>1 DEF Answered, Types
<1>2. CASE t \notin Tabs
  BY <1>2 DEF Answered, Types, Handler
<1> QED
  BY <1>1, <1>2

\* What Issue and Remove do to the keys.
LEMMA IssueEffect ==
  ASSUME Types, NEW s \in Ids, Issue(s)
  PROVE  /\ session' \in [Ids -> SessionKey] /\ index' \subseteq Ids /\ indexUntil' \in Nat /\ raced' \subseteq Ids
         /\ session[s].state = "unused" /\ session'[s].state = "live" /\ session'[s].until = clock + Ttl
         /\ \A q \in Ids \ {s} : session'[q] = session[q]
         /\ indexUntil' = clock + Ttl /\ index' = index \cup {s}
         /\ raced \subseteq raced'
         /\ s \in raced' \/ \A h \in Requests : req[h].pc # "delete"
<1>1. [state |-> "live", until |-> clock + Ttl] \in SessionKey /\ clock + Ttl \in Nat
  BY TtlAssumption DEF Types, SessionKey, SessionState
<1> QED
  BY <1>1 DEF Issue, Types, IndexExpiry

LEMMA RemoveEffect ==
  ASSUME Types, NEW s \in Ids, NEW as \in {"ended", "rotated"}, Remove(s, as)
  PROVE  /\ session' \in [Ids -> SessionKey] /\ index' = index \ {s}
         /\ \A q \in Ids : session'[q].until = session[q].until
         /\ \A q \in Ids \ {s} : session'[q] = session[q]
         /\ session'[s].state = IF Live(s) THEN as ELSE session[s].state
  BY DEF Remove, Types, SessionKey, SessionState, Live

-----------------------------------------------------------------------------
LEMMA InitTypes == Init => Types
<1> SUFFICES ASSUME Init PROVE Types
  OBVIOUS
<1>1. session \in [Ids -> SessionKey]
  BY DEF Init, SessionKey, SessionState
<1>2. tab \in [Tabs -> TabRow]
  BY DEF Init, TabRow
<1>3. req \in [Requests -> Handler] /\ failures \in Counter
  BY IdleIsHandler DEF Init
<1> QED
  BY <1>1, <1>2, <1>3 DEF Init, Types

LEMMA TickTypes == ASSUME Types, Tick PROVE Types'
<1>1. session' \in [Ids -> SessionKey]
  BY DEF Tick, Types, SessionKey, SessionState
<1>2. failures' \in Counter /\ crossings' \in Nat
  BY IdleIsHandler DEF Tick, Types
<1>3. clock' \in Nat /\ index' \subseteq Ids
  BY DEF Tick, Types
<1> QED
  BY <1>1, <1>2, <1>3 DEF Tick, Types, ghostVars

LEMMA TabStepTypes ==
  ASSUME Types, NEW t \in Tabs, NEW copy \in Tabs, Reload(t) \/ Logout(t) \/ Duplicate(t, copy)
  PROVE  Types'
<1>1. CASE Reload(t)
  <2>1. tab' \in [Tabs -> TabRow]
    BY <1>1 DEF Reload, Types, TabRow
  <2> QED
    BY <1>1, <2>1 DEF Reload, Types, redisVars, countVars
<1>2. CASE Logout(t)
  <2>1. tab[t].token \in Ids
    BY <1>2 DEF Logout, Types, TabRow
  <2>2. session' \in [Ids -> SessionKey] /\ index' \subseteq Ids
    BY <1>2, <2>1, RemoveEffect DEF Logout, Types
  <2>3. tab' \in [Tabs -> TabRow]
    BY <1>2 DEF Logout, Types, TabRow
  <2> QED
    BY <1>2, <2>2, <2>3 DEF Logout, Types, countVars, ghostVars
<1>3. CASE Duplicate(t, copy)
  <2>1. tab' \in [Tabs -> TabRow]
    BY <1>3 DEF Duplicate, Types, TabRow
  <2> QED
    BY <1>3, <2>1 DEF Duplicate, Types, redisVars, countVars
<1> QED
  BY <1>1, <1>2, <1>3

LEMMA RevokeTypes == ASSUME Types, NEW s \in Ids, RevokeSession(s) PROVE Types'
<1>1. session' \in [Ids -> SessionKey] /\ index' \subseteq Ids
  BY RemoveEffect DEF RevokeSession, Types
<1> QED
  BY <1>1 DEF RevokeSession, Types, countVars, ghostVars

LEMMA StartTypes ==
  ASSUME Types, NEW t \in Tabs, NEW h \in Requests, StartRefresh(t, h) \/ StartLogin(t, h)
  PROVE  Types'
<1>1. tab' \in [Tabs -> TabRow]
  BY DEF StartRefresh, StartLogin, Types, TabRow
<1>2. req' \in [Requests -> Handler]
  <2>1. /\ [Idle EXCEPT !.pc = "verify", !.tab = t] \in Handler
        /\ tab[t].token # None => [Idle EXCEPT !.pc = "validate", !.tab = t, !.session = tab[t].token] \in Handler
    BY DEF Types, TabRow, Idle, Handler, Phases
  <2> QED
    BY <2>1 DEF StartRefresh, StartLogin, Types
<1> QED
  BY <1>1, <1>2 DEF StartRefresh, StartLogin, Types, redisVars, countVars, ghostVars

LEMMA CrashTypes == ASSUME Types, Crash PROVE Types'
<1>1. tab' \in [Tabs -> TabRow] /\ req' \in [Requests -> Handler]
  BY IdleIsHandler DEF Crash, Types, TabRow
<1>2. orphaned' \in BOOLEAN
  BY Zenon DEF Crash, Types
<1> QED
  BY <1>1, <1>2 DEF Crash, Types, redisVars, ghostVars

LEMMA RefreshTypes ==
  ASSUME Types, NEW h \in Requests, Validate(h) \/ Rotate(h) \/ IssueNext(h)
  PROVE  Types'
<1>1. CASE Validate(h)
  <2>1. req' \in [Requests -> Handler]
    <3>1. [req[h] EXCEPT !.pc = "members", !.alarm = TRUE] \in Handler
      BY DEF Types, Handler, Phases
    <3> QED
      BY <1>1, <3>1, GotoEffect DEF Validate, Types, Phases
  <2> QED
    BY <1>1, <2>1 DEF Validate, Types, redisVars, countVars, ghostVars
<1>2. CASE Rotate(h)
  <2>1. CASE Finish(h) /\ Answered(h, None) /\ UNCHANGED redisVars
    BY <1>2, <2>1, FinishEffect, AnsweredType DEF Rotate, Types, redisVars, countVars, ghostVars
  <2>2. CASE Goto(h, "issue") /\ Remove(req[h].session, "rotated") /\ UNCHANGED <<indexUntil, tab>>
    <3>1. session' \in [Ids -> SessionKey] /\ index' \subseteq Ids
      BY <2>2 DEF Remove, Types, SessionKey, SessionState
    <3>2. req' \in [Requests -> Handler]
      BY <2>2, GotoEffect DEF Phases
    <3> QED
      BY <1>2, <2>2, <3>1, <3>2 DEF Rotate, Types, countVars, ghostVars
  <2> QED
    BY <1>2, <2>1, <2>2 DEF Rotate
<1>3. CASE IssueNext(h)
  <2>1. PICK s \in Ids : Issue(s) /\ (Answered(h, s) \/ Answered(h, None))
    BY <1>3 DEF IssueNext
  <2>2. tab' \in [Tabs -> TabRow]
    BY <2>1, AnsweredType
  <2> QED
    BY <1>3, <2>1, <2>2, IssueEffect, FinishEffect DEF IssueNext, Types, countVars
<1> QED
  BY <1>1, <1>2, <1>3

LEMMA RevokeAllTypes ==
  ASSUME Types, NEW h \in Requests, LogoutAll(h) \/ Reset(h) \/ Spend(h) \/ Members(h) \/ Delete(h)
  PROVE  Types'
<1>1. CASE LogoutAll(h) \/ Reset(h) \/ Spend(h)
  <2>1. req' \in [Requests -> Handler]
    BY <1>1, GotoEffect DEF LogoutAll, Reset, Spend, Phases
  <2> QED
    BY <1>1, <2>1 DEF LogoutAll, Reset, Spend, Types, redisVars, countVars, ghostVars
<1>2. CASE Members(h)
  <2> DEFINE older == {s \in Ids : session[s].state # "unused"}
             r == [req[h] EXCEPT !.pc = "delete", !.seen = index, !.before = older]
  <2>1. r \in Handler
    BY DEF Types, Handler, Phases
  <2>2. CASE Finish(h) /\ Answered(h, None) /\ cleared' = cleared \cup older
    BY <1>2, <2>2, FinishEffect, AnsweredType DEF Members, Types, redisVars, countVars
  <2>3. CASE req' = [req EXCEPT ![h] = r] /\ UNCHANGED <<tab, cleared>>
    BY <1>2, <2>1, <2>3 DEF Members, Types, redisVars, countVars
  <2> QED
    BY <1>2, <2>2, <2>3 DEF Members
<1>3. CASE Delete(h)
  <2>1. session' \in [Ids -> SessionKey]
    BY <1>3 DEF Delete, Types, SessionKey, SessionState
  <2>2. cleared' \subseteq Ids /\ index' \subseteq Ids
    BY <1>3 DEF Delete, Types, Handler
  <2> QED
    BY <1>3, <2>1, <2>2, FinishEffect, AnsweredType DEF Delete, Types, countVars
<1> QED
  BY <1>1, <1>2, <1>3

LEMMA LoginTypes ==
  ASSUME Types, NEW h \in Requests, Verify(h) \/ Incr(h) \/ Expiry(h) \/ Lock(h)
  PROVE  Types'
<1>1. (\E pc \in Phases : Goto(h, pc) /\ UNCHANGED tab) \/ (Finish(h) /\ Answered(h, None))
  BY DEF Verify, Incr, Expiry, Lock, Phases
<1>2. req' \in [Requests -> Handler] /\ tab' \in [Tabs -> TabRow]
  BY <1>1, GotoEffect, FinishEffect, AnsweredType DEF Types
<1>3. failures' \in Counter /\ crossings' \in Nat /\ orphaned' \in BOOLEAN
  <2>1. CASE Verify(h)
    <3>1. \/ failures' = NoCount /\ crossings' = 0 /\ orphaned' = FALSE
          \/ UNCHANGED <<failures, crossings, orphaned>>
      BY Zenon, <2>1 DEF Verify
    <3>2. 0 \in Nat /\ FALSE \in BOOLEAN /\ failures \in Counter /\ crossings \in Nat /\ orphaned \in BOOLEAN
      BY DEF Types
    <3> QED
      BY Zenon, <3>1, <3>2, IdleIsHandler
  <2>2. CASE Incr(h)
    BY <2>2 DEF Incr, Types, Counter
  <2>3. CASE Expiry(h)
    BY <2>3, TtlAssumption DEF Expiry, Types, Counter
  <2>4. CASE Lock(h)
    BY <2>4 DEF Lock, Types
  <2> QED
    BY <2>1, <2>2, <2>3, <2>4
<1>5. lockedUntil' \in Nat
  BY TtlAssumption DEF Verify, Incr, Expiry, Lock, Types
<1>4. UNCHANGED <<clock, redisVars, raced, strayed, cleared>>
  BY DEF Verify, Incr, Expiry, Lock, ghostVars
<1> QED
  BY <1>2, <1>3, <1>4, <1>5 DEF Types, redisVars

LEMMA NextTypes == Types /\ [Next]_vars => Types'
<1> SUFFICES ASSUME Types, [Next]_vars PROVE Types'
  OBVIOUS
<1>1. CASE UNCHANGED vars
  BY <1>1 DEF vars, Types
<1>2. CASE Next
  BY <1>2, TickTypes, CrashTypes, TabStepTypes, RevokeTypes, StartTypes, RefreshTypes, RevokeAllTypes, LoginTypes DEF Next
<1> QED
  BY <1>1, <1>2

-----------------------------------------------------------------------------
(***************************************************************************)
(* The index.  It must outlive every session in it, and what a revocation  *)
(* has read must still hold every session that works when it deletes.      *)
(***************************************************************************)
ReadAll(h) ==
    req[h].pc = "delete" =>
        /\ \A s \in Ids \ raced : Live(s) => s \in req[h].seen
        /\ \A s \in req[h].before : Begun(s)

IndexInv ==
    /\ LiveIsListed /\ RevokedAllAreGone
    /\ \A s \in Ids : Live(s) => session[s].until <= indexUntil /\ session[s].until <= clock + Ttl
    /\ \A s \in cleared : Begun(s)
    /\ \A h \in Requests : ReadAll(h)

\* No session begins, and one that ends was in the index as long as it lived.
OnlyEnding ==
    /\ \A s \in Ids : /\ session'[s].until = session[s].until
                      /\ Live(s)' => Live(s)
                      /\ Begun(s) => Begun(s)'
    /\ indexUntil' = indexUntil /\ raced' = raced /\ clock <= clock'

\* A step that begins no session and clears nothing.
LEMMA IndexKept ==
  ASSUME Types, Types', IndexInv, OnlyEnding, UNCHANGED cleared,
         \A s \in Ids : Live(s)' /\ s \in index => s \in index',
         \A h \in Requests : req'[h].pc = "delete" => req'[h] = req[h]
  PROVE  IndexInv'
<1>1. LiveIsListed' /\ RevokedAllAreGone'
  BY DEF IndexInv, OnlyEnding, LiveIsListed, RevokedAllAreGone, Types
<1>2. \A s \in Ids : Live(s)' => session'[s].until <= indexUntil' /\ session'[s].until <= clock' + Ttl
  BY TtlAssumption DEF IndexInv, OnlyEnding, Types, SessionKey
<1>3. \A s \in cleared' : Begun(s)'
  BY DEF IndexInv, OnlyEnding, Types
<1>4. ASSUME NEW h \in Requests PROVE ReadAll(h)'
  BY DEF IndexInv, OnlyEnding, ReadAll, Types, Handler
<1> QED
  BY <1>1, <1>2, <1>3, <1>4 DEF IndexInv

\* A step that leaves the keys alone.
LEMMA IndexUntouched ==
  ASSUME Types, Types', IndexInv, UNCHANGED <<clock, redisVars, raced, cleared>>,
         \A h \in Requests : req'[h].pc = "delete" => req'[h] = req[h]
  PROVE  IndexInv'
<1>1. OnlyEnding
  BY DEF OnlyEnding, redisVars, Live, Begun, Types
<1> QED
  BY <1>1, IndexKept DEF redisVars

LEMMA IndexGoes ==
  ASSUME Types, Types', IndexInv, UNCHANGED <<clock, redisVars, raced, cleared>>,
         NEW h \in Requests, NEW r, BecomesHandler(h, r), r.pc # "delete"
  PROVE  IndexInv'
  BY IndexUntouched DEF BecomesHandler

LEMMA NextIndex == Types /\ Types' /\ IndexInv /\ [Next]_vars => IndexInv'
<1> SUFFICES ASSUME Types, Types', IndexInv, [Next]_vars PROVE IndexInv'
  OBVIOUS
<1>1. CASE Tick
  <2>1. \A s \in Ids : /\ session'[s].until = session[s].until
                       /\ Live(s)' => Live(s) /\ session[s].until > clock'
                       /\ Begun(s) => Begun(s)'
    BY <1>1 DEF Tick, Types, SessionKey, Live, Begun
  <2>2. OnlyEnding /\ UNCHANGED <<cleared, req>>
    BY <1>1, <2>1 DEF Tick, OnlyEnding, ghostVars, Types
  <2>3. ASSUME NEW s \in Ids, Live(s)', s \in index PROVE s \in index'
    <3>1. session[s].until > clock' /\ session[s].until <= indexUntil
      BY <2>1, <2>3 DEF IndexInv
    <3>2. indexUntil > clock'
      BY <3>1 DEF Types, SessionKey
    <3> QED
      BY <1>1, <2>3, <3>2 DEF Tick, Types
  <2> QED
    BY <2>2, <2>3, IndexKept
<1>2. CASE Crash
  BY <1>2, IndexUntouched DEF Crash, ghostVars, Idle
<1>3. ASSUME NEW s \in Ids, NEW as \in {"ended", "rotated"}, Remove(s, as), UNCHANGED <<clock, indexUntil, raced, cleared>>,
             \A h \in Requests : req'[h].pc = "delete" => req'[h] = req[h]
      PROVE  IndexInv'
  <2>1. OnlyEnding
    <3>1. ASSUME NEW q \in Ids
          PROVE  /\ session'[q].until = session[q].until
                 /\ Live(q)' => Live(q)
                 /\ Begun(q) => Begun(q)'
      BY <1>3, RemoveEffect DEF Live, Begun
    <3>2. clock <= clock'
      BY <1>3 DEF Types
    <3> QED
      BY <1>3, <3>1, <3>2 DEF OnlyEnding
  <2>2. ASSUME NEW q \in Ids, Live(q)', q \in index PROVE q \in index'
    BY <1>3, <2>2, RemoveEffect DEF Live
  <2> QED
    BY <1>3, <2>1, <2>2, IndexKept
<1>4. ASSUME NEW t \in Tabs, Reload(t) \/ Logout(t) PROVE IndexInv'
  <2>1. CASE Reload(t)
    BY <2>1, IndexUntouched DEF Reload
  <2>2. CASE Logout(t)
    BY <1>3, <2>2 DEF Logout, Types, TabRow, ghostVars
  <2> QED
    BY <1>4, <2>1, <2>2
<1>5. ASSUME NEW t \in Tabs, NEW copy \in Tabs, Duplicate(t, copy) PROVE IndexInv'
  BY <1>5, IndexUntouched DEF Duplicate
<1>6. ASSUME NEW t \in Tabs, NEW h \in Requests, StartRefresh(t, h) \/ StartLogin(t, h) PROVE IndexInv'
  <2>1. \A g \in Requests : req'[g] = req[g] \/ req'[g].pc \in {"validate", "verify"}
    BY <1>6 DEF StartRefresh, StartLogin, Idle, Types
  <2> QED
    BY <1>6, <2>1, IndexUntouched DEF StartRefresh, StartLogin, ghostVars
<1>7. ASSUME NEW s \in Ids, RevokeSession(s) PROVE IndexInv'
  BY <1>3, <1>7 DEF RevokeSession, ghostVars
<1>8. ASSUME NEW h \in Requests, NEW pc \in Phases \ {"delete"}, Goto(h, pc) \/ Finish(h)
      PROVE  /\ \E r : BecomesHandler(h, r) /\ r.pc # "delete"
             /\ \A g \in Requests : req'[g].pc = "delete" => req'[g] = req[g]
  <2>1. [req[h] EXCEPT !.pc = pc].pc = pc /\ Idle.pc # "delete"
    BY DEF Types, Handler, Idle
  <2> QED
    BY <1>8, <2>1, GotoEffect, FinishEffect DEF BecomesHandler
<1>9. ASSUME NEW h \in Requests, Validate(h) PROVE IndexInv'
  <2>1. \A g \in Requests : req'[g].pc = "delete" => req'[g] = req[g]
    BY <1>9 DEF Validate, Goto, Types, Handler
  <2> QED
    BY <1>9, <2>1, IndexUntouched DEF Validate, ghostVars
<1>10. ASSUME NEW h \in Requests, Rotate(h) PROVE IndexInv'
  <2>1. CASE UNCHANGED redisVars
    BY <1>8, <1>10, <2>1, IndexUntouched DEF Rotate, ghostVars, Phases
  <2>2. CASE Goto(h, "issue") /\ Remove(req[h].session, "rotated") /\ UNCHANGED <<indexUntil, tab>>
    <3>1. CASE req[h].session \in Ids
      BY <1>3, <1>8, <1>10, <2>2, <3>1 DEF Rotate, ghostVars, Phases
    <3>2. CASE req[h].session \notin Ids
      BY <2>1, <2>2, <3>2 DEF Remove, redisVars, Types
    <3> QED
      BY <3>1, <3>2
  <2> QED
    BY <1>10, <2>1, <2>2 DEF Rotate
<1>11. ASSUME NEW h \in Requests, IssueNext(h) PROVE IndexInv'
  <2>1. PICK s \in Ids : Issue(s)
    BY <1>11 DEF IssueNext
  <2>2. BecomesHandler(h, Idle) /\ UNCHANGED <<clock, cleared>> /\ Idle.pc = "idle" /\ req[h].pc = "issue"
    BY <1>11, FinishEffect DEF IssueNext, Idle
  <2>3. /\ ~ Begun(s) /\ ~ Live(s) /\ Begun(s)' /\ session'[s].until = clock + Ttl
        /\ \A q \in Ids \ {s} : session'[q] = session[q]
        /\ indexUntil' = clock + Ttl /\ index' = index \cup {s} /\ raced \subseteq raced'
        /\ s \in raced' \/ \A g \in Requests : req[g].pc # "delete"
    BY <2>1, IssueEffect DEF Begun, Live
  <2>4. LiveIsListed'
    BY <2>3 DEF LiveIsListed, IndexInv, Live
  <2>5. RevokedAllAreGone'
    BY <2>2, <2>3 DEF RevokedAllAreGone, IndexInv, Live, Types
  <2>6. \A q \in Ids : Live(q)' => session'[q].until <= indexUntil' /\ session'[q].until <= clock' + Ttl
    BY <2>2, <2>3, TtlAssumption DEF IndexInv, Live, Types, SessionKey
  <2>7. \A q \in cleared' : Begun(q)'
    BY <2>2, <2>3 DEF IndexInv, Begun, Types
  <2>8. ASSUME NEW g \in Requests PROVE ReadAll(g)'
    <3> SUFFICES ASSUME req'[g].pc = "delete" PROVE ReadAll(g)'
      BY DEF ReadAll
    <3>1. req'[g] = req[g] /\ req[g].pc = "delete" /\ req[g].before \subseteq Ids
      BY <2>2 DEF BecomesHandler, Types, Handler
    <3>2. s \in raced'
      BY <2>3, <3>1
    <3> QED
      BY <2>3, <3>1, <3>2 DEF IndexInv, ReadAll, Live, Begun
  <2> QED
    BY <2>4, <2>5, <2>6, <2>7, <2>8 DEF IndexInv
<1>12. ASSUME NEW h \in Requests, LogoutAll(h) \/ Reset(h) \/ Spend(h) PROVE IndexInv'
  <2>1. \E pc \in Phases \ {"delete"} : Goto(h, pc)
    BY <1>12 DEF LogoutAll, Reset, Spend, Phases
  <2> QED
    BY <1>8, <1>12, <2>1, IndexUntouched DEF LogoutAll, Reset, Spend, ghostVars
<1>13. ASSUME NEW h \in Requests, Members(h) PROVE IndexInv'
  <2> DEFINE older == {s \in Ids : session[s].state # "unused"}
             r == [req[h] EXCEPT !.pc = "delete", !.seen = index, !.before = older]
  <2>1. UNCHANGED <<clock, redisVars, raced>> /\ h \in Requests
    BY <1>13 DEF Members
  <2>2. CASE index = {}
    <3>1. BecomesHandler(h, Idle) /\ Idle.pc = "idle" /\ cleared' = cleared \cup older
      BY <1>13, <2>2, FinishEffect DEF Members, Idle
    <3>2. LiveIsListed' /\ RevokedAllAreGone'
      BY <2>1, <2>2, <3>1 DEF LiveIsListed, RevokedAllAreGone, IndexInv, Live, redisVars
    <3>3. \A s \in cleared' : Begun(s)'
      BY <2>1, <3>1 DEF IndexInv, Begun, redisVars
    <3>4. ASSUME NEW g \in Requests PROVE ReadAll(g)'
      BY <2>1, <3>1 DEF BecomesHandler, ReadAll, IndexInv, Live, Begun, redisVars
    <3>5. \A s \in Ids : Live(s)' => session'[s].until <= indexUntil' /\ session'[s].until <= clock' + Ttl
      BY <2>1 DEF IndexInv, Live, redisVars
    <3> QED
      BY <3>2, <3>3, <3>4, <3>5 DEF IndexInv
  <2>3. CASE index # {}
    <3>1. BecomesHandler(h, r) /\ UNCHANGED cleared
      BY <1>13, <2>3 DEF Members, BecomesHandler, Types
    <3>2. r.seen = index /\ r.before = older
      BY DEF Types, Handler
    <3> HIDE DEF r
    <3>3. LiveIsListed' /\ RevokedAllAreGone'
      BY <2>1, <3>1 DEF LiveIsListed, RevokedAllAreGone, IndexInv, Live, redisVars
    <3>4. \A s \in cleared' : Begun(s)'
      BY <2>1, <3>1 DEF IndexInv, Begun, redisVars
    <3>5. ReadAll(h)'
      BY <2>1, <3>1, <3>2 DEF BecomesHandler, ReadAll, IndexInv, LiveIsListed, Live, Begun, redisVars
    <3>6. ASSUME NEW g \in Requests \ {h} PROVE ReadAll(g)'
      BY <2>1, <3>1 DEF BecomesHandler, ReadAll, IndexInv, Live, Begun, redisVars
    <3>7. \A s \in Ids : Live(s)' => session'[s].until <= indexUntil' /\ session'[s].until <= clock' + Ttl
      BY <2>1 DEF IndexInv, Live, redisVars
    <3> QED
      BY <3>3, <3>4, <3>5, <3>6, <3>7 DEF IndexInv
  <2> QED
    BY <2>2, <2>3
<1>14. ASSUME NEW h \in Requests, Delete(h) PROVE IndexInv'
  <2>1. BecomesHandler(h, Idle) /\ Idle.pc = "idle" /\ req[h].pc = "delete" /\ ReadAll(h)
        /\ UNCHANGED <<clock, indexUntil, raced>> /\ cleared' = cleared \cup req[h].before
    BY <1>14, FinishEffect DEF Delete, Idle, IndexInv
  <2>2. ASSUME NEW s \in Ids
        PROVE  /\ session'[s].until = session[s].until
               /\ Live(s)' => Live(s) /\ s \notin req[h].seen
               /\ Begun(s) => Begun(s)'
    BY <1>14 DEF Delete, Doomed, Live, Begun, Types, SessionKey
  <2>3. \A s \in Ids \ raced : ~ Live(s)'
    BY <2>1, <2>2 DEF ReadAll
  <2>4. LiveIsListed' /\ RevokedAllAreGone'
    BY <2>1, <2>3 DEF LiveIsListed, RevokedAllAreGone, Types
  <2>5. \A s \in Ids : Live(s)' => session'[s].until <= indexUntil' /\ session'[s].until <= clock' + Ttl
    BY <2>1, <2>2 DEF IndexInv
  <2>6. req[h].before \subseteq Ids /\ cleared \subseteq Ids
    BY DEF Types, Handler
  <2>7. \A s \in cleared' : Begun(s)'
    BY <2>1, <2>2, <2>6 DEF IndexInv, ReadAll
  <2>8. ASSUME NEW g \in Requests PROVE ReadAll(g)'
    <3>1. CASE g = h
      BY <2>1, <3>1 DEF BecomesHandler, ReadAll
    <3>2. CASE g # h
      <4>1. req'[g] = req[g] /\ req[g].before \subseteq Ids /\ ReadAll(g)
        BY <2>1, <3>2 DEF BecomesHandler, IndexInv, Types, Handler
      <4> QED
        BY <2>1, <2>2, <2>3, <4>1 DEF ReadAll
    <3> QED
      BY <3>1, <3>2
  <2> QED
    BY <2>4, <2>5, <2>7, <2>8 DEF IndexInv
<1>15. ASSUME NEW h \in Requests, Verify(h) \/ Incr(h) \/ Expiry(h) \/ Lock(h) PROVE IndexInv'
  <2>1. (\E pc \in Phases \ {"delete"} : Goto(h, pc)) \/ Finish(h)
    BY <1>15 DEF Verify, Incr, Expiry, Lock, Phases
  <2>2. \A g \in Requests : req'[g].pc = "delete" => req'[g] = req[g]
    BY <1>8, <2>1 DEF Phases
  <2>3. UNCHANGED <<clock, redisVars, raced, cleared>>
    BY <1>15 DEF Verify, Incr, Expiry, Lock, ghostVars
  <2> QED
    BY <2>2, <2>3, IndexUntouched
<1>16. CASE UNCHANGED vars
  BY <1>16, IndexUntouched DEF vars, redisVars
<1> QED
  BY <1>1, <1>2, <1>4, <1>5, <1>6, <1>7, <1>9, <1>10, <1>11, <1>12, <1>13, <1>14, <1>15, <1>16 DEF Next

LEMMA InitIndex == Init => IndexInv
  BY DEF Init, IndexInv, LiveIsListed, RevokedAllAreGone, Live, Begun, ReadAll, Idle

-----------------------------------------------------------------------------
(***************************************************************************)
(* The counter of failed logins.                                           *)
(***************************************************************************)
CountInv == ThrottleKept /\ (crossings > 0 => failures.count >= MaxFailures)

LEMMA NextCount == Types /\ Types' /\ CountInv /\ [Next]_vars => CountInv'
<1> SUFFICES ASSUME Types, Types', CountInv, [Next]_vars PROVE CountInv'
  OBVIOUS
<1>1. ASSUME UNCHANGED <<failures, crossings, orphaned>>,
             \A h \in Requests : req[h].pc = "expiry" => req'[h].pc = "expiry"
      PROVE  CountInv'
  BY <1>1 DEF CountInv, ThrottleKept
<1>2. CASE Tick
  <2>1. /\ UNCHANGED <<req, orphaned>>
        /\ \/ UNCHANGED <<failures, crossings>>
           \/ failures' = NoCount /\ crossings' = 0
    BY <1>2 DEF Tick
  <2> QED
    BY <1>1, <2>1 DEF CountInv, ThrottleKept, NoCount
<1>3. CASE Crash
  <2>1. UNCHANGED <<failures, crossings>> /\ orphaned' = (orphaned \/ \E h \in Requests : req[h].pc = "expiry")
    BY Zenon, <1>3 DEF Crash
  <2> QED
    BY <2>1 DEF CountInv, ThrottleKept
<1>4. ASSUME NEW h \in Requests, Verify(h) PROVE CountInv'
  <2>1. req[h].pc = "verify" /\ \A g \in Requests \ {h} : req'[g] = req[g]
    BY <1>4, GotoEffect DEF Verify, Phases, BecomesHandler
  <2>2. CASE UNCHANGED <<failures, crossings, orphaned>>
    BY <1>1, <2>1, <2>2
  <2>3. CASE failures' = NoCount /\ crossings' = 0
    BY <2>3 DEF CountInv, ThrottleKept, NoCount
  <2> QED
    BY <1>4, <2>2, <2>3 DEF Verify
<1>5. ASSUME NEW h \in Requests, Incr(h) PROVE CountInv'
  <2> DEFINE n == failures.count + 1
  <2>1. failures \in Counter /\ failures' = [failures EXCEPT !.count = n] /\ UNCHANGED orphaned
        /\ crossings' = (IF n = MaxFailures THEN crossings + 1 ELSE crossings) /\ req[h].pc = "incr"
    BY <1>5 DEF Incr, Crosses, Types
  <2>2. failures'.count = n /\ failures'.until = failures.until /\ failures.count \in Nat
    BY <2>1 DEF Counter
  <2>3. crossings' <= 1 /\ (crossings' > 0 => failures'.count >= MaxFailures)
    BY <2>1, <2>2, TtlAssumption DEF CountInv, ThrottleKept, Types
  <2>4. CASE n = 1
    <3>1. Goto(h, "expiry")
      BY <1>5, <2>4 DEF Incr, First
    <3>2. req'[h].pc = "expiry"
      BY <3>1 DEF Goto, Types, Handler
    <3> QED
      BY <2>3, <3>2 DEF CountInv, ThrottleKept
  <2>5. CASE n # 1
    <3>1. failures.count > 0
      BY <2>2, <2>5
    <3>2. \A g \in Requests \ {h} : req'[g] = req[g]
      BY <1>5, GotoEffect, FinishEffect DEF Incr, Phases, BecomesHandler
    <3>3. failures'.until = 0 => orphaned' \/ \E g \in Requests : req'[g].pc = "expiry"
      BY <2>1, <2>2, <3>1, <3>2 DEF CountInv, ThrottleKept
    <3> QED
      BY <2>3, <3>3 DEF CountInv, ThrottleKept
  <2> QED
    BY <2>4, <2>5
<1>6. ASSUME NEW h \in Requests, Expiry(h) PROVE CountInv'
  <2>1. /\ failures' = (IF failures.count = 0 THEN failures ELSE [failures EXCEPT !.until = clock + Window])
        /\ UNCHANGED <<crossings, orphaned>> /\ failures \in Counter
    BY <1>6 DEF Expiry, Types
  <2>2. failures'.count = failures.count /\ (failures.count > 0 => failures'.until = clock + Window)
    BY <2>1 DEF Counter
  <2>3. clock + Window # 0
    BY TtlAssumption DEF Types
  <2> QED
    BY <2>1, <2>2, <2>3 DEF CountInv, ThrottleKept
<1>7. ASSUME NEW h \in Requests, Lock(h) PROVE CountInv'
  <2>1. req[h].pc = "lock" /\ UNCHANGED <<failures, crossings, orphaned>>
        /\ \A g \in Requests \ {h} : req'[g] = req[g]
    BY <1>7, FinishEffect DEF Lock, BecomesHandler
  <2> QED
    BY <1>1, <2>1
<1>8. ASSUME NEW h \in Requests,
             Validate(h) \/ Rotate(h) \/ IssueNext(h) \/ LogoutAll(h) \/ Reset(h) \/ Spend(h) \/ Members(h) \/ Delete(h)
      PROVE  CountInv'
  <2>1. UNCHANGED <<failures, crossings, orphaned>> /\ req[h].pc # "expiry"
    BY <1>8 DEF Validate, Rotate, IssueNext, LogoutAll, Reset, Spend, Members, Delete, countVars
  <2>2. \E r : req' = [req EXCEPT ![h] = r]
    <3>1. CASE \E pc : Goto(h, pc)
      BY <3>1 DEF Goto
    <3>2. CASE Finish(h)
      BY <3>2 DEF Finish
    <3>3. CASE Validate(h) \/ Members(h)
      BY <3>1, <3>2, <3>3 DEF Validate, Members
    <3> QED
      BY <1>8, <3>1, <3>2, <3>3 DEF Rotate, IssueNext, LogoutAll, Reset, Spend, Delete
  <2> QED
    BY <1>1, <2>1, <2>2 DEF Types
<1>9. ASSUME NEW t \in Tabs, NEW u \in Tabs, Reload(t) \/ Logout(t) \/ Duplicate(t, u) PROVE CountInv'
  BY <1>1, <1>9 DEF Reload, Logout, Duplicate, countVars
<1>10. ASSUME NEW t \in Tabs, NEW h \in Requests, StartRefresh(t, h) \/ StartLogin(t, h) PROVE CountInv'
  BY <1>1, <1>10 DEF StartRefresh, StartLogin, countVars, Types
<1>11. ASSUME NEW s \in Ids, RevokeSession(s) PROVE CountInv'
  BY <1>1, <1>11 DEF RevokeSession, countVars
<1>12. CASE UNCHANGED vars
  BY <1>1, <1>12 DEF vars
<1> QED
  BY <1>2, <1>3, <1>4, <1>5, <1>6, <1>7, <1>8, <1>9, <1>10, <1>11, <1>12 DEF Next

LEMMA InitCount == Init => CountInv
  BY DEF Init, CountInv, ThrottleKept, NoCount

-----------------------------------------------------------------------------
(***************************************************************************)
(* The tokens of the tabs.  A tab that never strayed owns its token: no    *)
(* other tab has it, only its own refresh in flight carries it, and that   *)
(* refresh alone may have rotated it away.                                 *)
(***************************************************************************)
FlightOK(t) ==
    \A h \in tab[t].flights :
        /\ req[h].tab = t /\ req[h].session = tab[t].token
        /\ \A k \in tab[t].flights : k = h

HandlerOK(h) ==
    /\ req[h].pc = "idle" => req[h] = Idle
    /\ req[h].tab # None /\ req[h].tab \notin strayed => h \in tab[req[h].tab].flights
    /\ req[h].pc \in {"validate", "rotate"} \/ req[h].alarm => req[h].session # None
    /\ req[h].session # None => req[h].tab # None /\ Begun(req[h].session)
    /\ req[h].alarm => req[h].tab \in strayed \/ session[req[h].session].state = "ended"

\* h is the refresh of tab t that issues the successor of its token.
Renewing(t) == \E h \in tab[t].flights : req[h].pc = "issue"

OwnToken(t) ==
    LET s == tab[t].token
    IN  s # None =>
          /\ Begun(s)
          /\ t \notin strayed =>
                /\ \A u \in Tabs \ {t} : tab[u].token # s
                /\ \A h \in Requests : req[h].session = s => h \in tab[t].flights
                /\ session[s].state = "rotated" => Renewing(t)

TokensInv ==
    /\ \A t \in Tabs : FlightOK(t) /\ OwnToken(t)
    /\ \A h \in Requests : HandlerOK(h)

LEMMA TokensExplainAlarm == TokensInv => AlarmExplained
  BY DEF TokensInv, HandlerOK, AlarmExplained

\* Sessions only end.
Ending == \A s \in Ids : session'[s].state = session[s].state \/ (Live(s) /\ session'[s].state = "ended")

LEMMA EndingKeeps ==
  ASSUME Types, Types', Ending, NEW s \in Ids
  PROVE  /\ Begun(s) => Begun(s)'
         /\ session'[s].state = "rotated" => session[s].state = "rotated"
         /\ session[s].state = "ended" => session'[s].state = "ended"
  BY DEF Ending, Begun, Live

\* A step of handler h that leaves the tabs alone and rotates nothing.
LEMMA TokensAdvance ==
  ASSUME Types, Types', TokensInv, Ending, UNCHANGED <<tab, strayed>>,
         NEW h \in Requests, NEW r \in Handler, BecomesHandler(h, r),
         r.tab = req[h].tab, r.session = req[h].session, r.pc # "idle", req[h].pc # "issue",
         r.pc \in {"validate", "rotate"} => r.session # None,
         r.alarm => r.session # None /\ (r.tab \in strayed \/ session'[r.session].state = "ended")
  PROVE  TokensInv'
<1>1. ASSUME NEW g \in Requests PROVE req'[g].tab = req[g].tab /\ req'[g].session = req[g].session
  BY DEF BecomesHandler
<1>2. ASSUME NEW t \in Tabs PROVE FlightOK(t)' /\ OwnToken(t)'
  <2>1. FlightOK(t) /\ OwnToken(t) /\ tab[t].flights \subseteq Requests /\ tab[t].token \in Ids \cup {None}
    BY DEF TokensInv, Types, TabRow
  <2>2. FlightOK(t)'
    BY <1>1, <2>1 DEF FlightOK
  <2>3. Renewing(t) => Renewing(t)'
    BY <2>1 DEF Renewing, BecomesHandler
  <2>4. OwnToken(t)'
    BY <1>1, <2>1, <2>3, EndingKeeps DEF OwnToken
  <2> QED
    BY <2>2, <2>4
<1>3. ASSUME NEW g \in Requests PROVE HandlerOK(g)'
  <2>1. HandlerOK(g) /\ req[g].session \in Ids \cup {None} /\ HandlerOK(h) /\ req[h].session \in Ids \cup {None}
    BY DEF TokensInv, Types, Handler
  <2>2. CASE g = h
    BY <2>1, <2>2, EndingKeeps DEF HandlerOK, BecomesHandler
  <2>3. CASE g # h
    BY <2>1, <2>3, EndingKeeps DEF HandlerOK, BecomesHandler
  <2> QED
    BY <2>2, <2>3
<1> QED
  BY <1>2, <1>3 DEF TokensInv

\* A step of no handler and no tab.
LEMMA TokensUntouched ==
  ASSUME Types, Types', TokensInv, Ending, UNCHANGED <<tab, strayed, req>>
  PROVE  TokensInv'
<1>1. ASSUME NEW t \in Tabs PROVE FlightOK(t)' /\ OwnToken(t)'
  <2>1. FlightOK(t) /\ OwnToken(t) /\ tab[t].token \in Ids \cup {None}
    BY DEF TokensInv, Types, TabRow
  <2> QED
    BY <2>1, EndingKeeps DEF FlightOK, OwnToken, Renewing
<1>2. ASSUME NEW g \in Requests PROVE HandlerOK(g)'
  <2>1. HandlerOK(g) /\ req[g].session \in Ids \cup {None}
    BY DEF TokensInv, Types, Handler
  <2> QED
    BY <2>1, EndingKeeps DEF HandlerOK
<1> QED
  BY <1>1, <1>2 DEF TokensInv

\* The tab that waits for handler h, if any, gets s, and no longer waits.
TabAnswered(h, s) ==
    \A t \in Tabs : /\ h \in tab[t].flights => tab'[t].token = s /\ tab'[t].flights = {}
                    /\ h \notin tab[t].flights => tab'[t] = tab[t]

LEMMA AnsweredEffect ==
  ASSUME Types, TokensInv, NEW h \in Requests, NEW s \in Ids \cup {None}, Answered(h, s)
  PROVE  TabAnswered(h, s)
<1> DEFINE t == req[h].tab
<1>1. ASSUME NEW u \in Tabs, h \in tab[u].flights PROVE u = t /\ tab[u].flights = {h}
  BY <1>1 DEF TokensInv, FlightOK
<1>2. CASE t \in Tabs /\ h \in tab[t].flights
  <2>1. tab' = [tab EXCEPT ![t] = [token |-> s, flights |-> tab[t].flights \ {h}]]
    BY <1>2, NoneAssumption DEF Answered
  <2>2. tab[t].flights \ {h} = {}
    BY <1>1, <1>2
  <2> QED
    BY <1>1, <1>2, <2>1, <2>2 DEF TabAnswered, Types
<1>3. CASE ~ (t \in Tabs /\ h \in tab[t].flights)
  <2>1. t \in Tabs \cup {None}
    BY DEF Types, Handler
  <2>2. UNCHANGED tab
    BY <1>3, <2>1 DEF Answered
  <2> QED
    BY <1>1, <1>3, <2>2 DEF TabAnswered
<1> QED
  BY <1>2, <1>3

\* A handler that ends and leaves its tab without a token.
LEMMA TokensFinish ==
  ASSUME Types, Types', TokensInv, Ending, UNCHANGED strayed,
         NEW h \in Requests, BecomesHandler(h, Idle), TabAnswered(h, None)
  PROVE  TokensInv'
<1>1. ASSUME NEW t \in Tabs PROVE FlightOK(t)' /\ OwnToken(t)'
  <2>1. FlightOK(t) /\ OwnToken(t) /\ tab[t].flights \subseteq Requests /\ tab[t].token \in Ids \cup {None}
    BY DEF TokensInv, Types, TabRow
  <2>2. CASE h \in tab[t].flights
    BY <2>2 DEF TabAnswered, FlightOK, OwnToken
  <2>3. CASE h \notin tab[t].flights
    <3>1. tab'[t] = tab[t] /\ \A g \in tab[t].flights : req'[g] = req[g]
      BY <2>1, <2>3 DEF TabAnswered, BecomesHandler
    <3>2. FlightOK(t)'
      BY <2>1, <3>1 DEF FlightOK
    <3>3. Renewing(t) => Renewing(t)'
      BY <3>1 DEF Renewing
    <3>4. \A u \in Tabs : tab'[u].token = tab[u].token \/ tab'[u].token = None
      BY DEF TabAnswered
    <3>5. \A g \in Requests : req'[g].session # None => req'[g] = req[g]
      BY DEF BecomesHandler, Idle
    <3> QED
      BY <2>1, <3>1, <3>2, <3>3, <3>4, <3>5, EndingKeeps DEF OwnToken
  <2> QED
    BY <2>2, <2>3
<1>2. ASSUME NEW g \in Requests PROVE HandlerOK(g)'
  <2>1. CASE g = h
    BY <2>1 DEF HandlerOK, BecomesHandler, Idle
  <2>2. CASE g # h
    <3>1. req'[g] = req[g] /\ HandlerOK(g) /\ req[g] \in Handler
      BY <2>2 DEF BecomesHandler, TokensInv, Types
    <3>2. req[g].tab # None /\ req[g].tab \notin strayed => g \in tab'[req[g].tab].flights
      BY <2>2, <3>1 DEF HandlerOK, TabAnswered, TokensInv, FlightOK, Handler
    <3>3. req[g].session \in Ids \cup {None}
      BY <3>1 DEF Handler
    <3> QED
      BY <3>1, <3>2, <3>3, EndingKeeps DEF HandlerOK
  <2> QED
    BY <2>1, <2>2
<1> QED
  BY <1>1, <1>2 DEF TokensInv

\* A refresh rotates its session away and goes on to issue the next.
LEMMA TokensRotate ==
  ASSUME Types, Types', TokensInv, UNCHANGED <<tab, strayed>>,
         NEW h \in Requests, req[h].pc = "rotate", Goto(h, "issue"), Remove(req[h].session, "rotated")
  PROVE  TokensInv'
<1> PICK s \in Ids : s = req[h].session
  BY DEF TokensInv, HandlerOK, Types, Handler
<1>1. BecomesHandler(h, [req[h] EXCEPT !.pc = "issue"])
  BY GotoEffect DEF Phases
<1>2. /\ req'[h].pc = "issue" /\ req'[h].tab = req[h].tab /\ req'[h].session = req[h].session
      /\ req'[h].alarm = req[h].alarm
      /\ \A g \in Requests \ {h} : req'[g] = req[g]
  BY <1>1 DEF BecomesHandler, Types, Handler
<1>3. /\ \A q \in Ids \ {s} : session'[q] = session[q]
      /\ session'[s].state = IF Live(s) THEN "rotated" ELSE session[s].state
  BY RemoveEffect
<1>4. ASSUME NEW q \in Ids
      PROVE  /\ Begun(q) => Begun(q)'
             /\ session[q].state = "ended" => session'[q].state = "ended"
  BY <1>3 DEF Begun, Live
<1>5. ASSUME NEW t \in Tabs PROVE FlightOK(t)' /\ OwnToken(t)'
  <2>1. FlightOK(t) /\ OwnToken(t) /\ tab[t].flights \subseteq Requests /\ tab[t].token \in Ids \cup {None}
    BY DEF TokensInv, Types, TabRow
  <2>2. FlightOK(t)'
    BY <1>2, <2>1 DEF FlightOK
  <2>3. Renewing(t) => Renewing(t)'
    BY <1>2, <2>1 DEF Renewing
  <2>4. tab[t].token = s /\ t \notin strayed => h \in tab[t].flights
    BY <2>1, NoneAssumption DEF OwnToken
  <2>5. OwnToken(t)'
    <3> SUFFICES ASSUME tab[t].token # None PROVE OwnToken(t)'
      BY DEF OwnToken
    <3>1. CASE tab[t].token = s
      BY <1>2, <1>4, <2>1, <2>4, <3>1 DEF OwnToken, Renewing
    <3>2. CASE tab[t].token # s
      BY <1>2, <1>3, <1>4, <2>1, <2>3, <3>2 DEF OwnToken
    <3> QED
      BY <3>1, <3>2
  <2> QED
    BY <2>2, <2>5
<1>6. ASSUME NEW g \in Requests PROVE HandlerOK(g)'
  <2>1. HandlerOK(g) /\ req[g].session \in Ids \cup {None}
    BY DEF TokensInv, Types, Handler
  <2>2. CASE g = h
    BY <1>2, <1>4, <2>1, <2>2 DEF HandlerOK
  <2>3. CASE g # h
    BY <1>2, <1>4, <2>1, <2>3 DEF HandlerOK
  <2> QED
    BY <2>2, <2>3
<1> QED
  BY <1>5, <1>6 DEF TokensInv

\* A session is issued.
LEMMA TokensIssue ==
  ASSUME Types, Types', TokensInv, UNCHANGED strayed,
         NEW h \in Requests, BecomesHandler(h, Idle),
         NEW s \in Ids, Issue(s), NEW token \in {s, None}, TabAnswered(h, token)
  PROVE  TokensInv'
<1>1. ~ Begun(s) /\ session'[s].state = "live" /\ \A q \in Ids \ {s} : session'[q] = session[q]
  BY IssueEffect DEF Begun
<1>2. ASSUME NEW q \in Ids
      PROVE  /\ Begun(q) => Begun(q)'
             /\ Begun(q) => session'[q].state = session[q].state
  BY <1>1 DEF Begun
<1>3. ASSUME NEW t \in Tabs, h \notin tab[t].flights
      PROVE  tab'[t] = tab[t] /\ \A g \in tab[t].flights : req'[g] = req[g]
  BY <1>3 DEF TabAnswered, BecomesHandler, Types, TabRow
<1>4. \A u \in Tabs : tab[u].token # s /\ (tab'[u].token \in {tab[u].token, s, None})
  BY <1>1, NoneAssumption DEF TokensInv, OwnToken, TabAnswered
<1>5. \A g \in Requests : req[g].session # s /\ (req'[g].session # None => req'[g] = req[g])
  BY <1>1, NoneAssumption DEF TokensInv, HandlerOK, BecomesHandler, Idle
<1>6. ASSUME NEW t \in Tabs PROVE FlightOK(t)' /\ OwnToken(t)'
  <2>1. FlightOK(t) /\ OwnToken(t) /\ tab[t].flights \subseteq Requests /\ tab[t].token \in Ids \cup {None}
    BY DEF TokensInv, Types, TabRow
  <2>2. CASE h \in tab[t].flights
    <3>1. tab'[t].token = token /\ tab'[t].flights = {}
      BY <2>2 DEF TabAnswered
    <3>2. FlightOK(t)'
      BY <3>1 DEF FlightOK
    <3>3. Begun(s)' /\ session'[s].state # "rotated" /\ \A g \in Requests : req'[g].session # s
      BY <1>1, <1>5, NoneAssumption DEF Begun
    <3>4. \A u \in Tabs \ {t} : tab'[u].token # s
      <4> SUFFICES ASSUME NEW u \in Tabs \ {t} PROVE tab'[u].token # s
        OBVIOUS
      <4>1. h \notin tab[u].flights
        BY <2>2 DEF TokensInv, FlightOK
      <4> QED
        BY <1>3, <1>4, <4>1
    <3> QED
      BY <3>1, <3>2, <3>3, <3>4 DEF OwnToken
  <2>3. CASE h \notin tab[t].flights
    <3>1. tab'[t] = tab[t] /\ \A g \in tab[t].flights : req'[g] = req[g]
      BY <1>3, <2>3
    <3>2. FlightOK(t)'
      BY <2>1, <3>1 DEF FlightOK
    <3>3. Renewing(t) => Renewing(t)'
      BY <3>1 DEF Renewing
    <3> QED
      BY <1>2, <1>4, <1>5, <2>1, <3>1, <3>2, <3>3 DEF OwnToken
  <2> QED
    BY <2>2, <2>3
<1>7. ASSUME NEW g \in Requests PROVE HandlerOK(g)'
  <2>1. CASE g = h
    BY <2>1 DEF HandlerOK, BecomesHandler, Idle
  <2>2. CASE g # h
    <3>1. req'[g] = req[g] /\ HandlerOK(g) /\ req[g].session \in Ids \cup {None} /\ req[g].tab \in Tabs \cup {None}
      BY <2>2 DEF BecomesHandler, TokensInv, Types, Handler
    <3>2. req[g].tab # None /\ req[g].tab \notin strayed => g \in tab'[req[g].tab].flights
      BY <2>2, <3>1 DEF HandlerOK, TabAnswered, TokensInv, FlightOK
    <3> QED
      BY <1>2, <3>1, <3>2 DEF HandlerOK
  <2> QED
    BY <2>1, <2>2
<1> QED
  BY <1>6, <1>7 DEF TokensInv

\* A tab starts a refresh or a login; it waits for nothing else.
LEMMA TokensStart ==
  ASSUME Types, Types', TokensInv, UNCHANGED <<session, strayed>>,
         NEW t \in Tabs, NEW h \in Requests, req[h].pc = "idle", tab[t].flights = {},
         tab' = [tab EXCEPT ![t].flights = {h}],
         NEW r \in Handler, req' = [req EXCEPT ![h] = r],
         r.tab = t, r.session = tab[t].token, ~ r.alarm, r.pc \in {"validate", "verify"},
         r.pc = "validate" => r.session # None
  PROVE  TokensInv'
<1>1. req'[h] = r /\ \A g \in Requests \ {h} : req'[g] = req[g]
  BY DEF Types
<1>2. tab'[t].token = tab[t].token /\ tab'[t].flights = {h} /\ \A u \in Tabs \ {t} : tab'[u] = tab[u]
  BY DEF Types, TabRow
<1>3. req[h] = Idle
  BY DEF TokensInv, HandlerOK
<1>4. \A u \in Tabs : h \notin tab[u].flights
  BY <1>3, NoneAssumption DEF TokensInv, FlightOK, Idle
<1>5. ASSUME NEW u \in Tabs PROVE FlightOK(u)' /\ OwnToken(u)'
  <2>1. FlightOK(u) /\ OwnToken(u) /\ tab[u].flights \subseteq Requests /\ OwnToken(t)
    BY DEF TokensInv, Types, TabRow
  <2>2. \A w \in Tabs : tab'[w].token = tab[w].token
    BY <1>2
  <2>3. CASE u = t
    <3>1. FlightOK(u)'
      BY <1>1, <1>2, <2>3 DEF FlightOK
    <3>2. ~ Renewing(u)
      BY <2>3 DEF Renewing
    <3>3. OwnToken(u)'
      BY <1>1, <1>2, <2>1, <2>2, <2>3, <3>2 DEF OwnToken, Begun
    <3> QED
      BY <3>1, <3>3
  <2>4. CASE u # t
    <3>1. tab'[u] = tab[u] /\ \A g \in tab[u].flights : req'[g] = req[g]
      BY <1>1, <1>2, <1>4, <2>1, <2>4
    <3>2. FlightOK(u)'
      BY <2>1, <3>1 DEF FlightOK
    <3>3. Renewing(u) => Renewing(u)'
      BY <3>1 DEF Renewing
    <3>4. u \notin strayed /\ tab[u].token # None => tab[t].token # tab[u].token
      BY <2>1, <2>4 DEF OwnToken
    <3> QED
      BY <1>1, <1>2, <2>1, <2>2, <2>4, <3>1, <3>2, <3>3, <3>4 DEF OwnToken, Begun
  <2> QED
    BY <2>3, <2>4
<1>6. ASSUME NEW g \in Requests PROVE HandlerOK(g)'
  <2>1. CASE g = h
    BY <1>1, <1>2, <2>1, NoneAssumption DEF HandlerOK, TokensInv, OwnToken, Begun
  <2>2. CASE g # h
    <3>1. req'[g] = req[g] /\ HandlerOK(g) /\ req[g].tab \in Tabs \cup {None}
      BY <1>1, <2>2 DEF TokensInv, Types, Handler
    <3>2. req[g].tab # t \/ req[g].tab \in strayed
      BY <3>1, NoneAssumption DEF HandlerOK
    <3> QED
      BY <1>2, <3>1, <3>2 DEF HandlerOK, Begun
  <2> QED
    BY <2>1, <2>2
<1> QED
  BY <1>5, <1>6 DEF TokensInv

\* A tab strays, or gives up its token while it waits for nothing.
LEMMA TokensTab ==
  ASSUME Types, Types', TokensInv, Ending, UNCHANGED req, strayed \subseteq strayed',
         \A t \in Tabs :
            \/ tab'[t] = tab[t]
            \/ t \in strayed' /\ tab'[t].flights = {} /\ \E u \in Tabs : tab'[t].token = tab[u].token /\ (u = t \/ u \in strayed')
            \/ tab[t].flights = {} /\ tab'[t].flights = {} /\ tab'[t].token = None
  PROVE  TokensInv'
<1>1. ASSUME NEW t \in Tabs PROVE FlightOK(t)' /\ OwnToken(t)'
  <2>1. FlightOK(t) /\ OwnToken(t) /\ tab[t].token \in Ids \cup {None} /\ (\A u \in Tabs : OwnToken(u))
    BY DEF TokensInv, Types, TabRow
  <2>2. FlightOK(t)'
    BY <2>1 DEF FlightOK
  <2>3. CASE tab'[t] = tab[t] /\ t \notin strayed'
    <3>1. ASSUME tab[t].token # None, NEW u \in Tabs \ {t} PROVE tab'[u].token # tab[t].token
      <4>1. \A w \in Tabs \ {t} : tab[w].token # tab[t].token
        BY <2>1, <2>3, <3>1 DEF OwnToken
      <4>2. \/ tab'[u] = tab[u]
            \/ \E w \in Tabs : tab'[u].token = tab[w].token /\ (w = u \/ w \in strayed')
            \/ tab'[u].token = None
        OBVIOUS
      <4> QED
        BY <2>3, <3>1, <4>1, <4>2
    <3>2. Renewing(t) => Renewing(t)'
      BY <2>3 DEF Renewing
    <3> QED
      BY <2>1, <2>2, <2>3, <3>1, <3>2, EndingKeeps DEF OwnToken
  <2>4. CASE t \in strayed' \/ tab'[t].token = None
    <3>1. tab'[t].token # None => \E u \in Tabs : tab'[t].token = tab[u].token
      BY <2>4
    <3>2. ASSUME NEW s \in Ids, tab'[t].token = s PROVE session'[s].state # "unused"
      <4> PICK u \in Tabs : s = tab[u].token
        BY <3>1, <3>2, NoneAssumption
      <4>1. Begun(s)
        BY <2>1, NoneAssumption DEF OwnToken
      <4> QED
        BY <4>1, EndingKeeps DEF Begun
    <3>3. tab'[t].token \in Ids \cup {None}
      BY DEF Types, TabRow
    <3> QED
      BY <2>2, <2>4, <3>2, <3>3, NoneAssumption DEF OwnToken, Begun
  <2> QED
    BY <2>2, <2>3, <2>4
<1>2. ASSUME NEW g \in Requests PROVE HandlerOK(g)'
  <2>1. HandlerOK(g) /\ req[g].session \in Ids \cup {None} /\ req[g].tab \in Tabs \cup {None}
    BY DEF TokensInv, Types, Handler
  <2>2. req[g].tab # None /\ req[g].tab \notin strayed' => g \in tab'[req[g].tab].flights
    BY <2>1 DEF HandlerOK
  <2> QED
    BY <2>1, <2>2, EndingKeeps DEF HandlerOK
<1> QED
  BY <1>1, <1>2 DEF TokensInv

\* A handler goes on with nothing changed but how far it is.
LEMMA TokensGo ==
  ASSUME Types, Types', TokensInv, UNCHANGED <<session, tab, strayed>>,
         NEW h \in Requests, NEW r \in Handler, BecomesHandler(h, r),
         r.tab = req[h].tab, r.session = req[h].session, r.alarm = req[h].alarm,
         r.pc # "idle", req[h].pc # "issue", r.pc \in {"validate", "rotate"} => r.session # None
  PROVE  TokensInv'
<1>1. Ending
  BY DEF Ending
<1>2. r.alarm => r.session # None /\ (r.tab \in strayed \/ session'[r.session].state = "ended")
  BY DEF TokensInv, HandlerOK
<1> QED
  BY <1>1, <1>2, TokensAdvance

LEMMA TokensGoto ==
  ASSUME Types, Types', TokensInv, UNCHANGED <<session, tab, strayed>>,
         NEW h \in Requests, NEW pc \in Phases, Goto(h, pc),
         pc # "idle", req[h].pc # "issue", pc \in {"validate", "rotate"} => req[h].session # None
  PROVE  TokensInv'
<1> DEFINE r == [req[h] EXCEPT !.pc = pc]
<1>1. BecomesHandler(h, r)
  BY GotoEffect
<1>2. /\ r \in Handler /\ r.pc = pc
      /\ r.tab = req[h].tab /\ r.session = req[h].session /\ r.alarm = req[h].alarm
  BY DEF Types, Handler
<1> HIDE DEF r
<1> QED
  BY <1>1, <1>2, TokensGo

\* A handler ends without a token for the tab that waits for it.
LEMMA TokensEnd ==
  ASSUME Types, Types', TokensInv, Ending, UNCHANGED strayed,
         NEW h \in Requests, Finish(h), Answered(h, None)
  PROVE  TokensInv'
<1>1. BecomesHandler(h, Idle)
  BY FinishEffect
<1>2. TabAnswered(h, None)
  BY AnsweredEffect
<1> QED
  BY <1>1, <1>2, TokensFinish

\* Removing a session ends it.
LEMMA RemoveEnds ==
  ASSUME Types, NEW s \in Ids, Remove(s, "ended")
  PROVE  Ending
  BY RemoveEffect DEF Ending

LEMMA TokensTabActions ==
  ASSUME Types, Types', TokensInv, NEW t \in Tabs, NEW u \in Tabs, Reload(t) \/ Logout(t) \/ Duplicate(t, u)
  PROVE  TokensInv'
<1>1. CASE Reload(t)
  <2>1. Ending /\ UNCHANGED req /\ strayed' = strayed \cup {t} /\ tab' = [tab EXCEPT ![t].flights = {}]
    BY <1>1 DEF Reload, Ending, redisVars
  <2>2. tab'[t].token = tab[t].token /\ tab'[t].flights = {} /\ \A w \in Tabs \ {t} : tab'[w] = tab[w]
    BY <2>1 DEF Types, TabRow
  <2> QED
    BY <2>1, <2>2, TokensTab
<1>2. CASE Logout(t)
  <2>1. /\ UNCHANGED <<req, strayed>> /\ tab' = [tab EXCEPT ![t].token = None]
        /\ tab[t].flights = {} /\ tab[t].token # None /\ Remove(tab[t].token, "ended")
    BY <1>2 DEF Logout, ghostVars
  <2>2. Ending
    BY <2>1, RemoveEnds DEF Types, TabRow
  <2>3. tab'[t].token = None /\ tab'[t].flights = {} /\ \A w \in Tabs \ {t} : tab'[w] = tab[w]
    BY <2>1 DEF Types, TabRow
  <2> QED
    BY <2>1, <2>2, <2>3, TokensTab
<1>3. CASE Duplicate(t, u)
  <2>1. /\ Ending /\ UNCHANGED req /\ strayed' = strayed \cup {t, u}
        /\ tab' = [tab EXCEPT ![u].token = tab[t].token] /\ tab[u].flights = {}
    BY <1>3 DEF Duplicate, Ending, redisVars
  <2>2. tab'[u].token = tab[t].token /\ tab'[u].flights = {} /\ \A w \in Tabs \ {u} : tab'[w] = tab[w]
    BY <2>1 DEF Types, TabRow
  <2> QED
    BY <2>1, <2>2, TokensTab
<1> QED
  BY <1>1, <1>2, <1>3

LEMMA TokensStartActions ==
  ASSUME Types, Types', TokensInv, NEW t \in Tabs, NEW h \in Requests, StartRefresh(t, h) \/ StartLogin(t, h)
  PROVE  TokensInv'
<1>1. CASE StartRefresh(t, h) /\ session[tab[t].token].until <= clock
  <2>1. /\ UNCHANGED <<req, strayed>> /\ Ending /\ tab' = [tab EXCEPT ![t].token = None] /\ tab[t].flights = {}
    BY <1>1 DEF StartRefresh, MayStart, Ending, redisVars, ghostVars
  <2>2. tab'[t].token = None /\ tab'[t].flights = {} /\ \A w \in Tabs \ {t} : tab'[w] = tab[w]
    BY <2>1 DEF Types, TabRow
  <2> QED
    BY <2>1, <2>2, TokensTab
<1>2. CASE StartRefresh(t, h) /\ ~ (session[tab[t].token].until <= clock)
  <2> DEFINE r == [Idle EXCEPT !.pc = "validate", !.tab = t, !.session = tab[t].token]
  <2>1. /\ UNCHANGED <<session, strayed>> /\ req[h].pc = "idle" /\ tab[t].flights = {} /\ tab[t].token # None
        /\ tab' = [tab EXCEPT ![t].flights = @ \cup {h}] /\ req' = [req EXCEPT ![h] = r]
    BY <1>2 DEF StartRefresh, MayStart, redisVars, ghostVars
  <2>2. tab' = [tab EXCEPT ![t].flights = {h}]
    BY <2>1
  <2>3. r \in Handler /\ r.tab = t /\ r.session = tab[t].token /\ r.alarm = FALSE /\ r.pc = "validate"
    BY DEF Idle, Handler, Phases, Types, TabRow
  <2> HIDE DEF r
  <2> QED
    BY <2>1, <2>2, <2>3, TokensStart
<1>3. CASE StartLogin(t, h)
  <2> DEFINE r == [Idle EXCEPT !.pc = "verify", !.tab = t]
  <2>1. /\ UNCHANGED <<session, strayed>> /\ req[h].pc = "idle" /\ tab[t].flights = {} /\ tab[t].token = None
        /\ tab' = [tab EXCEPT ![t].flights = {h}] /\ req' = [req EXCEPT ![h] = r]
    BY <1>3 DEF StartLogin, redisVars, ghostVars
  <2>2. r \in Handler /\ r.tab = t /\ r.session = None /\ r.alarm = FALSE /\ r.pc = "verify"
    BY DEF Idle, Handler, Phases, Types, TabRow
  <2> HIDE DEF r
  <2> QED
    BY <2>1, <2>2, TokensStart
<1> QED
  BY <1>1, <1>2, <1>3

\* The refresh: an alarm of a tab that never strayed is for a session that was ended, since
\* only the tab's own refresh could have rotated it.
LEMMA TokensRefresh ==
  ASSUME Types, Types', TokensInv, NEW h \in Requests, Validate(h) \/ Rotate(h) \/ IssueNext(h)
  PROVE  TokensInv'
<1>0. HandlerOK(h) /\ req[h] \in Handler
  BY DEF TokensInv, Types
<1>1. CASE Validate(h) /\ Live(req[h].session)
  BY <1>0, <1>1, TokensGoto DEF Validate, HandlerOK, Phases, redisVars, ghostVars
<1>2. CASE Validate(h) /\ ~ Live(req[h].session)
  <2> DEFINE r == [req[h] EXCEPT !.pc = "members", !.alarm = TRUE]
  <2>1. /\ req[h].pc = "validate" /\ UNCHANGED <<session, tab, strayed>>
        /\ req' = [req EXCEPT ![h].pc = "members", ![h].alarm = TRUE]
    BY <1>2 DEF Validate, redisVars, ghostVars
  <2>2. /\ r \in Handler /\ r.pc = "members" /\ r.alarm = TRUE
        /\ r.tab = req[h].tab /\ r.session = req[h].session /\ BecomesHandler(h, r)
    BY <1>0, <2>1 DEF Handler, Phases, Types, BecomesHandler
  <2>3. PICK s \in Ids : s = req[h].session
    BY <1>0, <2>1 DEF HandlerOK, Handler
  <2>4. PICK t \in Tabs : t = req[h].tab
    BY <1>0, <2>1 DEF HandlerOK, Handler
  <2>5. t \in strayed \/ session[s].state = "ended"
    <3> SUFFICES ASSUME t \notin strayed PROVE session[s].state = "ended"
      OBVIOUS
    <3>1. h \in tab[t].flights
      BY <1>0, <2>4, NoneAssumption DEF HandlerOK
    <3>2. tab[t].token = s /\ \A k \in tab[t].flights : k = h
      BY <2>3, <3>1 DEF TokensInv, FlightOK
    <3>3. ~ Renewing(t)
      BY <2>1, <3>2 DEF Renewing
    <3>4. Begun(s) /\ session[s].state # "rotated"
      BY <3>2, <3>3, NoneAssumption DEF TokensInv, OwnToken
    <3> QED
      BY <1>2, <2>3, <3>4 DEF Begun, Live, Types, SessionKey, SessionState
  <2>6. Ending
    BY <2>1 DEF Ending
  <2> HIDE DEF r
  <2>7. r.session # None /\ (r.tab \in strayed \/ session'[r.session].state = "ended")
    BY <2>1, <2>2, <2>3, <2>4, <2>5, NoneAssumption
  <2> QED
    BY <2>1, <2>2, <2>6, <2>7, TokensAdvance
<1>3. CASE Rotate(h)
  <2>1. req[h].pc = "rotate" /\ UNCHANGED strayed
    BY <1>3 DEF Rotate, ghostVars
  <2>2. CASE Finish(h) /\ Answered(h, None) /\ UNCHANGED redisVars
    <3>1. Ending
      BY <2>2 DEF Ending, redisVars
    <3> QED
      BY <2>1, <2>2, <3>1, TokensEnd
  <2>3. CASE Goto(h, "issue") /\ Remove(req[h].session, "rotated") /\ UNCHANGED <<indexUntil, tab>>
    BY <2>1, <2>3, TokensRotate
  <2> QED
    BY <1>3, <2>2, <2>3 DEF Rotate
<1>4. CASE IssueNext(h)
  <2>1. UNCHANGED strayed /\ BecomesHandler(h, Idle)
    BY <1>4, FinishEffect DEF IssueNext
  <2>2. PICK s \in Ids : Issue(s) /\ (Answered(h, s) \/ Answered(h, None))
    BY <1>4 DEF IssueNext
  <2>3. \E token \in {s, None} : TabAnswered(h, token)
    BY <2>2, AnsweredEffect
  <2> QED
    BY <2>1, <2>2, <2>3, TokensIssue
<1> QED
  BY <1>1, <1>2, <1>3, <1>4

LEMMA TokensRevokeAll ==
  ASSUME Types, Types', TokensInv, NEW h \in Requests, LogoutAll(h) \/ Reset(h) \/ Spend(h) \/ Members(h) \/ Delete(h)
  PROVE  TokensInv'
<1>1. CASE LogoutAll(h) \/ Reset(h) \/ Spend(h)
  <2>1. /\ UNCHANGED <<session, tab, strayed>> /\ req[h].pc # "issue"
        /\ Goto(h, "members") \/ Goto(h, "spend")
    BY <1>1 DEF LogoutAll, Reset, Spend, redisVars, ghostVars
  <2> QED
    BY <2>1, TokensGoto DEF Phases
<1>2. CASE Members(h)
  <2> DEFINE older == {s \in Ids : session[s].state # "unused"}
             r == [req[h] EXCEPT !.pc = "delete", !.seen = index, !.before = older]
  <2>1. UNCHANGED <<session, strayed>> /\ req[h].pc = "members"
    BY <1>2 DEF Members, redisVars
  <2>2. CASE Finish(h) /\ Answered(h, None)
    <3>1. Ending
      BY <2>1 DEF Ending
    <3> QED
      BY <2>1, <2>2, <3>1, TokensEnd
  <2>3. CASE UNCHANGED tab /\ req' = [req EXCEPT ![h].pc = "delete", ![h].seen = index, ![h].before = older]
    <3>1. /\ r \in Handler /\ r.pc = "delete" /\ r.alarm = req[h].alarm
          /\ r.tab = req[h].tab /\ r.session = req[h].session /\ BecomesHandler(h, r)
      BY <2>3 DEF Handler, Phases, Types, BecomesHandler
    <3> HIDE DEF r
    <3> QED
      BY <2>1, <2>3, <3>1, TokensGo
  <2> QED
    BY <1>2, <2>2, <2>3 DEF Members
<1>3. CASE Delete(h)
  <2>1. UNCHANGED strayed /\ Finish(h) /\ Answered(h, None)
    BY <1>3 DEF Delete
  <2>2. Ending
    BY <1>3 DEF Delete, Ending, Types, SessionKey, Live
  <2> QED
    BY <2>1, <2>2, TokensEnd
<1> QED
  BY <1>1, <1>2, <1>3

LEMMA TokensLogin ==
  ASSUME Types, Types', TokensInv, NEW h \in Requests, Verify(h) \/ Incr(h) \/ Expiry(h) \/ Lock(h)
  PROVE  TokensInv'
<1>1. UNCHANGED <<session, strayed>> /\ req[h].pc # "issue" /\ Ending
  BY DEF Verify, Incr, Expiry, Lock, redisVars, ghostVars, Ending
<1>2. \/ (\E pc \in {"issue", "incr", "expiry", "lock"} : Goto(h, pc)) /\ UNCHANGED tab
      \/ Finish(h) /\ Answered(h, None)
  <2>1. CASE Verify(h)
    BY <2>1 DEF Verify
  <2>2. CASE Incr(h)
    BY <2>2 DEF Incr
  <2>3. CASE Expiry(h)
    BY <2>3 DEF Expiry
  <2>4. CASE Lock(h)
    BY <2>4 DEF Lock
  <2> QED
    BY <2>1, <2>2, <2>3, <2>4
<1> QED
  BY <1>1, <1>2, TokensGoto, TokensEnd DEF Phases

\* A crash ends every handler, and the tabs that waited have no token left.
LEMMA TokensCrash ==
  ASSUME Types, TokensInv, Crash
  PROVE  TokensInv'
<1>1. /\ \A h \in Requests : req'[h] = Idle
      /\ UNCHANGED <<session, strayed>>
  BY DEF Crash, redisVars, ghostVars
<1>2. ASSUME NEW t \in Tabs
      PROVE  /\ tab'[t].flights = {}
             /\ tab'[t].token = None \/ (tab[t].flights = {} /\ tab'[t] = tab[t])
  BY DEF Crash
<1>3. ASSUME NEW t \in Tabs PROVE FlightOK(t)' /\ OwnToken(t)'
  <2>1. FlightOK(t)'
    BY <1>2 DEF FlightOK
  <2>2. CASE tab[t].flights = {} /\ tab'[t] = tab[t] /\ tab[t].token # None
    <3>1. OwnToken(t) /\ ~ Renewing(t)
      BY <2>2 DEF TokensInv, Renewing
    <3>2. \A u \in Tabs : tab'[u].token \in {None, tab[u].token}
      BY <1>2
    <3> QED
      BY <1>1, <2>1, <2>2, <3>1, <3>2 DEF OwnToken, Begun, Idle
  <2> QED
    BY <1>2, <2>1, <2>2 DEF OwnToken
<1>4. ASSUME NEW h \in Requests PROVE HandlerOK(h)'
  <2>1. req'[h] = Idle
    BY <1>1
  <2> QED
    BY <2>1 DEF HandlerOK, Idle
<1> QED
  BY <1>3, <1>4 DEF TokensInv

LEMMA NextTokens == Types /\ Types' /\ TokensInv /\ [Next]_vars => TokensInv'
<1> SUFFICES ASSUME Types, Types', TokensInv, [Next]_vars PROVE TokensInv'
  OBVIOUS
<1>1. CASE Tick
  <2>1. UNCHANGED <<tab, strayed, req>>
    BY <1>1 DEF Tick, ghostVars
  <2>2. Ending
    BY <1>1 DEF Tick, Ending, Types, SessionKey, Live
  <2> QED
    BY <2>1, <2>2, TokensUntouched
<1>2. ASSUME NEW s \in Ids, RevokeSession(s) PROVE TokensInv'
  <2>1. UNCHANGED <<tab, strayed, req>> /\ Remove(s, "ended")
    BY <1>2 DEF RevokeSession, ghostVars
  <2> QED
    BY <2>1, RemoveEnds, TokensUntouched
<1>3. CASE UNCHANGED vars
  BY <1>3, TokensUntouched DEF vars, Ending
<1> QED
  BY <1>1, <1>2, <1>3, TokensTabActions, TokensStartActions, TokensRefresh, TokensRevokeAll, TokensLogin, TokensCrash
  DEF Next

LEMMA InitTokens == Init => TokensInv
<1> SUFFICES ASSUME Init PROVE TokensInv
  OBVIOUS
<1>1. \A t \in Tabs : tab[t].token = None /\ tab[t].flights = {}
  BY DEF Init
<1>2. \A h \in Requests : req[h] = Idle
  BY DEF Init
<1>3. ASSUME NEW h \in Requests PROVE HandlerOK(h)
  <2>1. req[h] = Idle
    BY <1>2
  <2> QED
    BY <2>1 DEF HandlerOK, Idle
<1> QED
  BY <1>1, <1>3 DEF TokensInv, FlightOK, OwnToken

-----------------------------------------------------------------------------
(***************************************************************************)
(* The theorems.                                                           *)
(***************************************************************************)
SessionsInv == Types /\ IndexInv /\ CountInv /\ TokensInv

\* The three invariants hold together, for any tabs, ids, handlers and limits.
THEOREM Invariance == Spec => []SessionsInv
<1>1. Init => SessionsInv
  BY InitTypes, InitIndex, InitCount, InitTokens DEF SessionsInv
<1>2. SessionsInv /\ [Next]_vars => SessionsInv'
  BY NextTypes, NextIndex, NextCount, NextTokens DEF SessionsInv
<1> QED
  BY <1>1, <1>2, PTL DEF Spec

\* AlarmExplained: the alarm that ends every session of a user (JwtRefreshStrategy.validate)
\* is never raised by the refreshes of tabs that were not reloaded or duplicated, unless
\* the session had been ended.
THEOREM AlarmsExplained == Spec => []AlarmExplained
<1>1. SessionsInv => AlarmExplained
  BY TokensExplainAlarm DEF SessionsInv
<1> QED
  BY <1>1, Invariance, PTL

\* LiveIsListed: a session that works is in the index that revokeAllUserSessions reads,
\* unless it was issued while a revocation had read the index and not yet deleted it.
THEOREM SessionsListed == Spec => []LiveIsListed
<1>1. SessionsInv => LiveIsListed
  BY DEF SessionsInv, IndexInv
<1> QED
  BY <1>1, Invariance, PTL

\* RevokedAllAreGone: what revokeAllUserSessions found begun when it read the index does
\* not work once it has returned.
THEOREM RevokedGone == Spec => []RevokedAllAreGone
<1>1. SessionsInv => RevokedAllAreGone
  BY DEF SessionsInv, IndexInv
<1> QED
  BY <1>1, Invariance, PTL

\* ThrottleKept: however failed logins interleave, one of them begins the lockout, and the
\* counter they share expires unless the process died before it set the expiry.
THEOREM ThrottleHolds == Spec => []ThrottleKept
<1>1. SessionsInv => ThrottleKept
  BY DEF SessionsInv, CountInv
<1> QED
  BY <1>1, Invariance, PTL

=============================================================================
