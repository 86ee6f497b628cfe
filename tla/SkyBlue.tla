-------------------------------- MODULE SkyBlue -------------------------------
(***************************************************************************)
(* The SkyBlue portal's session, shared through Redis by every process that *)
(* asks for the details of a Mobiline eSIM (SkyBlueService).  Three keys:   *)
(* the session, a login lock with a token and a 40 second life, and a mark  *)
(* that pauses logins for ten minutes.  One action per Redis command or     *)
(* request to the portal.                                                   *)
(***************************************************************************)
EXTENDS Naturals

CONSTANTS
    Procs,      \* calls of getEsimDetail, in one process or several
    NoProc,
    MaxLogins,  \* bound: sessions the portal hands out
    MaxStalls   \* bound: requests and commands of a login that hang past the lock's life

ASSUME SkyConstants == NoProc \notin Procs /\ MaxLogins \in Nat /\ MaxStalls \in Nat

VARIABLES
    session,    \* Redis: the stored session, 0 for none
    blocked,    \* Redis: login_blocked
    lock,       \* Redis: whose token login_lock holds
    pc,         \* what a call is about to do
    mine,       \* the session the call uses
    stale,      \* the session it was told is stale, 0 for none
    again,      \* the call has already logged in after E9998
    failed,     \* what login leaves for the caller after the lock is released
    overdue,    \* calls whose lock ran out under them
    valid,      \* the portal: sessions it accepts
    logins,     \* sessions handed out so far
    stalls,
    late        \* history: calls, not overdue, that sent a login in the current pause

redis == <<session, blocked, lock>>
local == <<pc, mine, stale, again, failed>>
skyVars == <<redis, local, overdue, valid, logins, stalls, late>>

NoSession == 0
Sessions == 0..MaxLogins
\* Between SET NX and the release of the lock
Critical == {"checkBlocked", "checkSession", "page", "post", "store", "block", "drop", "release"}
Waiting == {"poll", "current", "acquire"}
Step == {"idle", "get", "detail", "block2", "drop2"} \cup Waiting \cup Critical

SkyTypeOK ==
    /\ session \in Sessions /\ blocked \in BOOLEAN /\ lock \in Procs \cup {NoProc}
    /\ pc \in [Procs -> Step] /\ mine \in [Procs -> Sessions] /\ stale \in [Procs -> Sessions]
    /\ again \in [Procs -> BOOLEAN] /\ failed \in [Procs -> BOOLEAN]
    /\ overdue \subseteq Procs /\ valid \subseteq Sessions /\ logins \in Sessions
    /\ stalls \in 0..MaxStalls /\ late \subseteq Procs

SkyInit ==
    /\ session = NoSession /\ blocked = FALSE /\ lock = NoProc
    /\ pc = [p \in Procs |-> "idle"] /\ mine = [p \in Procs |-> NoSession]
    /\ stale = [p \in Procs |-> NoSession]
    /\ again = [p \in Procs |-> FALSE] /\ failed = [p \in Procs |-> FALSE]
    /\ overdue = {} /\ valid = {} /\ logins = 0 /\ stalls = 0 /\ late = {}

Goto(p, step) == pc' = [pc EXCEPT ![p] = step]

-----------------------------------------------------------------------------
(* getEsimDetail                                                            *)

Start(p) ==
    /\ pc[p] = "idle"
    /\ Goto(p, "get")
    /\ again' = [again EXCEPT ![p] = FALSE] /\ stale' = [stale EXCEPT ![p] = NoSession]
    /\ UNCHANGED <<redis, mine, failed, overdue, valid, logins, stalls, late>>

\* The stored session, or a login
GetSession(p) ==
    /\ pc[p] = "get"
    /\ mine' = [mine EXCEPT ![p] = session]
    /\ Goto(p, IF session = NoSession THEN "poll" ELSE "detail")
    /\ UNCHANGED <<redis, stale, again, failed, overdue, valid, logins, stalls, late>>

\* The portal answers (whatever it says of the eSIM), or is down
Detail(p) ==
    /\ pc[p] = "detail"
    /\ Goto(p, "idle")
    /\ UNCHANGED <<redis, mine, stale, again, failed, overdue, valid, logins, stalls, late>>

\* E9998, or a redirect or page instead of an answer: one login, and when the
\* session is refused again the pause
Refused(p) ==
    /\ pc[p] = "detail" /\ mine[p] \notin valid
    /\ again' = [again EXCEPT ![p] = TRUE]
    /\ stale' = [stale EXCEPT ![p] = mine[p]]
    /\ Goto(p, IF again[p] THEN "block2" ELSE "poll")
    /\ UNCHANGED <<redis, mine, failed, overdue, valid, logins, stalls, late>>

\* block: the mark first, then the session goes; in login and in getEsimDetail
SetBlocked(p) ==
    /\ pc[p] \in {"block", "block2"}
    /\ blocked' = TRUE
    /\ Goto(p, IF pc[p] = "block" THEN "drop" ELSE "drop2")
    /\ UNCHANGED <<session, lock, mine, stale, again, failed, overdue, valid, logins, stalls, late>>

DropSession(p) ==
    /\ pc[p] \in {"drop", "drop2"}
    /\ session' = NoSession
    /\ Goto(p, IF pc[p] = "drop" THEN "release" ELSE "idle")
    /\ UNCHANGED <<blocked, lock, mine, stale, again, failed, overdue, valid, logins, stalls, late>>

-----------------------------------------------------------------------------
(* login                                                                    *)

\* The loop: a pause ends it, and so does its deadline
Poll(p) ==
    /\ pc[p] = "poll"
    /\ Goto(p, IF blocked THEN "idle" ELSE "current") \/ Goto(p, "idle")
    /\ UNCHANGED <<redis, mine, stale, again, failed, overdue, valid, logins, stalls, late>>

Usable(p) == session # NoSession /\ session # stale[p]

\* Somebody else has logged in meanwhile?
ReadCurrent(p) ==
    /\ pc[p] = "current"
    /\ IF Usable(p) THEN mine' = [mine EXCEPT ![p] = session] /\ Goto(p, "detail")
                    ELSE UNCHANGED mine /\ Goto(p, "acquire")
    /\ UNCHANGED <<redis, stale, again, failed, overdue, valid, logins, stalls, late>>

\* SET NX; who does not get the lock polls on
Acquire(p) ==
    /\ pc[p] = "acquire"
    /\ IF lock = NoProc THEN lock' = p /\ Goto(p, "checkBlocked")
                        ELSE UNCHANGED lock /\ Goto(p, "poll")
    /\ failed' = [failed EXCEPT ![p] = FALSE]
    /\ UNCHANGED <<session, blocked, mine, stale, again, overdue, valid, logins, stalls, late>>

Fail(p) == failed' = [failed EXCEPT ![p] = TRUE]

\* Mutant: the mark is not looked at again under the lock
CheckNothing(p) ==
    /\ pc[p] = "checkBlocked"
    /\ UNCHANGED failed /\ Goto(p, "checkSession")
    /\ UNCHANGED <<redis, mine, stale, again, overdue, valid, logins, stalls, late>>

\* Under the lock both are looked at once more
CheckBlocked(p) ==
    /\ pc[p] = "checkBlocked"
    /\ IF blocked THEN Fail(p) /\ Goto(p, "release")
                  ELSE UNCHANGED failed /\ Goto(p, "checkSession")
    /\ UNCHANGED <<redis, mine, stale, again, overdue, valid, logins, stalls, late>>

\* Mutant: the session is not looked at again under the lock
LoginAnyway(p) ==
    /\ pc[p] = "checkSession"
    /\ UNCHANGED mine /\ Goto(p, "page")
    /\ UNCHANGED <<redis, stale, again, failed, overdue, valid, logins, stalls, late>>

CheckSession(p) ==
    /\ pc[p] = "checkSession"
    /\ IF Usable(p) THEN mine' = [mine EXCEPT ![p] = session] /\ Goto(p, "release")
                    ELSE UNCHANGED mine /\ Goto(p, "page")
    /\ UNCHANGED <<redis, stale, again, failed, overdue, valid, logins, stalls, late>>

\* GET /login.jsp; an outage is no reason for a pause
Page(p) ==
    /\ pc[p] = "page"
    /\ \/ Goto(p, "post") /\ UNCHANGED failed
       \/ Goto(p, "release") /\ Fail(p)
    /\ UNCHANGED <<redis, mine, stale, again, overdue, valid, logins, stalls, late>>

\* POST the credentials: a new session, which may make the others invalid; or
\* an outage; or a rejection, which pauses logins
Post(p) ==
    /\ pc[p] = "post"
    /\ late' = IF blocked /\ p \notin overdue THEN late \cup {p} ELSE late
    /\ \/ /\ logins < MaxLogins
          /\ logins' = logins + 1
          /\ valid' \in {{logins + 1}, valid \cup {logins + 1}}
          /\ mine' = [mine EXCEPT ![p] = logins + 1]
          /\ Goto(p, "store") /\ UNCHANGED failed
       \/ Goto(p, "release") /\ Fail(p) /\ UNCHANGED <<mine, valid, logins>>
       \/ Goto(p, "block") /\ Fail(p) /\ UNCHANGED <<mine, valid, logins>>
    /\ UNCHANGED <<redis, stale, again, overdue, stalls>>

StoreSession(p) ==
    /\ pc[p] = "store"
    /\ session' = mine[p]
    /\ Goto(p, "release")
    /\ UNCHANGED <<blocked, lock, mine, stale, again, failed, overdue, valid, logins, stalls, late>>

\* Mutant: the lock is deleted whoever holds it by now
ReleaseAny(p) ==
    /\ pc[p] = "release"
    /\ lock' = NoProc
    /\ Goto(p, IF failed[p] THEN "idle" ELSE "detail")
    /\ overdue' = overdue \ {p}
    /\ UNCHANGED <<session, blocked, mine, stale, again, failed, valid, logins, stalls, late>>

\* finally: the script deletes the lock only if it still holds our token
Release(p) ==
    /\ pc[p] = "release"
    /\ lock' = IF lock = p THEN NoProc ELSE lock
    /\ Goto(p, IF failed[p] THEN "idle" ELSE "detail")
    /\ overdue' = overdue \ {p}
    /\ UNCHANGED <<session, blocked, mine, stale, again, failed, valid, logins, stalls, late>>

LoginStep(p) ==
    \/ Poll(p) \/ ReadCurrent(p) \/ Acquire(p) \/ CheckBlocked(p) \/ CheckSession(p)
    \/ Page(p) \/ Post(p) \/ StoreSession(p) \/ SetBlocked(p) \/ DropSession(p) \/ Release(p)

-----------------------------------------------------------------------------
(* Time, crashes and the portal                                             *)

\* 40 seconds pass for the lock: two requests of at most 12 seconds fit, so
\* its holder is gone -- or has been stalled
LockExpires ==
    /\ lock # NoProc
    /\ lock' = NoProc
    /\ IF pc[lock] \in Critical
       THEN stalls < MaxStalls /\ stalls' = stalls + 1 /\ overdue' = overdue \cup {lock}
       ELSE UNCHANGED <<stalls, overdue>>
    /\ UNCHANGED <<session, blocked, local, valid, logins, late>>

\* The process of a call dies: nothing is released
Die(p) ==
    /\ pc[p] # "idle"
    /\ Goto(p, "idle")
    /\ overdue' = overdue \ {p}
    /\ UNCHANGED <<redis, mine, stale, again, failed, valid, logins, stalls, late>>

\* 12 hours, ten minutes, and the portal forgets
SessionExpires ==
    /\ session # NoSession
    /\ session' = NoSession
    /\ UNCHANGED <<blocked, lock, local, overdue, valid, logins, stalls, late>>

PauseEnds ==
    /\ blocked
    /\ blocked' = FALSE /\ late' = {}
    /\ UNCHANGED <<session, lock, local, overdue, valid, logins, stalls>>

PortalForgets ==
    /\ valid # {}
    /\ valid' = {}
    /\ UNCHANGED <<redis, local, overdue, logins, stalls, late>>

SkyNext ==
    \/ \E p \in Procs : \/ Start(p) \/ GetSession(p) \/ Detail(p) \/ Refused(p)
                        \/ LoginStep(p) \/ Die(p)
    \/ LockExpires \/ SessionExpires \/ PauseEnds \/ PortalForgets

SkySpec == SkyInit /\ [][SkyNext]_skyVars

-----------------------------------------------------------------------------
(* Properties *)

\* Logging in is serialized: whoever is at it and has not outstayed the lock
\* holds it.  (skyblue.gateway.ts:77-118)
LockIsHeld == \A p \in Procs : pc[p] \in Critical /\ p \notin overdue => lock = p

\* No needless login, which could end a session others use: when the
\* credentials go out, nobody has stored a session the caller has not been
\* refused with.  (skyblue.gateway.ts:80-81)
NoNeedlessLogin ==
    \A p \in Procs : pc[p] \in {"page", "post"} /\ overdue = {} /\ stalls = 0 => ~Usable(p)

\* In a pause at most one login goes out, the one that was under way when it
\* began, besides those of calls that have outstayed the lock.
\* (skyblue.gateway.ts:74, :79)
PauseRespected == \A p, q \in late : p = q
=============================================================================
