------------------------------ MODULE GuiGate ------------------------------
(***************************************************************************)
(* The way into the web GUI (src/FerrumGUI/src): the rate limit in front   *)
(* of every request and WebSocket upgrade, the login lockout, the account, *)
(* the sessions, and the proxy that hands a request on to the manager API  *)
(* of a FerrumProxy process.                                               *)
(*                                                                         *)
(* Handlers run to their first real wait, so a request is one action; only *)
(* the first-time setup waits in the middle, for the disk.  Time is a tick *)
(* of five minutes, which divides the window (10 minutes) and the lockout  *)
(* (15 minutes) of the login; every clock is an age or a rest that stops   *)
(* counting where the code no longer tells the difference.  A bucket holds *)
(* Unit of tokens per request, so that a refill may be a fraction of one.  *)
(***************************************************************************)
EXTENDS Common

CONSTANTS
    Browser,        \* remote addresses, each with a browser and its cookie
    Capacity,       \* tokens of a full bucket, for each scope
    Refill,         \* tokens a tick adds, for each scope
    Unit,           \* tokens a request costs
    BlockAfter,     \* RATE_LIMIT_BLOCK_AFTER
    BlockTicks,     \* RATE_LIMIT_BLOCK_MS
    PruneTicks,     \* 30 minutes
    Threshold,      \* loginFailureThreshold
    SessionTicks,   \* sessionDuration
    MaxSetups,      \* bound: setup requests of one browser that wait at once
    Password

\* What selectSecurityScope and the upgrade handler charge; "web" has the policy of "api".
Scope == {"api", "auth", "websocket"}

\* What securityStateByClient and loginFailures hold, and loginFailureWindow and
\* loginLockoutDuration in ticks.
loginFailureWindow == 2
loginLockoutDuration == 3
ClientState == [tokens : Nat, idle : 0 .. PruneTicks + 1, violations : Nat, block : 0 .. BlockTicks]
LoginRecord == [count : Nat \ {0}, age : 0 .. loginFailureWindow + 1, lock : 0 .. loginLockoutDuration]

\* The defaults of the environment variables satisfy these.
ASSUME GuiGateAssumption ==
    /\ Unit \in Nat \ {0} /\ BlockAfter \in Nat \ {0} /\ Threshold \in Nat /\ Threshold >= 2
    /\ {BlockTicks, PruneTicks, SessionTicks} \subseteq Nat \ {0} /\ MaxSetups \in Nat
    /\ Capacity \in [Scope -> Nat] /\ Refill \in [Scope -> Nat]
    /\ \A s \in Scope : /\ Capacity[s] >= Unit
                        /\ BlockTicks * Refill[s] >= Unit
                        /\ PruneTicks * Refill[s] >= Capacity[s]
    /\ None \notin ClientState \cup LoginRecord \cup Password \cup {"empty", "delegate", "manager"}

VARIABLES
    sec,        \* securityStateByClient
    failures,   \* loginFailures of the account's name
    auth,       \* data.auth: the password, or None
    settingUp,     \* setup requests of each browser that wait for serviceManager.save
    session,    \* what is left of the session of each browser's cookie
    burst,      \* history: requests let through since the last tick
    forwarded   \* history: the last request handed to the manager API

gateVars == <<sec, failures, auth, settingUp, session, burst, forwarded>>
gate == <<sec, burst>>

NoBurst == [c \in Browser |-> [s \in Scope |-> 0]]
NoForward == [caller |-> None, session |-> FALSE, sent |-> None]

GateInit ==
    /\ sec = [c \in Browser |-> None] /\ failures = None
    /\ auth \in Password \cup {None} /\ settingUp = [c \in Browser |-> 0]
    /\ session = [c \in Browser |-> 0]
    /\ burst = NoBurst /\ forwarded = NoForward

-----------------------------------------------------------------------------
(* The rate limit.                                                         *)

getSecurityState(known, s) ==
    IF known # None THEN known
    ELSE [tokens |-> Capacity[s], idle |-> 0, violations |-> 0, block |-> 0]

pruneExpiredSecurityStates ==
    [c \in Browser |-> IF sec[c] # None /\ sec[c].block = 0 /\ sec[c].idle > PruneTicks
                      THEN None ELSE sec[c]]

Refilled(st, s) == LeastOf(Capacity[s], st.tokens + st.idle * Refill[s])

Violation(st) ==
    [st EXCEPT !.violations = @ + 1,
               !.block = IF st.violations + 1 >= BlockAfter THEN BlockTicks ELSE @]

Allowed(st) == [st EXCEPT !.tokens = @ - Unit, !.violations = Down(@)]

WhileBlocked_refilled(st) == [st EXCEPT !.idle = 0]

\* A blocked client's state is left alone, its lastRefillAt included.
WhileBlocked(st) == st

\* consumeSecurityToken: the state of the client afterwards, and the verdict.
consumeSecurityToken(st, s) ==
    LET full == [st EXCEPT !.tokens = Refilled(st, s), !.idle = 0] IN
    IF st.block > 0 THEN [state |-> WhileBlocked(st), allowed |-> FALSE]
    ELSE IF full.tokens < Unit THEN [state |-> Violation(full), allowed |-> FALSE]
    ELSE [state |-> Allowed(full), allowed |-> TRUE]

\* securityGuard: a request of client c passes, or does not.
Guard(c, s, passes) ==
    LET pruned == pruneExpiredSecurityStates
        r == consumeSecurityToken(getSecurityState(pruned[c], s), s) IN
    /\ r.allowed = passes
    /\ sec' = [pruned EXCEPT ![c] = r.state]
    /\ burst' = IF passes THEN [burst EXCEPT ![c][s] = @ + 1] ELSE burst

\* rejectSuspiciousRequest and the refusal of an upgrade: nothing behind the guard runs.
GateRefuse(c, s) ==
    /\ Guard(c, s, FALSE)
    /\ UNCHANGED <<failures, auth, settingUp, session, forwarded>>

-----------------------------------------------------------------------------
(* The account.                                                            *)

canAttemptLogin == IF failures = None THEN TRUE ELSE failures.lock = 0

\* What canAttemptLogin leaves of the record of an attempt it allows.
AfterAttempt ==
    IF failures # None /\ failures.age > loginFailureWindow THEN None ELSE failures

registerFailedLogin ==
    LET f == AfterAttempt IN
    IF f = None THEN [count |-> 1, age |-> 0, lock |-> 0]
    ELSE [f EXCEPT !.count = @ + 1,
                   !.lock = IF f.count + 1 >= Threshold THEN loginLockoutDuration ELSE 0]

\* Without an account every password is right.
verifyAuth(p) == auth = None \/ auth = p

createSession(c) == session' = [session EXCEPT ![c] = SessionTicks]

validateSession(c) == session[c] > 0

Login(c, p) ==
    /\ Guard(c, "auth", TRUE) /\ canAttemptLogin
    /\ IF verifyAuth(p) THEN failures' = None /\ createSession(c)
       ELSE failures' = registerFailedLogin /\ UNCHANGED session
    /\ UNCHANGED <<auth, settingUp, forwarded>>

LoginLocked(c) ==
    /\ Guard(c, "auth", TRUE) /\ ~canAttemptLogin
    /\ UNCHANGED <<failures, auth, settingUp, session, forwarded>>

\* authMiddleware, for a path that is neither open nor asked for with a manager token.
authMiddleware(c) == auth = None \/ validateSession(c)

setupAllowed_always == TRUE
setupAllowed == auth = None

\* setAuth changes the account at once and then waits for the disk.
Setup(c, p) ==
    /\ Guard(c, "auth", TRUE) /\ authMiddleware(c) /\ setupAllowed /\ settingUp[c] < MaxSetups
    /\ auth' = p /\ settingUp' = [settingUp EXCEPT ![c] = @ + 1]
    /\ UNCHANGED <<failures, session, forwarded>>

SetupSaved(c) ==
    /\ settingUp[c] > 0 /\ settingUp' = [settingUp EXCEPT ![c] = @ - 1]
    /\ createSession(c)
    /\ UNCHANGED <<gate, failures, auth, forwarded>>

\* save fails: the answer is an error, the account stays as it was set.
SetupFailed(c) ==
    /\ settingUp[c] > 0 /\ settingUp' = [settingUp EXCEPT ![c] = @ - 1]
    /\ UNCHANGED <<gate, failures, auth, session, forwarded>>

ChangePassword(c, current, new) ==
    /\ Guard(c, "auth", TRUE) /\ authMiddleware(c)
    /\ auth # None /\ auth = current /\ auth' = new
    /\ UNCHANGED <<failures, settingUp, session, forwarded>>

Logout(c) ==
    /\ Guard(c, "auth", TRUE) /\ authMiddleware(c)
    /\ session' = [session EXCEPT ![c] = 0]
    /\ UNCHANGED <<failures, auth, settingUp, forwarded>>

-----------------------------------------------------------------------------
(* Everything behind the guard that leaves the state above alone, and the  *)
(* manager proxy.                                                          *)

Browse(c) ==
    /\ \E s \in {"api", "websocket"} : Guard(c, s, TRUE)
    /\ UNCHANGED <<failures, auth, settingUp, session, forwarded>>

\* The Authorization header: none, one without a token, the token of a delegate, or
\* the manager token itself.
Bearer == {None, "empty", "delegate", "manager"}

requestHasValidGuiSession(c) == auth # None /\ validateSession(c)

\* The credential the request goes on with, None if it does not.
managerForwardHeaders(bearer, hasGuiSession) ==
    IF bearer \in {"delegate", "manager"} THEN bearer
    ELSE IF bearer = None /\ hasGuiSession THEN "manager" ELSE None

ManagerProxy(c, bearer) ==
    LET sent == managerForwardHeaders(bearer, requestHasValidGuiSession(c)) IN
    /\ Guard(c, "api", TRUE)
    /\ sent # None
    /\ forwarded' = [caller |-> bearer, session |-> requestHasValidGuiSession(c), sent |-> sent]
    /\ UNCHANGED <<failures, auth, settingUp, session>>

TimePasses ==
    /\ sec' = [c \in Browser |-> IF sec[c] = None THEN None ELSE
                  [sec[c] EXCEPT !.idle = Up(@, PruneTicks + 1), !.block = Down(@)]]
    /\ failures' = IF failures = None THEN None ELSE
                  [failures EXCEPT !.age = Up(@, loginFailureWindow + 1), !.lock = Down(@)]
    /\ session' = [c \in Browser |-> Down(session[c])]
    /\ burst' = NoBurst
    /\ UNCHANGED <<auth, settingUp, forwarded>>

GateRequest(c) ==
    \/ \E s \in Scope : GateRefuse(c, s)
    \/ \E p \in Password : Login(c, p) \/ Setup(c, p)
    \/ LoginLocked(c)
    \/ SetupSaved(c) \/ SetupFailed(c)
    \/ \E current, new \in Password : ChangePassword(c, current, new)
    \/ Logout(c)
    \/ Browse(c)
    \/ \E bearer \in Bearer : ManagerProxy(c, bearer)

GateNext == TimePasses \/ \E c \in Browser : GateRequest(c)

GateSpec == GateInit /\ [][GateNext]_gateVars

\* Time goes on; nobody has to send anything.
GateFairSpec == GateSpec /\ WF_gateVars(TimePasses)

-----------------------------------------------------------------------------

\* Each variable has its type: in particular no bucket of consumeSecurityToken is overdrawn and
\* neither a block nor a lock-out lasts longer than the code sets it.
GateTypeOK ==
    /\ sec \in [Browser -> ClientState \cup {None}] /\ failures \in LoginRecord \cup {None}
    /\ auth \in Password \cup {None} /\ settingUp \in [Browser -> 0 .. MaxSetups]
    /\ session \in [Browser -> 0 .. SessionTicks]
    /\ burst \in [Browser -> [Scope -> Nat]]
    /\ forwarded \in [caller : Bearer, session : BOOLEAN, sent : Bearer]

\* All scopes of a client draw on one bucket, and each fills it to a level of its own.
\* Whatever mixture came before, a scope lets through no more requests at once than a
\* bucket of its own capacity would (getRateLimitPolicy, consumeSecurityToken).
BurstBounded == \A c \in Browser, s \in Scope : burst[c][s] * Unit <= Capacity[s]

\* The violations of a client are not reset when its block ends, yet its next request
\* does not put it back: the time it was blocked counts for the refill, because a
\* refused request leaves lastRefillAt alone.
NoRelapse == \A c \in Browser : sec[c] # None => sec[c].violations <= BlockAfter

\* A failed login just after a lockout does not start another one: by then the first
\* failure has left the window, so counting starts again (registerFailedLogin).
FreshAfterLockout == failures # None => failures.count <= Threshold

\* Once there is an account only someone who knows its password replaces it: of two
\* browsers that both saw the setup page, the second is refused although the first is
\* still being saved (setAuth assigns before it awaits the disk).
SetupWinsOnce ==
    [][auth # None /\ auth' # auth =>
         \E c \in Browser, new \in Password : ChangePassword(c, auth, new)]_gateVars

\* "Preserve the caller's credential so a delegated token never becomes an admin token"
\* (managerProxy.ts): the manager token goes out only for a caller that presented it, or
\* that presented no header at all and has a session of the GUI.
NeverElevated ==
    forwarded.sent = "manager" =>
        \/ forwarded.caller = "manager"
        \/ forwarded.caller = None /\ forwarded.session

\* The gate of the GUI is sound: the types, bursts within the capacity, no block or lockout
\* renewed by what came before it, and no caller's credential exchanged for a stronger one.
GateSound == GateTypeOK /\ BurstBounded /\ NoRelapse /\ FreshAfterLockout /\ NeverElevated
=============================================================================
