-------------------------------- MODULE Access --------------------------------
(***************************************************************************)
(* Who may act on the daemon: sessions and tokens (src/src/identity.ts),   *)
(* the routes and the guard in front of the others (auth.ts), and the      *)
(* delayed writes of touchLater (state.ts).  Each route is synchronous but *)
(* for the arrival of its body, which comes between the guard and the      *)
(* handler.  The daemon can be stopped, killed and booted; `instad         *)
(* --reset-admin` runs in between.                                         *)
(***************************************************************************)
EXTENDS Integers, Sequences, FiniteSets

CONSTANTS
    Session,       \* sessions that can be minted, each once
    Token,         \* insta_ keys that can be minted, each once
    Request,       \* requests in flight at the same time
    Lifetime,      \* the ttl of a session: remembered or for one day
    UpdateAge,     \* sessionUpdateAgeSec
    FlushEvery,    \* TOUCH_FLUSH_MS
    LastInstant,   \* bound: the clock
    Nobody

ASSUME AccessAssumption ==
    /\ Lifetime \subseteq Nat \ {0}
    /\ {UpdateAge, FlushEvery} \subseteq Nat \ {0}
    /\ LastInstant \in Nat
    /\ Nobody \notin Nat

VARIABLES
    instant,    \* the clock
    serving,    \* the daemon is up
    admin,      \* identity.admin.id, a number per random id drawn
    previous,   \* identity.previousAdminId
    sessions,   \* identity.sessions: by id, whose, updatedAt and expiresAt
    tokens,     \* identity.tokens: by id, expiresAt (0: never) and revokedAt as a flag
    touched,    \* touchBuffer, per session: nothing, the slide, or the removal
    flushBy,    \* when the flush timer has fired since the oldest touch
    letIn,      \* requests the guard let in, whose body has yet to arrive
    minted,     \* history: sessions and tokens ever minted
    ended,      \* history: sessions signed out or reset, tokens revoked
    promised,   \* history: until when a session was extended
    drawn       \* history: admin ids drawn

identity == <<admin, previous, sessions, tokens>>
touches == <<touched, flushBy>>
ledger == <<minted, ended, promised, drawn>>
accessVars == <<instant, serving, identity, touches, letIn, ledger>>

Removal == [user |-> 0, upd |-> 0, exp |-> 0]

AccessInit ==
    /\ instant = 0 /\ serving = TRUE
    /\ admin = Nobody /\ previous = Nobody
    /\ sessions = << >> /\ tokens = << >>
    /\ touched = << >> /\ flushBy = 0
    /\ letIn = {}
    /\ minted = {} /\ ended = {} /\ promised = [s \in Session |-> 0]
    /\ drawn = 0

-------------------------------------------------------------------------------
\* A function without some of its arguments, and with one more.
Without(f, gone) == [x \in DOMAIN f \ gone |-> f[x]]
With(f, x, v) == [y \in DOMAIN f \cup {x} |-> IF y = x THEN v ELSE f[y]]

Expired(s) == sessions[s].exp <= instant

\* touchLater: the first touch starts the wait for the flush; a removal stays one, and the
\* later of two slides wins.
Later(s, what) ==
    /\ touched' = IF s \in DOMAIN touched /\ touched[s] = Removal THEN touched
                  ELSE With(touched, s, what)
    /\ flushBy' = IF touched = << >> THEN instant + FlushEvery ELSE flushBy

\* A mutant of Slid: the lifetime is what is left of it.
SlidFromNow(s) ==
    [sessions[s] EXCEPT !.upd = instant, !.exp = instant + (sessions[s].exp - instant)]

\* The slide of a session: its original lifetime, from now on.
Slid(s) ==
    [sessions[s] EXCEPT !.upd = instant,
                        !.exp = instant + (sessions[s].exp - sessions[s].upd)]

\* findSession on the document of this moment: an expired row is removed later, one that
\* is old enough is slid later.
Unknown(s) ==
    \/ s \notin DOMAIN sessions /\ UNCHANGED <<touches, promised>>
    \/ s \in DOMAIN sessions /\ Expired(s) /\ Later(s, Removal) /\ UNCHANGED promised

Accept(s) ==
    /\ s \in DOMAIN sessions /\ ~Expired(s)
    /\ \/ /\ instant - sessions[s].upd >= UpdateAge
          /\ Later(s, Slid(s))
          /\ promised' = IF sessions[s].exp > instant + FlushEvery
                         THEN [promised EXCEPT ![s] = instant + sessions[s].exp - sessions[s].upd]
                         ELSE promised
       \/ /\ instant - sessions[s].upd < UpdateAge
          /\ UNCHANGED <<touches, promised>>

\* resolveActor: the session must be the admin's.
Admitted(s) == admin # Nobody /\ Accept(s) /\ sessions[s].user = admin
Rejected(s) ==
    \/ admin = Nobody /\ UNCHANGED <<touches, promised>>
    \/ admin # Nobody /\ Unknown(s)
    \/ admin # Nobody /\ Accept(s) /\ sessions[s].user # admin

\* mintSession: expired rows are collected on every mint.
Mint(s, user) ==
    /\ s \notin minted
    /\ \E ttl \in Lifetime :
          /\ sessions' = With(Without(sessions, {x \in DOMAIN sessions : Expired(x)}), s,
                              [user |-> user, upd |-> instant, exp |-> instant + ttl])
          /\ promised' = [promised EXCEPT ![s] = instant + ttl]
    /\ minted' = minted \cup {s}

-------------------------------------------------------------------------------
\* A mutant of NewAdmin: the id of a removed admin is forgotten.
NewAdminDrawn == drawn + 1

\* createAdmin reuses the id of the admin that was reset.
NewAdmin == IF previous = Nobody THEN drawn + 1 ELSE previous

SignUp(s) ==
    /\ serving /\ admin = Nobody
    /\ admin' = NewAdmin
    /\ drawn' = IF NewAdmin = drawn + 1 THEN drawn + 1 ELSE drawn
    /\ Mint(s, NewAdmin)
    /\ UNCHANGED <<instant, serving, previous, tokens, touches, letIn, ended>>

\* sign-in with the right password.
SignIn(s) ==
    /\ serving /\ admin # Nobody
    /\ Mint(s, admin)
    /\ UNCHANGED <<instant, serving, admin, previous, tokens, touches, letIn,
                   ended, drawn>>

\* A request waits for its body.
Enter == \E r \in Request \ letIn : letIn' = letIn \cup {r}

\* The guard; get-session and refresh answer at once and let nothing in.
Present(s) ==
    /\ serving /\ s \in minted
    /\ \/ Admitted(s) /\ Enter
       \/ (Admitted(s) \/ Rejected(s)) /\ UNCHANGED letIn
    /\ UNCHANGED <<instant, serving, identity, minted, ended, drawn>>

\* sign-out resolves the actor like the guard does, logout does not.
SignOut(s) ==
    /\ serving /\ s \in minted
    /\ \/ Admitted(s) /\ sessions' = Without(sessions, {s}) /\ ended' = ended \cup {s}
       \/ Rejected(s) /\ UNCHANGED <<sessions, ended>>
    /\ UNCHANGED <<instant, serving, admin, previous, tokens, letIn, minted, drawn>>

Logout(s) ==
    /\ serving /\ s \in DOMAIN sessions
    /\ sessions' = Without(sessions, {s}) /\ ended' = ended \cup {s}
    /\ UNCHANGED <<instant, serving, admin, previous, tokens, touches, letIn,
                   minted, promised, drawn>>

\* verifyToken; its lastUsedAt is an audit field nothing reads.
Works(t) ==
    /\ admin # Nobody /\ t \in DOMAIN tokens
    /\ ~tokens[t].revoked /\ (tokens[t].exp = 0 \/ tokens[t].exp > instant)

PresentToken(t) ==
    /\ serving /\ Works(t)
    /\ Enter
    /\ UNCHANGED <<instant, serving, identity, touches, ledger>>

-------------------------------------------------------------------------------
\* The handlers of requests the guard let in.
Answer(r) == r \in letIn /\ letIn' = letIn \ {r}

MintToken(r, t) ==
    /\ serving /\ Answer(r) /\ t \notin minted
    /\ \E exp \in {0, instant + 1} : tokens' = With(tokens, t, [exp |-> exp, revoked |-> FALSE])
    /\ minted' = minted \cup {t}
    /\ UNCHANGED <<instant, serving, admin, previous, sessions, touches, ended,
                   promised, drawn>>

RevokeToken(r, t) ==
    /\ serving /\ Answer(r) /\ t \in DOMAIN tokens /\ ~tokens[t].revoked
    /\ tokens' = [tokens EXCEPT ![t].revoked = TRUE]
    /\ ended' = ended \cup {t}
    /\ UNCHANGED <<instant, serving, admin, previous, sessions, touches, minted,
                   promised, drawn>>

-------------------------------------------------------------------------------
\* A mutant of Flushed: a slide writes the row it captured.
FlushedByReference ==
    [s \in (DOMAIN sessions \cup DOMAIN touched) \ {x \in DOMAIN touched : touched[x] = Removal} |->
        IF s \in DOMAIN touched THEN touched[s] ELSE sessions[s]]

\* The queued touches look their rows up by id.
Flushed ==
    [s \in DOMAIN sessions \ {x \in DOMAIN touched : touched[x] = Removal} |->
        IF s \in DOMAIN touched THEN [sessions[s] EXCEPT !.upd = touched[s].upd,
                                                         !.exp = touched[s].exp]
        ELSE sessions[s]]

Flush ==
    /\ serving /\ touched # << >>
    /\ sessions' = Flushed
    /\ touched' = << >> /\ UNCHANGED flushBy
    /\ UNCHANGED <<instant, serving, admin, previous, tokens, letIn, ledger>>

\* shutdown flushes in releaseLock; requests in flight are dropped.
Stop ==
    /\ serving
    /\ serving' = FALSE
    /\ sessions' = Flushed /\ touched' = << >>
    /\ letIn' = {}
    /\ UNCHANGED <<instant, admin, previous, tokens, flushBy, ledger>>

\* SIGKILL: what was touched since the last flush is lost, and so is its promise.
Crash ==
    /\ serving
    /\ serving' = FALSE
    /\ touched' = << >>
    /\ letIn' = {}
    /\ promised' = [s \in Session |-> IF s \in DOMAIN touched /\ s \in DOMAIN sessions
                                      THEN sessions[s].exp ELSE promised[s]]
    /\ UNCHANGED <<instant, identity, flushBy, minted, ended, drawn>>

Start ==
    /\ ~serving
    /\ serving' = TRUE
    /\ UNCHANGED <<instant, identity, touches, letIn, ledger>>

\* resetAdmin holds the lock of the data directory: no daemon is up.
ResetAdmin ==
    /\ ~serving /\ admin # Nobody
    /\ previous' = admin /\ admin' = Nobody
    /\ sessions' = << >>
    /\ ended' = ended \cup DOMAIN sessions
    /\ UNCHANGED <<instant, serving, tokens, touches, letIn, minted, promised, drawn>>

Pass ==
    /\ instant < LastInstant
    /\ touched # << >> => instant < flushBy
    /\ instant' = instant + 1
    /\ UNCHANGED <<serving, identity, touches, letIn, ledger>>

AccessNext ==
    \/ \E s \in Session : SignUp(s) \/ SignIn(s) \/ Present(s) \/ SignOut(s) \/ Logout(s)
    \/ \E t \in Token : PresentToken(t)
    \/ \E r \in Request, t \in Token : MintToken(r, t) \/ RevokeToken(r, t)
    \/ Flush \/ Stop \/ Crash \/ Start \/ ResetAdmin \/ Pass

AccessSpec == AccessInit /\ [][AccessNext]_accessVars

-------------------------------------------------------------------------------
AccessTypeOK ==
    LET Row == [user : 1..drawn, upd : 0..instant, exp : Nat] IN
    /\ instant \in 0..LastInstant /\ serving \in BOOLEAN
    /\ {admin, previous} \subseteq 1..drawn \cup {Nobody}
    /\ DOMAIN sessions \subseteq Session /\ \A s \in DOMAIN sessions : sessions[s] \in Row
    /\ DOMAIN tokens \subseteq Token
    /\ \A t \in DOMAIN tokens : tokens[t] \in [exp : Nat, revoked : BOOLEAN]
    /\ DOMAIN touched \subseteq Session /\ \A s \in DOMAIN touched : touched[s] \in Row \cup {Removal}
    /\ letIn \subseteq Request

\* What was signed out, reset or revoked never comes back, though the touches of its last
\* uses are written after it went; and the box keeps one user through every --reset-admin.
EndedStaysOut ==
    /\ DOMAIN sessions \cap ended = {}
    /\ \A t \in DOMAIN tokens \cap ended : tokens[t].revoked
    /\ \A s \in DOMAIN sessions : sessions[s].user = admin
    /\ admin \in {1, Nobody}

\* A session that was used stays valid for its whole lifetime from the slide on, though the
\* slide is written up to a flush later: unless it ended, the daemon was killed before the
\* flush, or it was slid in the last FlushEvery before its expiry.
PromiseKept ==
    \A s \in Session \ ended : instant < promised[s] => s \in DOMAIN sessions /\ ~Expired(s)

\* A session is let in as long as it was promised, and no longer than it was ended.
SessionsKept == EndedStaysOut /\ PromiseKept

===============================================================================
