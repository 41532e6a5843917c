----------------------------- MODULE DeviceFlow -----------------------------
(***************************************************************************)
(* How one browser tab signs in to the dashboard: GitHubDeviceFlow         *)
(* (dashboard/oauth.py) and the login page (dashboard/auth_ui.py).         *)
(*                                                                         *)
(* A page is a script that Streamlit runs from the top whenever the user   *)
(* does something.  What survives a run is the session: the device code    *)
(* and the token.  While a code is in the session, each run polls GitHub   *)
(* once, sleeps and starts the next run; a user who does something first   *)
(* starts it early, and the run in progress is given up at its next        *)
(* Streamlit call.  Times are counted down in ticks.                       *)
(***************************************************************************)
EXTENDS Naturals

CONSTANTS
    Interval,   \* "interval" of a fresh code
    SlowDown,   \* what slow_down adds to it, in poll_once and at GitHub
    MinPause,   \* the 2 of time.sleep(max(2, ...))
    Lifetime,   \* "expires_in" of a code
    MaxFaults,  \* bound: how often the environment interferes
    None

\* What GitHub may answer to a poll, and a token that was pasted.
Errors  == {"expired_token", "access_denied", "unexpected", "http"}
Answers == {"token", "pasted", "authorization_pending", "slow_down"} \cup Errors
Replies == Answers \cup {None}

\* What a session keeps of a code.
DeviceCodeBundle == [interval : Nat, left : Nat]

ASSUME FlowAssumptions ==
    /\ Interval \in Nat /\ SlowDown \in Nat \ {0}
    /\ MinPause \in Nat \ {0} /\ Lifetime \in Nat \ {0} /\ MaxFaults \in Nat
    /\ None \notin Answers /\ None \notin DeviceCodeBundle

VARIABLES
    configured, \* DEEPAGENT_OAUTH_CLIENT_ID is set
    pc,         \* where the script is, or the page it has left
    pause,      \* what is left of its sleep
    reply,      \* what GitHub has answered, or the token in hand
    bundle,     \* SESSION_DEVICE_KEY: the code's interval and the ticks until expired()
    mode,       \* how the session is signed in: not, by the backend, standalone
    grant,      \* GitHub: the state of the code, its interval, the ticks
                \* until the next poll is welcome and until it expires
    nudged,     \* history: since the last poll the user has started a run
    missed,     \* history: slow_down answers the session has not seen
    bereft,     \* history: a fault or the user cost this sign-in a code or a token
    faults      \* interferences left

vars == <<configured, pc, pause, reply, bundle, mode, grant, nudged, missed, bereft, faults>>
session == <<configured, bundle, mode>>
history == <<nudged, missed, bereft>>

\* Pages at rest, and what the script is doing otherwise.
Pages   == {"form", "retry", "rejected", "error", "app"}
Calls   == {"request", "issued", "poll", "answered", "validate", "fallback"}
NoCode  == [state |-> "none", interval |-> 0, wait |-> 0, left |-> 0]

FlowTypeOK ==
    /\ configured \in BOOLEAN
    /\ pc \in Pages \cup Calls \cup {"top", "sleep", "saved"}
    /\ pause \in Nat
    /\ reply \in Replies
    /\ bundle \in DeviceCodeBundle \cup {None}
    /\ mode \in {"no", "backend", "standalone"}
    /\ grant \in [state : {"none", "pending", "approved", "denied", "used"},
                  interval : Nat, wait : Nat, left : Nat]
    /\ nudged \in BOOLEAN /\ missed \in Nat /\ bereft \in BOOLEAN
    /\ faults \in 0..MaxFaults

Init ==
    /\ configured \in BOOLEAN
    /\ pc = "top" /\ pause = 0 /\ reply = None
    /\ bundle = None /\ mode = "no"
    /\ grant = NoCode
    /\ nudged = FALSE /\ missed = 0 /\ bereft = FALSE
    /\ faults = MaxFaults

\* Something the environment does at most MaxFaults times.
Fault == faults > 0 /\ faults' = faults - 1

-----------------------------------------------------------------------------
\* The script

\* Mutant: a code is given up before it has expired.
ExpiredEarly(b) == b.left <= SlowDown

\* DeviceCodeBundle.expired.
Expired(b) == b.left = 0

\* Who is signed in sees the page.
require_login ==
    /\ pc = "top" /\ mode # "no"
    /\ pc' = "app"
    /\ UNCHANGED <<session, pause, reply, grant, history, faults>>

\* _render_login up to the first call: a code that is still good is polled, one
\* that is not is dropped.  Without a client id the page ends before the tab
\* where a token is pasted.
Render ==
    /\ pc = "top" /\ mode = "no"
    /\ LET good == bundle # None /\ ~Expired(bundle) IN
       /\ pc' = IF ~configured THEN "error" ELSE IF good THEN "poll" ELSE "form"
       /\ bundle' = IF configured /\ ~good THEN None ELSE bundle
    /\ UNCHANGED <<configured, pause, reply, mode, grant, history, faults>>

\* GitHub issues a code.  An earlier one is of no use to anybody.
request_code ==
    /\ pc = "request"
    /\ grant' = [state |-> "pending", interval |-> Interval, wait |-> 0, left |-> Lifetime]
    /\ bereft' = FALSE /\ missed' = 0
    /\ pc' = "issued"
    /\ UNCHANGED <<session, pause, reply, nudged, faults>>

\* The code is in the session; its time counts from now.
CodeArrives ==
    /\ pc = "issued"
    /\ bundle' = [interval |-> Interval, left |-> Lifetime]
    /\ pc' = "top"
    /\ UNCHANGED <<configured, pause, reply, mode, grant, history, faults>>

\* request_code raises DeviceFlowError; the page is drawn to its end.
RequestRefused ==
    /\ pc = "request" /\ Fault
    /\ pc' = "form"
    /\ UNCHANGED <<session, pause, reply, grant, history>>

\* GitHub's answer to a poll.  Whoever polls too soon is told so, unless the
\* token is ready: then either may happen.
Answer(r) ==
    \/ r = "unexpected"            /\ grant.state = "used"
    \/ r = "expired_token"         /\ grant.state \in {"pending", "approved"} /\ grant.left = 0
    \/ r = "access_denied"         /\ grant.state = "denied"
    \/ r = "slow_down"             /\ grant.state \in {"pending", "approved"}
                                   /\ grant.left > 0 /\ grant.wait > 0
    \/ r = "authorization_pending" /\ grant.state = "pending" /\ grant.left > 0 /\ grant.wait = 0
    \/ r = "token"                 /\ grant.state = "approved" /\ grant.left > 0

\* poll_once up to the answer.
Poll(r) ==
    /\ pc = "poll" /\ Answer(r)
    /\ reply' = r
    /\ grant' = LET pace == IF r = "slow_down" THEN grant.interval + SlowDown ELSE grant.interval
                IN  [grant EXCEPT !.state = IF r = "token" THEN "used" ELSE @,
                                  !.interval = pace, !.wait = pace]
    /\ nudged' = FALSE
    /\ pc' = "answered"
    /\ UNCHANGED <<session, pause, missed, bereft, faults>>

\* Mutant: slow_down is taken for authorization_pending.
SlowedNot(b) == b

\* bundle.interval += 5.
Slowed(b) == [b EXCEPT !.interval = @ + SlowDown]

\* Mutant: the page always waits the two seconds.
ShortPause(b) == MinPause

\* max(2, bundle.interval).
Pause(b) == IF b.interval > MinPause THEN b.interval ELSE MinPause

\* Not yet: sleep, then the next run.
KeepWaiting ==
    /\ pc = "answered" /\ reply \in {"authorization_pending", "slow_down"}
    /\ bundle' = IF reply = "slow_down" THEN Slowed(bundle) ELSE bundle
    /\ pause' = Pause(bundle')
    /\ reply' = None
    /\ pc' = "sleep"
    /\ UNCHANGED <<configured, mode, grant, history, faults>>

\* st.rerun after the sleep.
Wake ==
    /\ pc = "sleep" /\ pause = 0
    /\ pc' = "top"
    /\ UNCHANGED <<session, pause, reply, grant, history, faults>>

\* DeviceFlowError: the code is dropped, whatever the error.
GiveUp ==
    /\ pc = "answered" /\ reply \in Errors
    /\ bundle' = None
    /\ bereft' = (bereft \/ reply = "http")
    /\ reply' = None
    /\ pc' = "retry"
    /\ UNCHANGED <<configured, pause, mode, grant, nudged, missed, faults>>

HaveToken ==
    /\ pc = "answered" /\ reply = "token"
    /\ pc' = "validate"
    /\ UNCHANGED <<session, pause, reply, grant, history, faults>>

\* Mutant: the code is dropped and the token never written to the session.
SignedInUnsaved(m) ==
    /\ bundle' = IF reply = "token" THEN None ELSE bundle
    /\ reply' = None
    /\ pc' = "top"
    /\ UNCHANGED <<configured, mode, pause, grant, history, faults>>

\* _persist_user writes the token, then the user, which makes the session a
\* signed in one: a run that takes over before is one that found the token in
\* hand.
SignedIn(m) ==
    /\ mode' = m
    /\ pc' = IF reply = "token" THEN "saved" ELSE "top"
    /\ reply' = None
    /\ UNCHANGED <<configured, bundle, pause, grant, history, faults>>

\* A code that gave the token has done its work.
ForgetCode ==
    /\ pc = "saved"
    /\ bundle' = None
    /\ pc' = "top"
    /\ UNCHANGED <<configured, mode, pause, reply, grant, history, faults>>

\* _persist_user returns None: the token is gone, the code is still there, and
\* the rest of the page is drawn.
Rejected ==
    /\ Fault
    /\ pc' = IF reply = "token" THEN "rejected" ELSE "form"
    /\ bereft' = (bereft \/ reply = "token")
    /\ reply' = None
    /\ UNCHANGED <<session, pause, grant, nudged, missed>>

\* _validate_against_backend: GET /me.
BackendAccepts     == pc = "validate" /\ SignedIn("backend")
BackendRejects     == pc = "validate" /\ Rejected
BackendUnreachable ==
    /\ pc = "validate" /\ Fault
    /\ pc' = "fallback"
    /\ UNCHANGED <<session, pause, reply, grant, history>>

\* _validate_against_github; an answer that is not 200 and none are the same.
GitHubAccepts == pc = "fallback" /\ SignedIn("standalone")
GitHubRejects == pc = "fallback" /\ Rejected

-----------------------------------------------------------------------------
\* The user

ClickSignIn ==
    /\ pc = "form"
    /\ pc' = "request"
    /\ UNCHANGED <<session, pause, reply, grant, history, faults>>

\* The form where a token is pasted works in a run that has no code to poll.
PasteToken ==
    /\ pc = "form"
    /\ reply' = "pasted"
    /\ pc' = "validate"
    /\ UNCHANGED <<session, pause, grant, history, faults>>

\* Whatever the user does on these pages starts a run.
Interact ==
    /\ pc \in {"retry", "rejected", "error"}
    /\ pc' = "top"
    /\ nudged' = TRUE
    /\ UNCHANGED <<session, pause, reply, grant, missed, bereft, faults>>

logout ==
    /\ pc = "app"
    /\ mode' = "no" /\ bundle' = None
    /\ pc' = "top"
    /\ UNCHANGED <<configured, pause, reply, grant, history, faults>>

\* At github.com/login/device.
Decide(verdict) ==
    /\ bundle # None
    /\ grant.state = "pending" /\ grant.left > 0
    /\ grant' = [grant EXCEPT !.state = verdict]
    /\ UNCHANGED <<session, pc, pause, reply, history, faults>>

-----------------------------------------------------------------------------
\* What goes wrong

\* What an answer costs that nobody reads.
Unread ==
    /\ missed' = IF reply = "slow_down" THEN missed + 1 ELSE missed
    /\ bereft' = (bereft \/ pc = "issued" \/ reply = "token")

\* httpx raises: before the call has arrived or instead of its answer.  Nobody
\* catches it; the page shows the exception.
CallFails ==
    /\ pc \in {"request", "issued", "poll", "answered"} /\ Fault
    /\ Unread
    /\ reply' = None
    /\ pc' = "error"
    /\ UNCHANGED <<session, pause, grant, nudged>>

\* An answer to a poll that is not 200.
PollFails ==
    /\ pc = "poll" /\ Fault
    /\ reply' = "http"
    /\ pc' = "answered"
    /\ UNCHANGED <<session, pause, grant, history>>

\* The user goes to another page or edits the sidebar: a new run takes over.
\* The old one ends at its next Streamlit call, which is after poll_once.
Interrupt ==
    /\ pc \in {"issued", "answered", "validate", "fallback", "saved", "sleep"} /\ Fault
    /\ bundle' = IF reply = "slow_down" THEN Slowed(bundle) ELSE bundle
    /\ bereft' = (bereft \/ pc = "issued" \/ reply = "token")
    /\ reply' = None /\ pause' = 0
    /\ nudged' = TRUE
    /\ pc' = "top"
    /\ UNCHANGED <<configured, mode, grant, missed>>

Less(n) == IF n > 0 THEN n - 1 ELSE 0

\* Time passes while the script sleeps or the page is at rest.  A call that
\* takes a tick is a fault.
Tick ==
    /\ \/ pc \in Pages /\ UNCHANGED faults
       \/ pc = "sleep" /\ pause > 0 /\ UNCHANGED faults
       \/ pc \in Calls /\ Fault
    /\ pause' = Less(pause)
    /\ grant' = [grant EXCEPT !.wait = Less(@), !.left = Less(@)]
    /\ bundle' = IF bundle = None THEN None ELSE [bundle EXCEPT !.left = Less(@)]
    /\ UNCHANGED <<configured, pc, reply, mode, history>>

-----------------------------------------------------------------------------
Script ==
    \/ require_login \/ Render \/ request_code \/ CodeArrives
    \/ KeepWaiting \/ Wake \/ GiveUp \/ HaveToken
    \/ \E r \in Replies : Poll(r)
    \/ BackendAccepts \/ GitHubAccepts \/ ForgetCode

User == ClickSignIn \/ PasteToken \/ Interact \/ logout \/ \E v \in {"approved", "denied"} : Decide(v)

Faulty ==
    \/ RequestRefused \/ BackendRejects \/ BackendUnreachable \/ GitHubRejects
    \/ CallFails \/ PollFails \/ Interrupt

Next == Script \/ User \/ Faulty \/ Tick

Spec == Init /\ [][Next]_vars

\* The server runs the script on, and time passes.
FairSpec == Spec /\ WF_vars(Script) /\ WF_vars(Tick)

-----------------------------------------------------------------------------
\* Properties

\* "bump the interval and retry later" (oauth.py:123): the session and GitHub
\* agree on the pace of a code up to the slow_down answers that were lost.
PaceAgreed ==
    bundle # None /\ reply # "slow_down"
        => bundle.interval + SlowDown * missed = grant.interval

\* GitHub only has to slow the session down if the user started a run before
\* its time or a slow_down was lost: left alone, the page keeps the pace.
PaceKept == [][reply' = "slow_down" /\ reply # "slow_down" => nudged \/ missed > 0]_vars

\* The session and GitHub agree about the code, but for what was lost between
\* them.  One that has given its token does not stay in a session that is not
\* signed in, where it would be polled again; and as long as GitHub takes a code
\* the session keeps it: the two clocks of its expiry differ in the safe
\* direction.
CodeAgreed ==
    /\ bundle # None /\ grant.state = "used" => reply = "token" \/ mode # "no" \/ bereft
    /\ grant.state \in {"pending", "approved"} /\ grant.left > 0 /\ bundle = None
           => pc = "issued" \/ bereft

\* "Come back here - sign-in completes automatically" (auth_ui.py:236): when the
\* user has approved the code before the page's last poll of it and nothing
\* interferes any more, the session is signed in.
ApprovalCompletes ==
    (/\ faults = 0 /\ missed = 0
     /\ pc = "sleep" /\ grant.state = "approved" /\ pause < grant.left)
        ~> mode # "no"
=============================================================================
