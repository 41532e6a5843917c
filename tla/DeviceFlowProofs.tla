-------------------------- MODULE DeviceFlowProofs --------------------------
(***************************************************************************)
(* Theorems about DeviceFlow, for any intervals, lifetimes and numbers of  *)
(* interferences.                                                          *)
(***************************************************************************)
EXTENDS DeviceFlow, TLAPS

\* Where the script is tells what it has in hand.
Places ==
    /\ pc \in {"form", "retry", "request", "issued"} => bundle = None
    /\ pc \in {"poll", "answered", "sleep"} => bundle # None
    /\ mode # "no" => pc \in {"top", "saved", "app"}
    /\ pc \in {"saved", "app"} => mode # "no"
    /\ pc \notin {"answered", "validate", "fallback"} => reply = None
    /\ pc = "answered" => reply \in Answers \ {"pasted"}
    /\ pc \in {"validate", "fallback"} => reply \in {"token", "pasted"}
    /\ reply = "pasted" => bundle = None

\* A code nobody has seen yet.
Fresh ==
    pc = "issued" =>
        /\ grant.state = "pending" /\ grant.interval = Interval
        /\ grant.wait = 0 /\ grant.left <= Lifetime
        /\ missed = 0

\* An answer is still true when it is read.
Truthful ==
    /\ reply \in {"token", "unexpected"} => grant.state = "used"
    /\ pc = "saved" \/ (mode # "no" /\ bundle # None) => grant.state = "used"
    /\ reply = "access_denied" => grant.state = "denied"
    /\ reply = "expired_token" => grant.left = 0

\* GitHub's code does not outlive the session's.
Clocks ==
    /\ bundle # None => grant.left <= bundle.left
    /\ grant.wait <= grant.interval

\* PaceAgreed, with the slow_down that is being read.
Pace ==
    bundle # None =>
        bundle.interval + SlowDown * missed
            + (IF reply = "slow_down" THEN SlowDown ELSE 0) = grant.interval

\* An undisturbed page does not poll before its time.
InTime ==
    ~nudged /\ missed = 0 =>
        /\ pc = "sleep" => grant.wait <= pause
        /\ pc \in {"top", "poll"} /\ bundle # None => grant.wait = 0

\* The inductive invariant.
FlowInv ==
    /\ FlowTypeOK /\ Places /\ Fresh /\ Truthful /\ Clocks /\ Pace /\ InTime
    /\ CodeAgreed

\* Every value stays in its type.  Places tells what the script has in hand
\* where it uses it.
LEMMA TypeStep ==
  ASSUME FlowTypeOK, Places, [Next]_vars
  PROVE  FlowTypeOK'
<1> USE FlowAssumptions DEF FlowTypeOK, Replies, Answers, Errors,
         DeviceCodeBundle, session, history, Places, Pages, Calls
<1>1. CASE require_login
  BY <1>1 DEF require_login
<1>2. CASE Render
  BY <1>2 DEF Render, Expired
<1>3. CASE request_code
  BY <1>3 DEF request_code
<1>4. CASE CodeArrives
  BY <1>4 DEF CodeArrives
<1>5. CASE KeepWaiting
  BY <1>5 DEF KeepWaiting, Slowed, Pause
<1>6. CASE Wake
  BY <1>6 DEF Wake
<1>7. CASE GiveUp
  BY <1>7 DEF GiveUp
<1>8. CASE HaveToken
  BY <1>8 DEF HaveToken
<1>9. CASE \E r \in Replies : Poll(r)
  <2>1. PICK r \in Replies : Poll(r)
    BY <1>9
  <2>2. CASE r = "slow_down"
    <3>1. grant' = [grant EXCEPT !.interval = grant.interval + SlowDown,
                                 !.wait = grant.interval + SlowDown]
      BY <2>1, <2>2 DEF Poll
    <3>2. grant.interval + SlowDown \in Nat
      OBVIOUS
    <3>3. grant' \in [state : {"none", "pending", "approved", "denied", "used"},
                      interval : Nat, wait : Nat, left : Nat]
      BY <3>1, <3>2
    <3>. QED  BY <2>1, <2>2, <3>3 DEF Poll
  <2>3. CASE r # "slow_down"
    <3>1. \/ grant' = [grant EXCEPT !.wait = grant.interval]
          \/ grant' = [grant EXCEPT !.state = "used", !.wait = grant.interval]
      BY <2>1, <2>3 DEF Poll
    <3>. QED  BY <2>1, <3>1, ZenonT(60) DEF Poll
  <2>. QED  BY <2>2, <2>3
<1>10. CASE BackendAccepts
  BY <1>10 DEF BackendAccepts, SignedIn
<1>11. CASE GitHubAccepts
  BY <1>11 DEF GitHubAccepts, SignedIn
<1>12. CASE ClickSignIn
  BY <1>12 DEF ClickSignIn
<1>13. CASE PasteToken
  BY <1>13 DEF PasteToken
<1>14. CASE Interact
  BY <1>14 DEF Interact
<1>15. CASE logout
  BY <1>15 DEF logout
<1>16. CASE \E v \in {"approved", "denied"} : Decide(v)
  BY <1>16 DEF Decide
<1>17. CASE RequestRefused
  BY <1>17 DEF RequestRefused, Fault
<1>18. CASE BackendRejects
  BY <1>18 DEF BackendRejects, Rejected, Fault
<1>19. CASE BackendUnreachable
  BY <1>19 DEF BackendUnreachable, Fault
<1>20. CASE GitHubRejects
  BY <1>20 DEF GitHubRejects, Rejected, Fault
<1>21. CASE CallFails
  BY <1>21 DEF CallFails, Unread, Fault
<1>22. CASE PollFails
  BY <1>22 DEF PollFails, Fault
<1>23. CASE Interrupt
  BY <1>23 DEF Interrupt, Slowed, Fault
<1>24. CASE Tick
  <2>1. /\ pause' = Less(pause)
        /\ grant' = [grant EXCEPT !.wait = Less(@), !.left = Less(@)]
        /\ bundle' = IF bundle = None THEN None ELSE [bundle EXCEPT !.left = Less(@)]
        /\ UNCHANGED <<configured, pc, reply, mode, history>>
    BY <1>24 DEF Tick
  <2>2. faults' \in 0..MaxFaults
    BY <1>24 DEF Tick, Fault
  <2>3. \A n \in Nat : Less(n) \in Nat
    BY DEF Less
  <2>4. grant' \in [state : {"none", "pending", "approved", "denied", "used"},
                    interval : Nat, wait : Nat, left : Nat]
    BY <2>1, <2>3
  <2>5. bundle' \in DeviceCodeBundle \cup {None}
    BY <2>1, <2>3
  <2>. QED  BY <2>1, <2>2, <2>3, <2>4, <2>5
<1>25. CASE ForgetCode
  BY <1>25 DEF ForgetCode
<1>26. CASE UNCHANGED vars
  BY <1>26 DEF vars
<1>. QED
  BY <1>1, <1>2, <1>3, <1>4, <1>5, <1>6, <1>7, <1>8, <1>9, <1>10, <1>11,
     <1>12, <1>13, <1>14, <1>15, <1>16, <1>17, <1>18, <1>19, <1>20, <1>21,
     <1>22, <1>23, <1>24, <1>25, <1>26
  DEF Next, Script, User, Faulty

\* Where the script is goes on telling what it has in hand.
LEMMA PlacesStep ==
  ASSUME FlowTypeOK, Places, [Next]_vars
  PROVE  Places'
<1> USE FlowAssumptions DEF FlowTypeOK, Replies, Answers, Errors,
         DeviceCodeBundle, session, history, Places
<1>1. CASE require_login
  BY <1>1 DEF require_login
<1>2. CASE Render
  BY <1>2 DEF Render, Expired
<1>3. CASE request_code
  BY <1>3 DEF request_code
<1>4. CASE CodeArrives
  BY <1>4 DEF CodeArrives
<1>5. CASE KeepWaiting
  BY <1>5 DEF KeepWaiting, Slowed, Pause
<1>6. CASE Wake
  BY <1>6 DEF Wake
<1>7. CASE GiveUp
  BY <1>7 DEF GiveUp
<1>8. CASE HaveToken
  BY <1>8 DEF HaveToken
<1>9. CASE \E r \in Replies : Poll(r)
  BY <1>9 DEF Poll, Answer
<1>10. CASE BackendAccepts
  BY <1>10 DEF BackendAccepts, SignedIn
<1>11. CASE GitHubAccepts
  BY <1>11 DEF GitHubAccepts, SignedIn
<1>12. CASE ClickSignIn
  BY <1>12 DEF ClickSignIn
<1>13. CASE PasteToken
  BY <1>13 DEF PasteToken
<1>14. CASE Interact
  BY <1>14 DEF Interact
<1>15. CASE logout
  BY <1>15 DEF logout
<1>16. CASE \E v \in {"approved", "denied"} : Decide(v)
  BY <1>16 DEF Decide
<1>17. CASE RequestRefused
  BY <1>17 DEF RequestRefused, Fault
<1>18. CASE BackendRejects
  BY <1>18 DEF BackendRejects, Rejected, Fault
<1>19. CASE BackendUnreachable
  BY <1>19 DEF BackendUnreachable, Fault
<1>20. CASE GitHubRejects
  BY <1>20 DEF GitHubRejects, Rejected, Fault
<1>21. CASE CallFails
  BY <1>21 DEF CallFails, Unread, Fault
<1>22. CASE PollFails
  BY <1>22 DEF PollFails, Fault
<1>23. CASE Interrupt
  BY <1>23 DEF Interrupt, Slowed, Fault
<1>24. CASE Tick
  BY <1>24 DEF Tick, Less, Fault, Calls, Pages
<1>25. CASE ForgetCode
  BY <1>25 DEF ForgetCode
<1>26. CASE UNCHANGED vars
  BY <1>26 DEF vars
<1>. QED
  BY <1>1, <1>2, <1>3, <1>4, <1>5, <1>6, <1>7, <1>8, <1>9, <1>10, <1>11,
     <1>12, <1>13, <1>14, <1>15, <1>16, <1>17, <1>18, <1>19, <1>20, <1>21,
     <1>22, <1>23, <1>24, <1>25, <1>26
  DEF Next, Script, User, Faulty

\* What is known of the code at GitHub stays true: nobody takes an answer back.
LEMMA GrantStep ==
  ASSUME FlowTypeOK, Places, Fresh, Truthful, Clocks, [Next]_vars
  PROVE  Fresh' /\ Truthful' /\ Clocks'
<1> USE FlowAssumptions DEF FlowTypeOK, Replies, Answers, Errors,
         DeviceCodeBundle, session, history, Places, Fresh, Truthful, Clocks
<1>1. CASE require_login
  BY <1>1 DEF require_login
<1>2. CASE Render
  BY <1>2 DEF Render, Expired
<1>3. CASE request_code
  BY <1>3 DEF request_code
<1>4. CASE CodeArrives
  BY <1>4 DEF CodeArrives
<1>5. CASE KeepWaiting
  BY <1>5 DEF KeepWaiting, Slowed, Pause
<1>6. CASE Wake
  BY <1>6 DEF Wake
<1>7. CASE GiveUp
  BY <1>7 DEF GiveUp
<1>8. CASE HaveToken
  BY <1>8 DEF HaveToken
<1>9. CASE \E r \in Replies : Poll(r)
  BY <1>9 DEF Poll, Answer
<1>10. CASE BackendAccepts
  BY <1>10 DEF BackendAccepts, SignedIn
<1>11. CASE GitHubAccepts
  BY <1>11 DEF GitHubAccepts, SignedIn
<1>12. CASE ClickSignIn
  BY <1>12 DEF ClickSignIn
<1>13. CASE PasteToken
  BY <1>13 DEF PasteToken
<1>14. CASE Interact
  BY <1>14 DEF Interact
<1>15. CASE logout
  BY <1>15 DEF logout
<1>16. CASE \E v \in {"approved", "denied"} : Decide(v)
  BY <1>16 DEF Decide
<1>17. CASE RequestRefused
  BY <1>17 DEF RequestRefused, Fault
<1>18. CASE BackendRejects
  BY <1>18 DEF BackendRejects, Rejected, Fault
<1>19. CASE BackendUnreachable
  BY <1>19 DEF BackendUnreachable, Fault
<1>20. CASE GitHubRejects
  BY <1>20 DEF GitHubRejects, Rejected, Fault
<1>21. CASE CallFails
  BY <1>21 DEF CallFails, Unread, Fault
<1>22. CASE PollFails
  BY <1>22 DEF PollFails, Fault
<1>23. CASE Interrupt
  BY <1>23 DEF Interrupt, Slowed, Fault
<1>24. CASE Tick
  BY <1>24 DEF Tick, Less, Fault, Calls, Pages
<1>25. CASE ForgetCode
  BY <1>25 DEF ForgetCode
<1>26. CASE UNCHANGED vars
  BY <1>26 DEF vars
<1>. QED
  BY <1>1, <1>2, <1>3, <1>4, <1>5, <1>6, <1>7, <1>8, <1>9, <1>10, <1>11,
     <1>12, <1>13, <1>14, <1>15, <1>16, <1>17, <1>18, <1>19, <1>20, <1>21,
     <1>22, <1>23, <1>24, <1>25, <1>26
  DEF Next, Script, User, Faulty

\* What is added to the pace here is added at GitHub, or counted as missed.
LEMMA PaceStep ==
  ASSUME FlowTypeOK, Places, Fresh, Pace, [Next]_vars
  PROVE  Pace'
<1> USE FlowAssumptions DEF FlowTypeOK, Replies, Answers, Errors,
         DeviceCodeBundle, session, history, Places, Fresh, Pace
<1>1. CASE require_login
  BY <1>1 DEF require_login
<1>2. CASE Render
  BY <1>2 DEF Render, Expired
<1>3. CASE request_code
  BY <1>3 DEF request_code
<1>4. CASE CodeArrives
  BY <1>4 DEF CodeArrives
<1>5. CASE KeepWaiting
  BY <1>5 DEF KeepWaiting, Slowed, Pause
<1>6. CASE Wake
  BY <1>6 DEF Wake
<1>7. CASE GiveUp
  BY <1>7 DEF GiveUp
<1>8. CASE HaveToken
  BY <1>8 DEF HaveToken
<1>9. CASE \E r \in Replies : Poll(r)
  BY <1>9 DEF Poll, Answer
<1>10. CASE BackendAccepts
  BY <1>10 DEF BackendAccepts, SignedIn
<1>11. CASE GitHubAccepts
  BY <1>11 DEF GitHubAccepts, SignedIn
<1>12. CASE ClickSignIn
  BY <1>12 DEF ClickSignIn
<1>13. CASE PasteToken
  BY <1>13 DEF PasteToken
<1>14. CASE Interact
  BY <1>14 DEF Interact
<1>15. CASE logout
  BY <1>15 DEF logout
<1>16. CASE \E v \in {"approved", "denied"} : Decide(v)
  BY <1>16 DEF Decide
<1>17. CASE RequestRefused
  BY <1>17 DEF RequestRefused, Fault
<1>18. CASE BackendRejects
  BY <1>18 DEF BackendRejects, Rejected, Fault
<1>19. CASE BackendUnreachable
  BY <1>19 DEF BackendUnreachable, Fault
<1>20. CASE GitHubRejects
  BY <1>20 DEF GitHubRejects, Rejected, Fault
<1>21. CASE CallFails
  BY <1>21 DEF CallFails, Unread, Fault
<1>22. CASE PollFails
  BY <1>22 DEF PollFails, Fault
<1>23. CASE Interrupt
  BY <1>23 DEF Interrupt, Slowed, Fault
<1>24. CASE Tick
  BY <1>24 DEF Tick, Less, Fault, Calls, Pages
<1>25. CASE ForgetCode
  BY <1>25 DEF ForgetCode
<1>26. CASE UNCHANGED vars
  BY <1>26 DEF vars
<1>. QED
  BY <1>1, <1>2, <1>3, <1>4, <1>5, <1>6, <1>7, <1>8, <1>9, <1>10, <1>11,
     <1>12, <1>13, <1>14, <1>15, <1>16, <1>17, <1>18, <1>19, <1>20, <1>21,
     <1>22, <1>23, <1>24, <1>25, <1>26
  DEF Next, Script, User, Faulty

\* The sleep is as long as GitHub asks for, and runs down with what it asks.
LEMMA InTimeStep ==
  ASSUME FlowTypeOK, Places, Fresh, Clocks, Pace, InTime, [Next]_vars
  PROVE  InTime'
<1> USE FlowAssumptions DEF FlowTypeOK, Replies, Answers, Errors,
         DeviceCodeBundle, session, history, Places, Fresh, Clocks, Pace,
         InTime
<1>1. CASE require_login
  BY <1>1 DEF require_login
<1>2. CASE Render
  BY <1>2 DEF Render, Expired
<1>3. CASE request_code
  BY <1>3 DEF request_code
<1>4. CASE CodeArrives
  BY <1>4 DEF CodeArrives
<1>5. CASE KeepWaiting
  BY <1>5 DEF KeepWaiting, Slowed, Pause
<1>6. CASE Wake
  BY <1>6 DEF Wake
<1>7. CASE GiveUp
  BY <1>7 DEF GiveUp
<1>8. CASE HaveToken
  BY <1>8 DEF HaveToken
<1>9. CASE \E r \in Replies : Poll(r)
  BY <1>9 DEF Poll, Answer
<1>10. CASE BackendAccepts
  BY <1>10 DEF BackendAccepts, SignedIn
<1>11. CASE GitHubAccepts
  BY <1>11 DEF GitHubAccepts, SignedIn
<1>12. CASE ClickSignIn
  BY <1>12 DEF ClickSignIn
<1>13. CASE PasteToken
  BY <1>13 DEF PasteToken
<1>14. CASE Interact
  BY <1>14 DEF Interact
<1>15. CASE logout
  BY <1>15 DEF logout
<1>16. CASE \E v \in {"approved", "denied"} : Decide(v)
  BY <1>16 DEF Decide
<1>17. CASE RequestRefused
  BY <1>17 DEF RequestRefused, Fault
<1>18. CASE BackendRejects
  BY <1>18 DEF BackendRejects, Rejected, Fault
<1>19. CASE BackendUnreachable
  BY <1>19 DEF BackendUnreachable, Fault
<1>20. CASE GitHubRejects
  BY <1>20 DEF GitHubRejects, Rejected, Fault
<1>21. CASE CallFails
  BY <1>21 DEF CallFails, Unread, Fault
<1>22. CASE PollFails
  BY <1>22 DEF PollFails, Fault
<1>23. CASE Interrupt
  BY <1>23 DEF Interrupt, Slowed, Fault
<1>24. CASE Tick
  BY <1>24 DEF Tick, Less, Fault, Calls, Pages
<1>25. CASE ForgetCode
  BY <1>25 DEF ForgetCode
<1>26. CASE UNCHANGED vars
  BY <1>26 DEF vars
<1>. QED
  BY <1>1, <1>2, <1>3, <1>4, <1>5, <1>6, <1>7, <1>8, <1>9, <1>10, <1>11,
     <1>12, <1>13, <1>14, <1>15, <1>16, <1>17, <1>18, <1>19, <1>20, <1>21,
     <1>22, <1>23, <1>24, <1>25, <1>26
  DEF Next, Script, User, Faulty

\* A code is dropped when it has expired here, and then at GitHub too, when
\* the answer is final or when it has done its work.
LEMMA CodeStep ==
  ASSUME FlowTypeOK, Places, Fresh, Truthful, Clocks, CodeAgreed, [Next]_vars
  PROVE  CodeAgreed'
<1> USE FlowAssumptions DEF FlowTypeOK, Replies, Answers, Errors,
         DeviceCodeBundle, session, history, Places, Fresh, Truthful,
         Clocks, CodeAgreed
<1>1. CASE require_login
  BY <1>1 DEF require_login
<1>2. CASE Render
  BY <1>2 DEF Render, Expired
<1>3. CASE request_code
  BY <1>3 DEF request_code
<1>4. CASE CodeArrives
  BY <1>4 DEF CodeArrives
<1>5. CASE KeepWaiting
  BY <1>5 DEF KeepWaiting, Slowed, Pause
<1>6. CASE Wake
  BY <1>6 DEF Wake
<1>7. CASE GiveUp
  <2>1. /\ pc = "answered" /\ reply \in Errors
        /\ bundle' = None /\ grant' = grant
        /\ bereft' = (bereft \/ reply = "http")
    BY <1>7 DEF GiveUp
  <2>2. CASE reply = "http"
    BY <2>1, <2>2
  <2>3. CASE reply # "http"
    <3>1. ~(grant.state \in {"pending", "approved"} /\ grant.left > 0)
      BY <2>1, <2>3
    <3>. QED  BY <2>1, <3>1
  <2>. QED  BY <2>2, <2>3
<1>8. CASE HaveToken
  BY <1>8 DEF HaveToken
<1>9. CASE \E r \in Replies : Poll(r)
  BY <1>9 DEF Poll, Answer
<1>10. CASE BackendAccepts
  BY <1>10 DEF BackendAccepts, SignedIn
<1>11. CASE GitHubAccepts
  BY <1>11 DEF GitHubAccepts, SignedIn
<1>12. CASE ClickSignIn
  BY <1>12 DEF ClickSignIn
<1>13. CASE PasteToken
  BY <1>13 DEF PasteToken
<1>14. CASE Interact
  BY <1>14 DEF Interact
<1>15. CASE logout
  BY <1>15 DEF logout
<1>16. CASE \E v \in {"approved", "denied"} : Decide(v)
  BY <1>16 DEF Decide
<1>17. CASE RequestRefused
  BY <1>17 DEF RequestRefused, Fault
<1>18. CASE BackendRejects
  BY <1>18 DEF BackendRejects, Rejected, Fault
<1>19. CASE BackendUnreachable
  BY <1>19 DEF BackendUnreachable, Fault
<1>20. CASE GitHubRejects
  BY <1>20 DEF GitHubRejects, Rejected, Fault
<1>21. CASE CallFails
  BY <1>21 DEF CallFails, Unread, Fault
<1>22. CASE PollFails
  BY <1>22 DEF PollFails, Fault
<1>23. CASE Interrupt
  <2>1. /\ bundle' = IF reply = "slow_down" THEN Slowed(bundle) ELSE bundle
        /\ bereft' = (bereft \/ pc = "issued" \/ reply = "token")
        /\ grant' = grant /\ mode' = mode
    BY <1>23 DEF Interrupt
  <2>2. CASE reply = "slow_down"
    <3>1. bundle # None /\ bundle' # None /\ pc # "issued"
      BY <2>1, <2>2, <1>23 DEF Interrupt, Slowed
    <3>. QED  BY <2>1, <2>2, <3>1
  <2>3. CASE reply # "slow_down"
    BY <2>1, <2>3
  <2>. QED  BY <2>2, <2>3
<1>24. CASE Tick
  BY <1>24 DEF Tick, Less, Fault, Calls, Pages
<1>25. CASE ForgetCode
  BY <1>25 DEF ForgetCode
<1>26. CASE UNCHANGED vars
  BY <1>26 DEF vars
<1>. QED
  BY <1>1, <1>2, <1>3, <1>4, <1>5, <1>6, <1>7, <1>8, <1>9, <1>10, <1>11,
     <1>12, <1>13, <1>14, <1>15, <1>16, <1>17, <1>18, <1>19, <1>20, <1>21,
     <1>22, <1>23, <1>24, <1>25, <1>26
  DEF Next, Script, User, Faulty

\* No code, nothing in hand, no interference yet.
LEMMA FlowStart == Init => FlowInv
  <1>. SUFFICES ASSUME Init PROVE FlowInv
    OBVIOUS
  <1>1. FlowTypeOK
    <2>1. faults \in 0..MaxFaults /\ 0 \in Nat
      BY FlowAssumptions DEF Init
    <2>2. grant \in [state : {"none", "pending", "approved", "denied", "used"},
                     interval : Nat, wait : Nat, left : Nat]
      BY DEF Init, NoCode
    <2>. QED  BY <2>1, <2>2 DEF Init, FlowTypeOK, Replies
  <1>2. Places /\ Fresh /\ Truthful
    BY FlowAssumptions DEF Init, Places, Fresh, Truthful, Answers, Errors
  <1>3. Clocks /\ Pace /\ InTime /\ CodeAgreed
    BY DEF Init, Clocks, Pace, InTime, CodeAgreed, NoCode
  <1>. QED  BY <1>1, <1>2, <1>3 DEF FlowInv

\* No step breaks the invariant.
LEMMA FlowStep == FlowInv /\ [Next]_vars => FlowInv'
  BY TypeStep, PlacesStep, GrantStep, PaceStep, InTimeStep, CodeStep DEF FlowInv

\* FlowInv is invariant: the script and GitHub stay in step but for what was
\* counted as lost.
THEOREM FlowInvariant == Spec => []FlowInv
  BY FlowStart, FlowStep, PTL DEF Spec

\* Every value stays in its type.
THEOREM FlowTypeCorrect == Spec => []FlowTypeOK
  <1>1. FlowInv => FlowTypeOK
    BY DEF FlowInv
  <1>. QED  BY <1>1, FlowInvariant, PTL

\* The session and GitHub agree on the pace of a code, up to the slow_down
\* answers that were lost, for any intervals and however often calls fail and
\* the user interferes.
THEOREM PaceIsAgreed == Spec => []PaceAgreed
  <1>1. FlowInv => PaceAgreed
    <2>. SUFFICES ASSUME FlowInv, bundle # None, reply # "slow_down"
                  PROVE  bundle.interval + SlowDown * missed = grant.interval
      BY DEF PaceAgreed
    <2>1. bundle.interval \in Nat /\ missed \in Nat
      BY DEF FlowInv, FlowTypeOK, DeviceCodeBundle
    <2>2. bundle.interval + SlowDown * missed + 0 = grant.interval
      BY DEF FlowInv, Pace
    <2>3. SlowDown * missed \in Nat
      BY <2>1, FlowAssumptions
    <2>. QED  BY <2>1, <2>2, <2>3
  <1>. QED  BY <1>1, FlowInvariant, PTL

\* The session and GitHub agree about the code: what gave its token is gone,
\* what GitHub still takes is there, but for what was lost.
THEOREM CodeIsAgreed == Spec => []CodeAgreed
  <1>1. FlowInv => CodeAgreed
    BY DEF FlowInv
  <1>. QED  BY <1>1, FlowInvariant, PTL

\* A page that is left alone and misses no slow_down is never told to slow down.
THEOREM PaceIsKept == Spec => PaceKept
  <1>1. FlowInv /\ [Next]_vars
          => [reply' = "slow_down" /\ reply # "slow_down" => nudged \/ missed > 0]_vars
    <2>. SUFFICES ASSUME FlowInv, [Next]_vars, reply' = "slow_down", reply # "slow_down"
                  PROVE  nudged \/ missed > 0
      OBVIOUS
    <2>1. \E r \in Replies : Poll(r)
      BY FlowAssumptions
      DEF vars, session, history, Answers, Errors, Next, Script, User, Faulty,
          require_login, Render, request_code, CodeArrives, KeepWaiting, Wake, GiveUp, HaveToken, Poll,
          BackendAccepts, GitHubAccepts, SignedIn, ForgetCode, ClickSignIn, PasteToken, Interact,
          logout, Decide, RequestRefused, BackendRejects, BackendUnreachable,
          GitHubRejects, Rejected, CallFails, PollFails, Interrupt, Tick
    <2>2. pc = "poll" /\ grant.wait > 0
      <3>1. PICK r \in Replies : Poll(r)
        BY <2>1
      <3>2. r = "slow_down"
        BY <3>1 DEF Poll
      <3>. QED  BY <3>1, <3>2 DEF Poll, Answer
    <2>3. bundle # None /\ missed \in Nat
      BY <2>2 DEF FlowInv, Places, FlowTypeOK
    <2>. QED  BY <2>2, <2>3 DEF FlowInv, InTime
  <1>. QED  BY <1>1, FlowInvariant, PTL DEF Spec, PaceKept
=============================================================================
