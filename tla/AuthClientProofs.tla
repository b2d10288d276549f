-------------------------- MODULE AuthClientProofs --------------------------
(***************************************************************************)
(* For any users, and any number of submitted forms and restarts: device,  *)
(* screen and user agree while no two operations overlap and none fails.   *)
(***************************************************************************)
EXTENDS AuthClient, TLAPS

USE BoundsAssumption

\* A form that has called the server knows for whom.
Submitted == \A f \in Forms : call[f] # "none" => who[f] \in Users

\* One operation at a time: the start's me(), a form, or a logout.
Alone ==
    /\ me => logout = "none"
    /\ \A f \in Forms : call[f] # "none" =>
         ~me /\ logout = "none" /\ \A g \in Forms : call[g] # "none" => g = f

\* The device has whom the user signed in as, until an operation stores or clears it, ...
Device ==
    /\ (logout # "set" /\ \A f \in Forms : call[f] # "stored") => token = intent
    /\ logout = "set" => token = None
    /\ \A f \in Forms : call[f] = "stored" => token = who[f]

\* ... me() asks with that token, and otherwise the state shows the user.
Shown ==
    /\ me => bearer = token
    /\ ~me => auth = IF intent = None THEN "Unauthenticated" ELSE intent

Following == ~raced /\ ~failed => Alone /\ Device /\ Shown

IInv == TypeOK /\ Submitted /\ Following

-----------------------------------------------------------------------------

\* A stack of one screen is one.
LEMMA OneScreen ==
    ASSUME NEW s \in Screens
    PROVE  <<s>> \in Seq(Screens) /\ Len(<<s>>) \in 1 .. MaxStack
OBVIOUS

\* Everything keeps its type; the display never goes back from the only screen.
LEMMA TypeInductive ==
    ASSUME TypeOK, Submitted, [Next]_vars
    PROVE  TypeOK' /\ Submitted'
<1> USE DEF TypeOK, Submitted, AuthStates, Forms, holder, forms, nav, bounds, history
<1>1. ASSUME NEW f \in Forms, NEW u \in Users, Submit(f, u) PROVE TypeOK' /\ Submitted'
    BY <1>1 DEF Submit
<1>2. ASSUME NEW f \in Forms, Serve(f) PROVE TypeOK' /\ Submitted'
    BY <1>2 DEF Serve
<1>3. ASSUME NEW f \in Forms, SaveSession(f) PROVE TypeOK' /\ Submitted'
    BY <1>3 DEF SaveSession
<1>4. ASSUME NEW f \in Forms, Succeed(f) PROVE TypeOK' /\ Submitted'
    BY <1>4 DEF Succeed
<1>5. ASSUME NEW f \in Forms, FailForm(f) PROVE TypeOK' /\ Submitted'
    BY <1>5 DEF FailForm, ShowError
<1>6. CASE MeAnswered
    BY <1>6 DEF MeAnswered
<1>7. CASE Logout
    BY <1>7 DEF Logout
<1>8. CASE LogoutAnswered
    BY <1>8 DEF LogoutAnswered
<1>9. CASE ClearToken
    BY <1>9 DEF ClearToken
<1>10. CASE SetUnauthenticated
    BY <1>10 DEF SetUnauthenticated
<1>11. ASSUME NEW s \in Forms, Open(s) PROVE TypeOK' /\ Submitted'
    BY <1>11 DEF Open, Screens
<1>12. CASE Back
    BY <1>12 DEF Back, Screens
<1>13. CASE FollowAuth
    <2>1. backStack' \in {<<"Home">>, <<"Landing">>, backStack}
        BY <1>13, Zenon DEF FollowAuth
    <2>2. backStack' \in Seq(Screens) /\ Len(backStack') \in 1 .. MaxStack
        <3>1. "Home" \in Screens /\ "Landing" \in Screens
            BY DEF Screens
        <3> QED BY <2>1, <3>1, OneScreen
    <2> QED BY <1>13, <2>2 DEF FollowAuth
<1>14. CASE Restart
    <2>1. backStack' = <<"Landing">>
        BY <1>14 DEF Restart, Started
    <2>2. backStack' \in Seq(Screens) /\ Len(backStack') \in 1 .. MaxStack
        <3>1. "Landing" \in Screens
            BY DEF Screens
        <3> QED BY <2>1, <3>1, OneScreen
    <2>3. {me', isLoggingOut', raced', failed'} \subseteq BOOLEAN
        BY <1>14 DEF Restart, Started
    <2> QED BY <1>14, <2>2, <2>3 DEF Restart, Started
<1>15. CASE UNCHANGED vars
    BY <1>15 DEF vars
<1> QED BY <1>1, <1>2, <1>3, <1>4, <1>5, <1>6, <1>7, <1>8, <1>9, <1>10, <1>11, <1>12,
           <1>13, <1>14, <1>15 DEF Next, Answers

\* No operation that runs alone and succeeds lets device, state and user differ.
LEMMA FollowingInductive ==
    ASSUME TypeOK, TypeOK', Submitted, Following, [Next]_vars
    PROVE  Following'
<1> USE DEF TypeOK, Following, Alone, Device, Shown, Forms, holder, forms, bounds, history
<1>1. ASSUME NEW f \in Forms, NEW u \in Users, Submit(f, u) PROVE Following'
    BY <1>1 DEF Submit, Busy
<1>2. ASSUME NEW f \in Forms, Serve(f) PROVE Following'
    BY <1>2 DEF Serve
<1>3. ASSUME NEW f \in Forms, SaveSession(f) PROVE Following'
    BY <1>3 DEF SaveSession
<1>4. ASSUME NEW f \in Forms, Succeed(f) PROVE Following'
    BY <1>4 DEF Succeed, Submitted
<1>5. ASSUME NEW f \in Forms, FailForm(f) PROVE Following'
    BY <1>5 DEF FailForm, ShowError
<1>6. CASE MeAnswered
    BY <1>6 DEF MeAnswered
<1>7. CASE Logout
    BY <1>7 DEF Logout, Busy
<1>8. CASE LogoutAnswered
    BY <1>8 DEF LogoutAnswered
<1>9. CASE ClearToken
    BY <1>9 DEF ClearToken
<1>10. CASE SetUnauthenticated
    BY <1>10 DEF SetUnauthenticated
<1>11. ASSUME NEW s \in Forms, Open(s) PROVE Following'
    BY <1>11 DEF Open
<1>12. CASE Back
    BY <1>12 DEF Back
<1>13. CASE FollowAuth
    BY <1>13 DEF FollowAuth
<1>14. CASE Restart
    BY <1>14 DEF Restart, Started
<1>15. CASE UNCHANGED vars
    BY <1>15 DEF vars
<1> QED BY <1>1, <1>2, <1>3, <1>4, <1>5, <1>6, <1>7, <1>8, <1>9, <1>10, <1>11, <1>12,
           <1>13, <1>14, <1>15 DEF Next, Answers

-----------------------------------------------------------------------------

\* The inductive invariant holds always.
THEOREM Invariant == Spec => []IInv
<1>1. Init => IInv
    <2> SUFFICES ASSUME Init PROVE IInv
        OBVIOUS
    <2>1. backStack \in Seq(Screens) /\ Len(backStack) \in 1 .. MaxStack
        BY OneScreen DEF Init, Screens
    <2>2. {me, isLoggingOut, raced, failed} \subseteq BOOLEAN
        BY DEF Init
    <2>3. TypeOK
        BY <2>1, <2>2 DEF Init, TypeOK, AuthStates, Forms
    <2>4. Submitted /\ Following
        BY DEF Init, Submitted, Following, Alone, Device, Shown
    <2> QED BY <2>3, <2>4 DEF IInv
<1>2. IInv /\ [Next]_vars => IInv'
    BY TypeInductive, FollowingInductive DEF IInv
<1> QED BY <1>1, <1>2, PTL DEF Spec

\* Holder, forms and navigation have the types AuthClient gives them; the back
\* stack is never empty.
THEOREM TypeCorrect == Spec => []TypeOK
<1>1. IInv => TypeOK
    BY DEF IInv
<1> QED BY <1>1, Invariant, PTL

\* At rest the token on the device and the state shown are those of the user who
\* signed in last, however often the application was started anew
\* (AuthStateHolder, saveSession, performLogout).
THEOREM DeviceAgrees == Spec => []DeviceFollowsUser
<1>1. IInv => DeviceFollowsUser
    BY DEF IInv, Following, Device, Shown, DeviceFollowsUser, Busy
<1> QED BY <1>1, Invariant, PTL

=============================================================================
