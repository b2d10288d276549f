----------------------------- MODULE AuthClient -----------------------------
(***************************************************************************)
(* Signing in with the Kotlin client: the server's accounts, the token     *)
(* kept on the device, AuthStateHolder, the two forms, the home screen and *)
(* the back stack.                                                         *)
(*                                                                         *)
(* The view models run on the main thread; the holder's me() and logout()  *)
(* run on other threads (Dispatchers.Default), so their answers come       *)
(* between any two steps of the others.  AuthTokenStore is not scoped:     *)
(* the store the bearer interceptor of me() reads is not the one a login   *)
(* writes, and holds the token that was on the device at the start.        *)
(***************************************************************************)
EXTENDS Integers, Sequences

CONSTANTS
    Users,
    MaxSubmits,     \* bound: forms submitted
    MaxRestarts,    \* bound: times the application is started anew
    MaxStack,       \* bound: entries of the back stack
    None

ASSUME BoundsAssumption ==
    /\ {MaxSubmits, MaxRestarts, MaxStack} \subseteq Nat /\ MaxStack > 0
    /\ {None, "Unknown", "Unauthenticated"} \cap Users = {}

VARIABLES
    accounts,       \* users the server knows
    token,          \* whose token is on the device, or None
    bearer,         \* whose token me() sends, or None
    auth,           \* AuthStateHolder.state: a user stands for Authenticated
    me,             \* me() of the start is unanswered
    form,           \* form[f]: LoginState and RegisterState
    call,           \* call[f]: the progress of the form's request
    who,            \* who[f]: the user whose data the form has submitted
    logout,         \* the progress of performLogout
    isLoggingOut,
    backStack,
    seen,           \* the auth state LaunchedEffect was last launched for
    submits, restarts,
    intent,         \* history: the user of the last granted form, None after a logout
    raced,          \* history: an operation began while another was under way
    failed          \* history: a call for me() or logout() or a device write failed

holder == <<auth, me, logout, isLoggingOut>>
forms == <<form, call, who>>
nav == <<backStack, seen>>
bounds == <<submits, restarts>>
history == <<intent, raced, failed>>
vars == <<accounts, token, bearer, holder, forms, nav, bounds, history>>

Forms == {"Login", "Register"}
Screens == Forms \cup {"Landing", "Home"}
AuthStates == Users \cup {"Unknown", "Unauthenticated"}

\* Types; in particular the back stack is never empty while the display goes back.
TypeOK ==
    /\ accounts \subseteq Users
    /\ {token, bearer, intent} \subseteq Users \cup {None}
    /\ {auth, seen} \subseteq AuthStates
    /\ {me, isLoggingOut, raced, failed} \subseteq BOOLEAN
    /\ form \in [Forms -> {"Editing", "Submitting", "Error"}]
    /\ call \in [Forms -> {"none", "sent", "granted", "refused", "stored"}]
    /\ who \in [Forms -> Users \cup {None}]
    /\ logout \in {"none", "sent", "clear", "set"}
    /\ backStack \in Seq(Screens) /\ Len(backStack) \in 1 .. MaxStack
    /\ submits \in 0 .. MaxSubmits /\ restarts \in 0 .. MaxRestarts

\* The application starts: the holder asks who is signed in.
Started ==
    /\ bearer' = token
    /\ auth' = "Unknown" /\ me' = TRUE
    /\ logout' = "none" /\ isLoggingOut' = FALSE
    /\ form' = [f \in Forms |-> "Editing"]
    /\ call' = [f \in Forms |-> "none"]
    /\ who' = [f \in Forms |-> None]
    /\ backStack' = <<"Landing">> /\ seen' = "Unknown"

Init ==
    /\ accounts \in SUBSET Users
    /\ token = None /\ bearer = None
    /\ auth = "Unknown" /\ me = TRUE
    /\ logout = "none" /\ isLoggingOut = FALSE
    /\ form = [f \in Forms |-> "Editing"]
    /\ call = [f \in Forms |-> "none"]
    /\ who = [f \in Forms |-> None]
    /\ backStack = <<"Landing">> /\ seen = "Unknown"
    /\ submits = 0 /\ restarts = 0
    /\ intent = None /\ raced = FALSE /\ failed = FALSE

Screen == backStack[Len(backStack)]

\* saveSession blocks the main thread until the token is written.
MainFree == \A f \in Forms : call[f] # "stored"

Busy == me \/ logout # "none" \/ \E f \in Forms : call[f] # "none"

-----------------------------------------------------------------------------
(* LoginViewModel, RegisterViewModel and AuthGrpcApiImpl.login/register     *)

\* submit: only from Editing; a second click finds Submitting.
Submit(f, u) ==
    /\ MainFree /\ submits < MaxSubmits
    /\ Screen = f /\ form[f] = "Editing"
    /\ form' = [form EXCEPT ![f] = "Submitting"]
    /\ call' = [call EXCEPT ![f] = "sent"]
    /\ who' = [who EXCEPT ![f] = u]
    /\ submits' = submits + 1
    /\ raced' = (raced \/ Busy)
    /\ UNCHANGED <<accounts, token, bearer, holder, nav, restarts, intent, failed>>

\* AuthServer.Register and Login: an email is registered once.
Serve(f) ==
    /\ call[f] = "sent"
    /\ LET granted == (who[f] \in accounts) = (f = "Login") IN
        /\ call' = [call EXCEPT ![f] = IF granted THEN "granted" ELSE "refused"]
        /\ accounts' = IF granted THEN accounts \cup {who[f]} ELSE accounts
    /\ UNCHANGED <<token, bearer, holder, form, who, nav, bounds, history>>

\* saveSession; what the device cannot store is silently lost.
SaveSession(f) ==
    /\ MainFree /\ call[f] = "granted"
    /\ token' \in {who[f], token}
    /\ failed' = (failed \/ token' # who[f])
    /\ call' = [call EXCEPT ![f] = "stored"]
    /\ UNCHANGED <<accounts, bearer, holder, form, who, nav, bounds, intent, raced>>

\* onSuccess: setAuthenticated, and an empty form.
Succeed(f) ==
    /\ call[f] = "stored"
    /\ auth' = who[f]
    /\ form' = [form EXCEPT ![f] = "Editing"]
    /\ call' = [call EXCEPT ![f] = "none"]
    /\ intent' = who[f]
    /\ UNCHANGED <<accounts, token, bearer, me, logout, isLoggingOut, who, nav,
                   bounds, raced, failed>>

ShowError(f) ==
    /\ form' = [form EXCEPT ![f] = "Error"]
    /\ call' = [call EXCEPT ![f] = "none"]
    /\ UNCHANGED <<accounts, token, bearer, holder, who, nav, bounds, history>>

\* onFailure: refused, unreachable, timed out, or the answer is lost.
FailForm(f) ==
    /\ MainFree /\ call[f] \in {"sent", "granted", "refused"}
    /\ ShowError(f)

-----------------------------------------------------------------------------
(* AuthStateHolder, HomeViewModel and AuthGrpcApiImpl.me/logout             *)

\* refreshInternal: with a valid token the user, else Unauthenticated.
MeAnswered ==
    /\ me
    /\ me' = FALSE
    /\ \/ bearer # None /\ auth' = bearer /\ UNCHANGED failed
       \/ auth' = "Unauthenticated" /\ failed' = (failed \/ bearer # None)
    /\ UNCHANGED <<accounts, token, bearer, logout, isLoggingOut, forms, nav,
                   bounds, intent, raced>>

\* HomeViewModel.logout; the button stays disabled from now on.
Logout ==
    /\ MainFree /\ Screen = "Home" /\ ~isLoggingOut
    /\ isLoggingOut' = TRUE
    /\ logout' = "sent"
    /\ raced' = (raced \/ Busy)
    /\ UNCHANGED <<accounts, token, bearer, auth, me, forms, nav, bounds,
                   intent, failed>>

LogoutUncaught ==
    /\ logout = "sent"
    /\ logout' \in {"clear", "none"}
    /\ failed' = (failed \/ logout' # "clear")
    /\ UNCHANGED <<accounts, token, bearer, auth, me, isLoggingOut, forms, nav,
                   bounds, intent, raced>>

\* The call succeeds, or it fails and the token is kept.
LogoutAnswered ==
    /\ logout = "sent"
    /\ logout' \in {"clear", "set"}
    /\ failed' = (failed \/ logout' # "clear")
    /\ UNCHANGED <<accounts, token, bearer, auth, me, isLoggingOut, forms, nav,
                   bounds, intent, raced>>

ClearMemoryOnly ==
    /\ logout = "clear"
    /\ logout' = "set"
    /\ UNCHANGED <<accounts, token, bearer, auth, me, isLoggingOut, forms, nav,
                   bounds, history>>

\* tokenStore.clear; what the device cannot delete is silently kept.
ClearToken ==
    /\ logout = "clear"
    /\ token' \in {None, token}
    /\ failed' = (failed \/ token' # None)
    /\ logout' = "set"
    /\ UNCHANGED <<accounts, bearer, auth, me, isLoggingOut, forms, nav, bounds,
                   intent, raced>>

SetUnauthenticated ==
    /\ logout = "set"
    /\ auth' = "Unauthenticated"
    /\ logout' = "none"
    /\ intent' = None
    /\ UNCHANGED <<accounts, token, bearer, me, isLoggingOut, forms, nav,
                   bounds, raced, failed>>

-----------------------------------------------------------------------------
(* AppNavRoot                                                              *)

\* A screen opens another (Landing both forms, each form the other).
Open(s) ==
    /\ MainFree /\ Len(backStack) < MaxStack
    /\ s \in Forms \ {Screen} /\ Screen # "Home"
    /\ backStack' = Append(backStack, s)
    /\ UNCHANGED <<accounts, token, bearer, holder, forms, seen, bounds, history>>

\* The display goes back while there is an entry to go back to.
Back ==
    /\ MainFree /\ Len(backStack) > 1
    /\ backStack' = SubSeq(backStack, 1, Len(backStack) - 1)
    /\ UNCHANGED <<accounts, token, bearer, holder, forms, seen, bounds, history>>

FollowSignIn ==
    /\ MainFree /\ seen # auth
    /\ seen' = auth
    /\ backStack' = IF auth \in Users THEN <<"Home">> ELSE backStack
    /\ UNCHANGED <<accounts, token, bearer, holder, forms, bounds, history>>

\* LaunchedEffect(authState), launched when a composition finds a new state.
FollowAuth ==
    /\ MainFree /\ seen # auth
    /\ seen' = auth
    /\ backStack' = CASE auth \in Users -> <<"Home">>
                      [] auth = "Unauthenticated" /\ Screen = "Home" -> <<"Landing">>
                      [] OTHER -> backStack
    /\ UNCHANGED <<accounts, token, bearer, holder, forms, bounds, history>>

\* The process ends at any moment and starts again with what is on the device.
\* What was under way then counts as a race: its outcome is not known.
Restart ==
    /\ restarts < MaxRestarts
    /\ restarts' = restarts + 1
    /\ Started
    /\ raced' = (raced \/ logout # "none" \/ \E f \in Forms : call[f] # "none")
    /\ UNCHANGED <<accounts, token, submits, intent, failed>>

-----------------------------------------------------------------------------

Answers(f) == Serve(f) \/ SaveSession(f) \/ Succeed(f) \/ FailForm(f)

Next ==
    \/ \E f \in Forms : Answers(f) \/ \E u \in Users : Submit(f, u)
    \/ MeAnswered \/ Logout \/ LogoutAnswered \/ ClearToken \/ SetUnauthenticated
    \/ \E s \in Forms : Open(s)
    \/ Back \/ FollowAuth \/ Restart

\* Calls end: the connection times out after 15 s, a read after 30 s.  Threads
\* and the composition get to run.  Nobody has to click, type or restart.
Fairness ==
    /\ \A f \in Forms : WF_vars(Answers(f))
    /\ WF_vars(MeAnswered)
    /\ WF_vars(LogoutAnswered \/ ClearToken \/ SetUnauthenticated)
    /\ WF_vars(FollowAuth)

Spec == Init /\ [][Next]_vars /\ Fairness

-----------------------------------------------------------------------------
(* Properties                                                              *)

\* At rest, and unless operations overlapped or a call or a device write
\* failed, three things agree however often the application was restarted: the
\* last thing the user did, the token on the device, and the state shown.  So a
\* signed-in user is signed in again after a restart, a signed-out one is not,
\* and nobody sees another's account.
DeviceFollowsUser ==
    (~Busy /\ ~raced /\ ~failed)
        => /\ token = intent
           /\ auth = IF intent = None THEN "Unauthenticated" ELSE intent

\* performLogout signs out on the screen even when the server is unreachable:
\* it ends with Unauthenticated, unless the application is restarted.
LogoutEnds ==
    \A n \in 0 .. MaxRestarts :
        (logout # "none" /\ restarts = n) ~> (auth = "Unauthenticated" \/ restarts > n)

\* The navigation follows the holder, whatever was opened in between and
\* whichever states it passed through: in the end the home screen is shown to
\* exactly those who are signed in.
HomeForSignedIn == <>[](Screen = "Home" <=> auth \in Users)

=============================================================================
