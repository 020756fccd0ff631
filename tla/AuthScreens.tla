---------------------------- MODULE AuthScreens ----------------------------
(***************************************************************************)
(* The components of apps/web-v2 about signing up, in and out.  A form of   *)
(* the sign-in pages is sent once at a time, shows its failure, and erases  *)
(* it when it is sent again.                                                *)
(***************************************************************************)
EXTENDS Screens

\* The pages outside the dashboard load nothing.
LoginPage     == Page(<<"login">>, {}, {})
SignupPage    == Page(<<"signup">>, {}, {})
ForgotPage    == Page(<<"forgot-password">>, {}, {})
ResetPage     == Page(<<"reset-password">>, {}, {})
ResendPage    == Page(<<"verify-email">>, {}, {})
VerifyPage    == Page(<<"verify-email-token">>, {}, {})
AcceptPage    == Page(<<"invites", "accept">>, {}, {})
CallbackPage  == Page(<<"github", "callback">>, {}, {})

\* Signing in changes whose user and teams the dashboard shows.
LoginForm ==
    Screen({LoginPage}, {},
           {Call("login", {"user", "teams"}, {}, Form \cup {"leaves", "refresh"})})

SignupForm == Screen({SignupPage}, {}, {Call("signup", {}, {}, Form \cup {"leaves"})})
ForgotForm == Screen({ForgotPage}, {}, {Call("forgotPassword", {}, {}, Form)})
ResetForm  == Screen({ResetPage}, {}, {Call("resetPassword", {}, {}, Form \cup {"leaves"})})
ResendVerifyClient == Screen({ResendPage}, {}, {Call("resendVerification", {}, {}, Form)})

\* Reached by a link in a mail or from GitHub, with a page load that leaves the browser
\* without a cache: what they change is not on any screen.
VerifyClient       == Screen({VerifyPage}, {}, {Call("verify", {}, {}, {"once", "says"})})
AcceptInviteClient == Screen({AcceptPage}, {}, {Call("accept", {}, {}, {"once", "says"})})
GitHubCallbackPage ==
    Screen({CallbackPage}, {}, {Call("callback", {}, {}, {"once", "says", "leaves"})})

\* A failed logout is ignored.
UserMenu ==
    Screen({Dashboard}, {Props("user")},
           {Call("signOut", {"session"}, {}, {"locks", "leaves", "refresh"})})
=============================================================================
