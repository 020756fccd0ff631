--------------------------- MODULE WebTeamScreens ---------------------------
(***************************************************************************)
(* The components of apps/web, the single-page console, about accounts and  *)
(* teams.  Nothing is rendered by a server: every view is a query, kept for *)
(* five minutes and asked for again when the window gets the focus.         *)
(***************************************************************************)
EXTENDS Screens

\* The team's keys all begin with the team's own: ['teams', teamId, ...].
TeamKey        == <<"teams", "team">>
OfTeam(word)   == <<"teams", "team", word>>
InGithub(word) == <<"teams", "team", "github", word>>

(********************************* accounts ********************************)

Outside(word) == Page(<<word>>, {}, {})
App           == Page(<<"app">>, {}, {})

\* Signing in invalidates the user and nothing else.
LoginPage  ==
    Screen({Outside("login")}, {}, {Call("login", {"user"}, {<<"auth">>}, Form \cup {"leaves"})})
SignupPage == Screen({Outside("signup")}, {}, {Call("signup", {}, {}, Form)})
ForgotPasswordPage ==
    Screen({Outside("forgot-password")}, {}, {Call("forgotPassword", {}, {}, Form)})
ResetPasswordPage ==
    Screen({Outside("reset-password")}, {}, {Call("resetPassword", {}, {}, Form)})

\* Reached with a page load, which leaves the browser without a cache.
VerifyEmailPage ==
    Screen({Outside("verify-email")}, {}, {Call("verify", {}, {}, {"once", "says"})})
GitHubCallbackPage ==
    Screen({Outside("github-callback")}, {}, {Call("callback", {}, {}, {"once", "says", "leaves"})})

UserQuery == Query(<<"auth", "me">>, "user", {})

\* The layout of all the pages below.  Signing out empties the whole cache.
AppLayout ==
    Screen({App}, {UserQuery, Query(<<"teams">>, "teams", {})},
           {Call("logout", {"session"}, {<<>>}, {"leaves"})})

DashboardPage == Screen({Within(App, "dashboard", {}, {})}, {UserQuery}, {})

(*********************************** teams *********************************)

TeamsPlace == Within(App, "teams", {}, {})

TeamsPage == Screen({TeamsPlace}, {Query(<<"teams">>, "teams", {})}, {})

\* Leaving it by any other way than success keeps what was typed, and the error.
CreateTeamDialog ==
    Modal({TeamsPlace}, "keeps", {},
          {Call("createTeam", {"teams"}, {<<"teams">>}, Form \cup {"closes", "clears"})})

TeamDetailPage ==
    Screen({Within(App, "team", {}, {})},
           {Query(TeamKey, "team", {}), Query(OfTeam("members"), "members", {})}, {})

\* Failures are toasts.
TeamSettingsPage ==
    Screen({Within(App, "team-settings", {}, {})},
           {Query(TeamKey, "team", {}), Query(OfTeam("invites"), "invites", {})},
           {Call("updateTeam", {"team", "teams", "audit"}, {<<"teams">>}, {"locks"}),
            Call("createInvite", {"invites", "audit"}, {OfTeam("invites")}, {"locks", "clears"}),
            Call("revokeInvite", {"invites", "audit"}, {OfTeam("invites")}, {"locks", "rows"})})

TokensPlace == Within(App, "tokens", {}, {})

TokensPage ==
    Screen({TokensPlace}, {Query(OfTeam("tokens"), "tokens", {})},
           {Call("revokeToken", {"tokens", "audit"}, {OfTeam("tokens")}, {"locks", "rows"})})

\* Closing it wipes the token, the error and the scopes, and keeps the name typed; the
\* answer to a call that outlives the dialog is put into the closed one.
CreateTokenDialog ==
    Modal({TokensPlace}, "wipes", {},
          {Call("createToken", {"tokens", "audit"}, {OfTeam("tokens")},
                Form \cup {"plain", "clears"})})

\* One query per filter and cursor.
AuditLogPage ==
    Screen({Within(App, "audit-log", {}, {})}, {Query(OfTeam("audit-log"), "audit", {})}, {})

(********************************** SSH keys *******************************)

SSHKeysPlace == Within(App, "ssh-keys", {}, {})

SSHKeysPage == Screen({SSHKeysPlace}, {Query(OfTeam("ssh-keys"), "sshKeys", {})}, {})

SSHKeyCall(name) ==
    Call(name, {"sshKeys", "audit"}, {OfTeam("ssh-keys")}, Form \cup {"closes", "clears"})

GenerateKeyDialog == Modal({SSHKeysPlace}, "keeps", {}, {SSHKeyCall("generateKey")})
ImportKeyDialog   == Modal({SSHKeysPlace}, "resets", {}, {SSHKeyCall("importKey")})

\* The question whether to delete something: nothing is typed, the button is locked.
\* Each of these deletions is entered into the audit log.
DeleteDialog(place, name, what, key) ==
    Modal({place}, "resets", {}, {Call(name, {what, "audit"}, {key}, {"locks", "closes", "clears"})})

DeleteKeyDialog == DeleteDialog(SSHKeysPlace, "deleteKey", "sshKeys", OfTeam("ssh-keys"))

(********************************* settings ********************************)

SettingsPlace == Within(App, "settings", {}, {})

\* installations are asked for only if there is an app; a 404 for it is no app.
GithubViews ==
    {Query(InGithub("app"), "githubApp", {}), Query(InGithub("installations"), "installations", {})}

\* connect leaves for GitHub with a form of its own; sync is not locked.
GitHubTab ==
    Screen({SettingsPlace}, GithubViews,
           {Call("connect", {}, {}, {"locks"}),
            Call("sync", {"installations"}, {InGithub("installations")}, {})})

DisconnectDialog ==
    Modal({SettingsPlace}, "resets", {},
          {Call("disconnect", {"githubApp", "installations", "repos", "audit"}, {OfTeam("github")},
                {"locks", "closes", "clears"})})

ReposQuery == Query(InGithub("installations") \o <<"installation", "repos">>, "repos", {})

\* A row asks for its repositories while it is expanded.
InstallationRow == Modal({SettingsPlace}, "resets", {ReposQuery}, {})

RegistriesTab ==
    Screen({SettingsPlace}, {Query(OfTeam("registries"), "registries", {})},
           {Call("validate", {"registries"}, {OfTeam("registries")}, {"locks", "rows"})})

AddRegistryDialog ==
    Modal({SettingsPlace}, "resets", {},
          {Call("addRegistry", {"registries", "audit"}, {OfTeam("registries")},
                Form \cup {"closes", "clears"})})

DeleteRegistryDialog ==
    DeleteDialog(SettingsPlace, "deleteRegistry", "registries", OfTeam("registries"))

\* One query per environment.  What a reveal has returned stays in the tab's state.
SecretsTab ==
    Screen({SettingsPlace}, {Query(OfTeam("secrets") \o <<"environment">>, "secrets", {})},
           {Call("reveal", {"secrets", "audit"}, {OfTeam("secrets")}, {"locks", "rows", "plain"})})

SecretDialog(name) ==
    Modal({SettingsPlace}, "resets", {},
          {Call(name, {"secrets", "audit"}, {OfTeam("secrets")}, Form \cup {"closes", "clears"})})

AddSecretDialog    == SecretDialog("addSecret")
UpdateSecretDialog == SecretDialog("updateSecret")
DeleteSecretDialog == DeleteDialog(SettingsPlace, "deleteSecret", "secrets", OfTeam("secrets"))
=============================================================================
