---------------------------- MODULE TeamScreens ----------------------------
(***************************************************************************)
(* The components of apps/web-v2 about teams, their members, tokens,        *)
(* secrets, SSH keys, notifications and integrations, and the layouts that  *)
(* show the teams.                                                          *)
(***************************************************************************)
EXTENDS AuthScreens

\* The queries of a team are keyed by a word and the team's id.
OfTeam(word) == <<word, "team">>

TeamPages     == Within(Dashboard, "team", {"team"}, {})
TeamsPage     == Within(Dashboard, "teams", {}, {"teams"})
SettingsPage  == Within(Dashboard, "settings", {"user"}, {"teams"})
SshKeysPage   == Within(Dashboard, "ssh-keys", {}, {"sshKeys"})
ActivityPage  == Within(Dashboard, "activity", {}, {"audit"})
IntegrationsPage  == Within(Dashboard, "integrations", {"user"}, {"teams"})
MembersPage   == Within(TeamPages, "members", {"user"}, {"members", "invites"})
TokensPage    == Within(TeamPages, "tokens", {}, {"tokens"})
SecretsPage   == Within(TeamPages, "secrets", {}, {"secrets"})
AuditLogPage  == Within(TeamPages, "audit-log", {}, {"audit"})
TeamSettingsPage  == Within(TeamPages, "settings", {"team"}, {})
NotificationsPage ==
    Within(TeamPages, "notifications", {},
           {"channels", "alerts", "alertEvents", "servers", "clusters", "projects", "apps"})

\* Mutant: the triggers stay enabled.
RowConfirmUnlocked == (Form \ {"locks"}) \cup {"confirm", "rows"}

\* The control of a row that asks first: one hook for all the rows, the rows'
\* triggers disabled while its call is pending, its error shown above the table.
RowConfirm == Form \cup {"confirm", "rows"}

(******************************* the layouts *******************************)

\* They show what the layout has loaded.
Sidebar == Screen({Dashboard}, {Props("teams")}, {})
Topbar  == Screen({Dashboard}, {Props("teams"), Props("user")}, {})

\* Switching sets a cookie and refreshes; the menu is disabled meanwhile.
TeamSwitcher ==
    Screen({Dashboard}, {Props("teams")},
           {Call("switchTo", {"activeTeam"}, {}, {"refresh", "locks"})})

\* The palette has its own keys, queried while it is open.
PaletteViews ==
    {Query(OfTeam(k[1]), k[2], {}) :
       k \in {<<"palette-projects", "projects">>, <<"palette-servers", "servers">>,
              <<"palette-clusters", "clusters">>, <<"palette-volumes", "volumes">>,
              <<"palette-apps", "apps">>, <<"palette-databases", "databases">>}}

CommandPalette == Modal({Dashboard}, "resets", PaletteViews, {})

TeamDetailLayout == Screen({TeamPages}, {Props("team")}, {})

SettingsClient ==
    Screen({SettingsPage}, {Props("user"), Props("teams")},
           {Call("logout", {"session"}, {}, {"locks", "says", "leaves", "refresh"})})

(********************************** teams **********************************)

TeamsListClient == Screen({TeamsPage}, {Props("teams")}, {})

\* The entry about a team that is created or removed is in that team's own log.
CreateTeamDialog ==
    Modal({TeamsPage, Dashboard}, "resets", {},
          {Call("create", {"teams", "activeTeam"}, {<<"teams">>},
                Form \cup {"closes", "clears", "leaves", "refresh"})})

TeamSettingsClient ==
    Screen({TeamSettingsPage}, {Copied("team")},
           {Call("rename", {"teams", "team", "audit"}, {<<"teams">>}, Form \cup {"refresh"}),
            Call("remove", {"teams"}, {<<"teams">>}, {"confirm", "says", "leaves", "refresh"})})

MembersQuery == Query(OfTeam("team-members"), "members", {"seeded"})
InvitesQuery == Query(OfTeam("team-invites"), "invites", {"seeded"})

\* The tables of the members page: the members, and the invites that are pending.
MembersTable ==
    Screen({MembersPage}, {MembersQuery},
           {Call("removeMember", {"members", "audit"}, {OfTeam("team-members")}, RowConfirm),
            Call("updateRole", {"members", "audit"}, {OfTeam("team-members")}, Form \cup {"rows"})})

InvitesTable ==
    Screen({MembersPage}, {InvitesQuery},
           {Call("cancelInvite", {"invites", "audit"}, {OfTeam("team-invites")}, RowConfirm)})

InviteMemberDialog ==
    Modal({MembersPage}, "resets", {},
          {Call("invite", {"invites", "audit"}, {OfTeam("team-invites")},
                Form \cup {"closes", "clears"})})

(**************************** tokens and secrets ***************************)

TokensQuery == Query(OfTeam("team-tokens"), "tokens", {"seeded"})
RevokeToken == Call("revoke", {"tokens", "audit"}, {OfTeam("team-tokens")}, RowConfirm)

TokensClient == Screen({TokensPage}, {TokensQuery}, {RevokeToken})

\* What is shown once goes into the state; its pane's Done button is setOpen(false),
\* which does not pass through onOpenChange.
RevealPane == {"plain", "done"}

CreateTokenCall ==
    Call("create", {"tokens", "audit"}, {OfTeam("team-tokens")},
         Form \cup RevealPane \cup {"quiets"})

CreateTokenDialog == Modal({TokensPage}, "resets", {}, {CreateTokenCall})

\* Every filter has a key of its own, and only the unfiltered one is seeded.
SecretsViews ==
    {Query(<<"team-secrets", "team", "(all)">>, "secrets", {"seeded"}),
     Query(<<"team-secrets", "team", "env">>, "secrets", {})}

RemoveSecret == Call("remove", {"secrets", "audit"}, {OfTeam("team-secrets")}, RowConfirm)

SecretsClient == Screen({SecretsPage}, SecretsViews, {RemoveSecret})

\* Mutant: success closes the dialog with its form filled in.
CreateSecretDialogKept ==
    Modal({SecretsPage}, "resets", {},
          {Call("create", {"secrets", "audit"}, {OfTeam("team-secrets")}, Form \cup {"closes"})})

CreateSecretDialog ==
    Modal({SecretsPage}, "resets", {},
          {Call("create", {"secrets", "audit"}, {OfTeam("team-secrets")},
                Form \cup {"closes", "clears"})})

RotateSecretDialog ==
    Modal({SecretsPage}, "resets", {},
          {Call("rotate", {"secrets", "audit"}, {OfTeam("team-secrets")},
                Form \cup {"closes", "clears"})})

RevealSecretDialog ==
    Modal({SecretsPage}, "effect", {},
          {Call("reveal", {"secrets", "audit"}, {OfTeam("team-secrets")}, Form \cup {"plain"})})

SshKeysClient ==
    Screen({SshKeysPage}, {Query(OfTeam("ssh-keys"), "sshKeys", {"seeded"})},
           {Call("remove", {"sshKeys", "audit"}, {OfTeam("ssh-keys")}, RowConfirm)})

GenerateSshKeyDialog ==
    Modal({SshKeysPage}, "resets", {},
          {Call("generate", {"sshKeys", "audit"}, {OfTeam("ssh-keys")},
                Form \cup RevealPane \cup {"quiets"})})

\* Each filter is a key of its own, seeded with the page's unfiltered entries.
AuditQuery == Query(<<"audit-log", "team", "filters">>, "audit", {"seeded"})

AuditLogClient == Screen({AuditLogPage, ActivityPage}, {AuditQuery}, {})

(****************************** notifications ******************************)

ChannelsQuery    == Query(OfTeam("channels"), "channels", {"seeded"})
AlertsQuery      == Query(OfTeam("alerts"), "alerts", {"seeded", "polled"})
AlertEventsQuery == Query(OfTeam("alert-events"), "alertEvents", {"seeded", "polled"})

\* Evaluate is disabled while pending; the rows' triggers are not.
AlertRulesCalls ==
    {Call("evaluate", {"alerts", "alertEvents"},
          {OfTeam("alerts"), OfTeam("alert-events")}, {"locks", "says"}),
     Call("removeAlert", {"alerts"}, {OfTeam("alerts")}, {"confirm", "rows", "says"})}

\* The page's sections.  The rules name channels, and servers, clusters, projects and
\* apps as their scope.
ScopeProps == {Props("servers"), Props("clusters"), Props("projects"), Props("apps")}

ChannelsSection    == Screen({NotificationsPage}, {ChannelsQuery}, {})
AlertRulesSection  ==
    Screen({NotificationsPage}, {AlertsQuery, ChannelsQuery} \cup ScopeProps, AlertRulesCalls)
AlertEventsSection == Screen({NotificationsPage}, {AlertEventsQuery}, {})

CreateChannelDialog ==
    Modal({NotificationsPage}, "resets", {},
          {Call("create", {"channels"}, {OfTeam("channels")},
                {"locks", "says", "closes", "clears"})})

CreateAlertCall ==
    Call("create", {"alerts"}, {OfTeam("alerts")}, {"locks", "says", "closes", "clears"})

\* The scopes it offers are props of the page.
CreateAlertDialog == Modal({NotificationsPage}, "resets", ScopeProps, {CreateAlertCall})

(****************************** integrations *******************************)

GithubQueries ==
    {Query(OfTeam("github-app"), "githubApp", {}),
     Query(OfTeam("github-installations"), "githubApp", {})}

\* Connecting goes to GitHub, and changes nothing by itself.
GithubCalls ==
    {Call("connect", {}, {}, Form \cup {"leaves"}),
     Call("disconnect", {"githubApp", "audit"},
          {OfTeam("github-app"), OfTeam("github-installations")},
          {"awaits", "locks", "hushes"})}

GitHubPanel == Screen({IntegrationsPage}, GithubQueries, GithubCalls)

InstallationRow ==
    Screen({IntegrationsPage}, {Query(<<"github-repos", "team", "installation">>, "repos", {})}, {})

RegistriesPanel ==
    Screen({IntegrationsPage}, {Query(OfTeam("registries"), "registries", {})}, {})

RegistryRow ==
    Screen({IntegrationsPage}, {},
           {Call("validate", {"registries"}, {OfTeam("registries")}, Form),
            Call("remove", {"registries", "audit"}, {OfTeam("registries")},
                 {"awaits", "locks", "hushes"})})

\* Nothing resets this dialog: neither closing it nor a save that succeeded.
RegistryDialog ==
    Modal({IntegrationsPage}, "keeps", {},
          {Call("save", {"registries", "audit"}, {OfTeam("registries")}, Form \cup {"closes"})})
=============================================================================
