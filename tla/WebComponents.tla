--------------------------- MODULE WebComponents ---------------------------
EXTENDS WebAppScreens

\* The components of apps/web, by name.
Web ==
    [LoginPage |-> LoginPage, SignupPage |-> SignupPage,
     ForgotPasswordPage |-> ForgotPasswordPage, ResetPasswordPage |-> ResetPasswordPage,
     VerifyEmailPage |-> VerifyEmailPage, GitHubCallbackPage |-> GitHubCallbackPage,
     AppLayout |-> AppLayout, DashboardPage |-> DashboardPage, TeamsPage |-> TeamsPage,
     CreateTeamDialog |-> CreateTeamDialog, TeamDetailPage |-> TeamDetailPage,
     TeamSettingsPage |-> TeamSettingsPage, TokensPage |-> TokensPage,
     CreateTokenDialog |-> CreateTokenDialog, AuditLogPage |-> AuditLogPage,
     SSHKeysPage |-> SSHKeysPage, GenerateKeyDialog |-> GenerateKeyDialog,
     ImportKeyDialog |-> ImportKeyDialog, DeleteKeyDialog |-> DeleteKeyDialog,
     GitHubTab |-> GitHubTab, DisconnectDialog |-> DisconnectDialog,
     InstallationRow |-> InstallationRow, RegistriesTab |-> RegistriesTab,
     AddRegistryDialog |-> AddRegistryDialog, DeleteRegistryDialog |-> DeleteRegistryDialog,
     SecretsTab |-> SecretsTab, AddSecretDialog |-> AddSecretDialog,
     UpdateSecretDialog |-> UpdateSecretDialog, DeleteSecretDialog |-> DeleteSecretDialog,
     ServersPage |-> ServersPage, AddServerDialog |-> AddServerDialog,
     RenameDialog |-> RenameDialog, DeleteServerDialog |-> DeleteServerDialog,
     ServerDetailPage |-> ServerDetailPage, ClustersPage |-> ClustersPage,
     CreateClusterDialog |-> CreateClusterDialog, ClusterDetailPage |-> ClusterDetailPage,
     AddMemberDialog |-> AddMemberDialog, VolumesPage |-> VolumesPage,
     CreateVolumeDialog |-> CreateVolumeDialog, AppDetailPage |-> AppDetailPage,
     EditAppDialog |-> EditAppDialog, DeploymentDetailDialog |-> DeploymentDetailDialog,
     DomainsCard |-> DomainsCard, ContainerLogsPanel |-> ContainerLogsPanel,
     LogSearchPanel |-> LogSearchPanel, LifecycleControls |-> LifecycleControls,
     InspectPanel |-> InspectPanel, ScalingPanel |-> ScalingPanel,
     TrafficPanel |-> TrafficPanel, RegistryCredentialPanel |-> RegistryCredentialPanel,
     ResourceLimitsPanel |-> ResourceLimitsPanel, ObservabilityPanel |-> ObservabilityPanel,
     ProjectsPage |-> ProjectsPage, CreateProjectDialog |-> CreateProjectDialog,
     ProjectDetailPage |-> ProjectDetailPage,
     CreateEnvironmentDialog |-> CreateEnvironmentDialog, CreateAppDialog |-> CreateAppDialog,
     DatabasesPage |-> DatabasesPage, ProvisionDialog |-> ProvisionDialog,
     DatabaseDetailPage |-> DatabaseDetailPage, RebindDialog |-> RebindDialog,
     DatabaseBackups |-> DatabaseBackups, RestoreDialog |-> RestoreDialog,
     DatabaseLinks |-> DatabaseLinks, QueryRunner |-> QueryRunner,
     SaveQueryDialog |-> SaveQueryDialog, TableBrowser |-> TableBrowser,
     MongoBrowser |-> MongoBrowser, RedisInspector |-> RedisInspector]
=============================================================================
