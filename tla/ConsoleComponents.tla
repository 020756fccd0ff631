------------------------- MODULE ConsoleComponents -------------------------
EXTENDS DatabaseScreens

\* The components of the console, by name.
Console ==
    [LoginForm |-> LoginForm, SignupForm |-> SignupForm, ForgotForm |-> ForgotForm,
     ResetForm |-> ResetForm, ResendVerifyClient |-> ResendVerifyClient,
     VerifyClient |-> VerifyClient, AcceptInviteClient |-> AcceptInviteClient,
     GitHubCallbackPage |-> GitHubCallbackPage, UserMenu |-> UserMenu,
     Sidebar |-> Sidebar, Topbar |-> Topbar, TeamSwitcher |-> TeamSwitcher,
     CommandPalette |-> CommandPalette, TeamDetailLayout |-> TeamDetailLayout,
     SettingsClient |-> SettingsClient, TeamsListClient |-> TeamsListClient,
     CreateTeamDialog |-> CreateTeamDialog, TeamSettingsClient |-> TeamSettingsClient,
     MembersTable |-> MembersTable, InvitesTable |-> InvitesTable, InviteMemberDialog |-> InviteMemberDialog,
     TokensClient |-> TokensClient, CreateTokenDialog |-> CreateTokenDialog,
     SecretsClient |-> SecretsClient, CreateSecretDialog |-> CreateSecretDialog,
     RotateSecretDialog |-> RotateSecretDialog, RevealSecretDialog |-> RevealSecretDialog,
     SshKeysClient |-> SshKeysClient, GenerateSshKeyDialog |-> GenerateSshKeyDialog,
     AuditLogClient |-> AuditLogClient, ChannelsSection |-> ChannelsSection,
     AlertRulesSection |-> AlertRulesSection, AlertEventsSection |-> AlertEventsSection,
     CreateChannelDialog |-> CreateChannelDialog, CreateAlertDialog |-> CreateAlertDialog,
     GitHubPanel |-> GitHubPanel, InstallationRow |-> InstallationRow,
     RegistriesPanel |-> RegistriesPanel, RegistryRow |-> RegistryRow,
     RegistryDialog |-> RegistryDialog, RegisterServerDialog |-> RegisterServerDialog,
     ServersClient |-> ServersClient, ServerDetailLayout |-> ServerDetailLayout,
     ServerOverview |-> ServerOverview, ResourcesPanel |-> ResourcesPanel,
     ServerLiveMetrics |-> ServerLiveMetrics,
     LatestRunCard |-> LatestRunCard, StepsPanel |-> StepsPanel,
     ComponentPickerCard |-> ComponentPickerCard,
     ServerSettingsClient |-> ServerSettingsClient, TagsClient |-> TagsClient,
     AddMemberDialog |-> AddMemberDialog, ClusterMembersClient |-> ClusterMembersClient,
     MeshClient |-> MeshClient, ClustersClient |-> ClustersClient,
     CreateClusterDialog |-> CreateClusterDialog,
     ClusterSettingsClient |-> ClusterSettingsClient, ClusterOverview |-> ClusterOverview,
     ClusterDetailLayout |-> ClusterDetailLayout, VolumesClient |-> VolumesClient,
     CreateVolumeDialog |-> CreateVolumeDialog, AttachDialog |-> AttachDialog,
     ResizeDialog |-> ResizeDialog, MoveDialog |-> MoveDialog,
     SnapshotsDialog |-> SnapshotsDialog, ProjectsClient |-> ProjectsClient,
     CreateProjectDialog |-> CreateProjectDialog,
     ProjectDetailLayout |-> ProjectDetailLayout, ProjectOverview |-> ProjectOverview,
     ProjectSettingsClient |-> ProjectSettingsClient,
     EnvironmentsClient |-> EnvironmentsClient, AppsListClient |-> AppsListClient,
     CreateAppDialog |-> CreateAppDialog, GithubSourcePane |-> GithubSourcePane,
     DockerSourcePane |-> DockerSourcePane, AppDetailLayout |-> AppDetailLayout,
     AppOverview |-> AppOverview, AppSettingsClient |-> AppSettingsClient,
     BuildsClient |-> BuildsClient, TriggerBuildDialog |-> TriggerBuildDialog,
     DeploymentsClient |-> DeploymentsClient, DeploymentRow |-> DeploymentRow,
     DomainsClient |-> DomainsClient, DomainsRecords |-> DomainsRecords,
     EnvVarsClient |-> EnvVarsClient, EnvVarDialog |-> EnvVarDialog,
     RevealEnvVarDialog |-> RevealEnvVarDialog,
     ResourcesForm |-> ResourcesForm, AppLogsClient |-> AppLogsClient,
     ReplicasCard |-> ReplicasCard, PlacementCard |-> PlacementCard,
     ScalingHistory |-> ScalingHistory, AutoscaleClient |-> AutoscaleClient,
     CreateRuleDialog |-> CreateRuleDialog, TrafficClient |-> TrafficClient, BackendRow |-> BackendRow,
     DatabaseHeader |-> DatabaseHeader, ConnectionCard |-> ConnectionCard,
     DatabaseLinksCard |-> DatabaseLinksCard, DatabaseBackupsCard |-> DatabaseBackupsCard,
     DatabaseRotationsCard |-> DatabaseRotationsCard, LinkAppDialog |-> LinkAppDialog,
     RestoreDialog |-> RestoreDialog, DatabasesListClient |-> DatabasesListClient,
     ProvisionDialog |-> ProvisionDialog, ProvisionPlacement |-> ProvisionPlacement,
     TopDatabasesClient |-> TopDatabasesClient, QueryConsoleClient |-> QueryConsoleClient,
     MetricsPanel |-> MetricsPanel, DashboardTiles |-> DashboardTiles,
     DashboardFeeds |-> DashboardFeeds]
=============================================================================
