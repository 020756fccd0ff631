----------------------------- MODULE AppScreens -----------------------------
(***************************************************************************)
(* The components of apps/web-v2 about projects, their environments and     *)
(* their apps.                                                              *)
(***************************************************************************)
EXTENDS FleetScreens

ProjectsPage        == Within(Dashboard, "projects", {}, {"projects", "clusters"})
ProjectPages        == Within(Dashboard, "project", {"project"}, {"clusters"})
ProjectOverviewPage == Within(ProjectPages, "overview", {"project"}, {"apps", "environments"})
ProjectSettingsPage == Within(ProjectPages, "settings", {"project"}, {})
EnvironmentsPage    == Within(ProjectPages, "environments", {}, {"environments"})
AppsPage            == Within(ProjectPages, "apps", {}, {"apps"})

AppPages        == Within(Dashboard, "app", {"app"}, {"project"})
AppOverviewPage == Within(AppPages, "overview", {"app"}, {})
AppSettingsPage == Within(AppPages, "settings", {"app"}, {"project"})
BuildsPage      == Within(AppPages, "builds", {"app"}, {"builds", "environments"})
DeploymentsPage == Within(AppPages, "deployments", {"app"}, {"deployments", "environments"})
DomainsPage     ==
    Within(AppPages, "domains", {"app"}, {"deployments", "project", "clusterMembers", "servers"})
VariablesPage   == Within(AppPages, "variables", {"app"}, {"environments"})
AppResourcesPage == Within(AppPages, "resources", {"app"}, {})
LogsPage        == Within(AppPages, "logs", {"app"}, {"replicas"})
ScalePage       ==
    Within(AppPages, "scale", {"app"}, {"project", "clusterMembers", "scalingEvents"})
AutoscalingPage == Within(AppPages, "autoscaling", {"app"}, {"rules"})
TrafficPage     == Within(AppPages, "traffic", {"app"}, {"traffic"})

OfProject(word) == <<word, "project">>
OfApp(word)     == <<word, "app">>

(********************************* projects ********************************)

ProjectsClient ==
    Screen({ProjectsPage},
           {Query(OfTeam("projects"), "projects", {"seeded"}), Props("clusters")}, {})

CreateProjectDialog ==
    Modal({ProjectsPage}, "resets", {Props("clusters")},
          {Call("create", {"projects"}, {OfTeam("projects")},
                Form \cup {"closes", "clears", "leaves", "refresh"})})

ProjectDetailLayout == Screen({ProjectPages}, {Props("project"), Props("clusters")}, {})

ProjectOverview ==
    Screen({ProjectOverviewPage},
           {Props("project"), Props("apps"), Props("environments")}, {})

ProjectSettingsClient ==
    Screen({ProjectSettingsPage}, {Copied("project")},
           {Call("save", {"projects", "project"}, {OfTeam("projects")}, Form \cup {"refresh"}),
            Call("remove", {"projects", "apps", "databases"}, {OfTeam("projects")},
                 {"confirm", "says", "leaves", "refresh"})})

EnvironmentsClient ==
    Screen({EnvironmentsPage},
           {Query(OfProject("project-environments"), "environments", {"seeded"})},
           {Call("create", {"environments"}, {OfProject("project-environments")},
                 Form \cup {"clears"})})

AppsListClient ==
    Screen({AppsPage}, {Query(OfProject("project-apps"), "apps", {"seeded"})}, {})

(******************************* a new app ********************************)

GithubViews ==
    {Query(OfTeam("github-installations"), "githubApp", {}),
     Query(<<"github-repos", "team", "installation">>, "repos", {})}

\* Asked for when an image has been chosen.
DockerTagsQuery == Query(<<"docker-tags", "image">>, "dockerHub", {})

CreateAppCall ==
    Call("create", {"apps"}, {OfProject("project-apps")},
         Form \cup {"closes", "clears", "leaves", "refresh"})

\* The dialog, and the panes of its two sources.
CreateAppDialog  == Modal({AppsPage}, "resets", {}, {CreateAppCall})
GithubSourcePane == Modal({AppsPage}, "resets", GithubViews, {})
DockerSourcePane == Modal({AppsPage}, "resets", {DockerTagsQuery}, {})

(******************************** an app **********************************)

AppDetailLayout == Screen({AppPages}, {Props("app"), Props("project")}, {})

AppOverview ==
    Screen({AppOverviewPage}, {Copied("app")},
           {Call("save", {"apps", "app"}, {OfProject("project-apps"), OfApp("app")},
                 Form \cup {"refresh"})})

AppSettingsClient ==
    Screen({AppSettingsPage},
           {Props("app"), Query(OfTeam("registries"), "registries", {})},
           {Call("saveRegistry", {"apps", "app"}, {OfApp("app")}, {"locks", "says", "quiets", "refresh"}),
            Call("remove", {"apps", "dbLinks"}, {OfProject("project-apps")},
                 {"confirm", "says", "leaves", "refresh"})})

BuildsClient ==
    Screen({BuildsPage},
           {Query(OfApp("app-builds"), "builds", {"seeded"}), Props("environments")}, {})

TriggerBuildDialog ==
    Modal({BuildsPage}, "resets", {Props("environments")},
          {Call("fire", {"builds"}, {OfApp("app-builds")},
                {"locks", "says", "closes", "clears", "refresh"})})

DeploymentsClient ==
    Screen({DeploymentsPage},
           {Query(OfApp("app-deployments"), "deployments", {"seeded"}), Props("environments")},
           {Call("rollback", {"deployments", "replicas"},
                 {OfApp("app-deployments"), OfApp("app-builds")}, {"confirm", "says", "hushes"})})

\* The targets of a deployment are queried when its row is opened.
DeploymentRow ==
    Modal({DeploymentsPage}, "keeps", {Query(<<"deployment-targets", "deployment">>, "targets", {})}, {})

\* The three calls share one error line; only set and verify erase it.
DomainCalls ==
    {Call("set", {"apps", "app"}, {OfApp("app")}, Form \cup {"refresh"}),
     Call("verify", {"apps", "app"}, {OfApp("app")}, Form \cup {"refresh"}),
     Call("remove", {"apps", "app"}, {OfApp("app")}, {"confirm", "locks", "says", "refresh"})}

\* The card with the hostname's form, and the cards with the URL and the DNS records.
DomainsClient  == Screen({DomainsPage}, {Copied("app")}, DomainCalls)
DomainsRecords == Screen({DomainsPage}, {Props("app"), Props("servers")}, {})

\* One key per environment; the calls invalidate them all.
EnvVarsQuery == Query(<<"app-env-vars", "app", "environment">>, "envVars", {})
RemoveEnvVar == Call("remove", {"envVars", "audit"}, {OfApp("app-env-vars")}, RowConfirm)

EnvVarsClient ==
    Screen({VariablesPage}, {EnvVarsQuery, Props("environments")}, {RemoveEnvVar})

EnvVarDialog ==
    Modal({VariablesPage}, "resets", {},
          {Call("save", {"envVars", "audit"}, {OfApp("app-env-vars")},
                Form \cup {"closes", "clears"})})

\* Mutant: closing wipes what is shown, and forgets the call under way.
RevealEnvVarDialogWiped ==
    Modal({VariablesPage}, "resets", {}, {Call("reveal", {}, {}, {"opens", "plain", "says", "hushes"})})

\* Opening it reveals the value, closing it resets the hook.
RevealEnvVarDialog ==
    Modal({VariablesPage}, "detaches", {}, {Call("reveal", {}, {}, {"opens", "plain", "says", "hushes"})})

ResourcesForm ==
    Screen({AppResourcesPage}, {Copied("app")},
           {Call("save", {"apps", "app"}, {OfApp("app")}, Form \cup {"refresh"})})

AppLogsClient ==
    Screen({LogsPage}, {Query(OfApp("app-replicas"), "replicas", {"seeded", "polled"})}, {})

(******************************** scaling *********************************)

ScalingEventsQuery == Query(OfApp("scaling-events"), "scalingEvents", {"seeded"})

\* What ScaleApp changes: the app, a deployment of it, and the history.
Scaled == {"apps", "app", "deployments", "replicas", "scalingEvents"}

\* Scaling down goes through a ConfirmDialog, scaling up through the form.
ScaleCalls ==
    {Call(name, Scaled, {OfApp("app"), OfApp("scaling-events")},
          extra \cup {"locks", "says", "refresh"}) :
       <<name, extra>> \in {<<"scale up", {"hushes"}>>, <<"scale down", {"confirm"}>>}}

\* The card that sets the replicas, the one that places and applies, and the history.
ReplicasCard   == Screen({ScalePage}, {Props("app")}, {})
PlacementCard  == Screen({ScalePage}, {Copied("app"), Props("clusterMembers")}, ScaleCalls)
ScalingHistory == Screen({ScalePage}, {ScalingEventsQuery}, {})

RulesQuery == Query(OfApp("autoscaling-rules"), "rules", {"seeded"})

\* An evaluation scales the app if a rule is met.
AutoscaleCalls ==
    {Call("remove", {"rules"}, {OfApp("autoscaling-rules")}, {"confirm", "rows", "says"}),
     Call("evaluate", Scaled \cup {"rules"}, {OfApp("autoscaling-rules")},
          {"locks", "says", "quiets"})}

AutoscaleClient == Screen({AutoscalingPage}, {RulesQuery}, AutoscaleCalls)

CreateRuleCall ==
    Call("create", {"rules"}, {OfApp("autoscaling-rules")}, {"locks", "says", "closes", "clears"})

CreateRuleDialog == Modal({AutoscalingPage}, "resets", {}, {CreateRuleCall})

(******************************** traffic *********************************)

TrafficQuery == Query(OfApp("traffic"), "traffic", {"seeded", "polled"})

\* The answers are put into the cache; the draft of the weights is not modelled.
SaveWeights ==
    Call("save", {"traffic"}, {OfApp("traffic")}, {"puts", "locks", "says", "quiets"})

PromoteBackend ==
    Call("promote", {"traffic"}, {OfApp("traffic")}, {"puts", "awaits", "rows", "says", "quiets"})

TrafficClient == Screen({TrafficPage}, {TrafficQuery}, {SaveWeights})

\* The row's dialog does not wait; only the row's own trigger shows the call.
BackendRow == Screen({TrafficPage}, {TrafficQuery}, {PromoteBackend})
=============================================================================
