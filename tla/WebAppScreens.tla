--------------------------- MODULE WebAppScreens ---------------------------
(***************************************************************************)
(* The components of apps/web about one application.  Its page is a layout  *)
(* around tabs, of which one is mounted at a time.  Keys are nested: what   *)
(* begins with <<"apps", "app">> belongs to the application.                *)
(***************************************************************************)
EXTENDS WebFleetScreens

AppKey       == <<"apps", "app">>
OfApp(word)  == <<"apps", "app", word>>

AppPage      == Within(App, "app", {}, {})
Tab(word)    == Within(AppPage, word, {}, {})

AppQuery     == Query(AppKey, "app", {})
AppBuilds      == Query(OfApp("builds"), "builds", {"polled"})
AppDeployments == Query(OfApp("deployments"), "deployments", {"polled"})

\* A second look at the deployments, under a key of its own.
LatestDeployment(word) == Query(<<"apps", "app", "deployments", word>>, "deployments", {})

\* One hook for all the rows, whose buttons are disabled while it is pending.
TriggerBuild == Call("triggerBuild", {"builds"}, {OfApp("builds")}, {"locks"})
Rollback     == Call("rollback", {"deployments", "replicas"}, {OfApp("deployments")}, {"locks", "rows"})

AppDetailPage ==
    Screen({AppPage},
           {AppQuery, AppBuilds, AppDeployments,
            Query(<<"apps", "app", "replicas", "observability">>, "replicas", {"polled"})},
           {TriggerBuild, Rollback})

\* Mounted while it is open, so that closing it forgets everything.
EditAppDialog ==
    Modal({AppPage}, "detaches", {},
          {Call("updateApp", {"app", "apps"}, {AppKey}, {"locks", "says", "closes", "clears"})})

DeploymentDetailDialog ==
    Modal({AppPage}, "detaches",
          {Query(<<"apps", "app", "deployments", "deployment", "targets">>, "deployments", {})}, {})

\* A domain that is set or verified changes the app.
DomainsCard ==
    Screen({Tab("overview")}, {LatestDeployment("latest")},
           {Call("setDomain", {"app", "apps"}, {AppKey}, {"locks"}),
            Call("verifyDomain", {"app", "apps"}, {AppKey}, {"locks"})})

ContainerLogsPanel ==
    Screen({Tab("logs")}, {LatestDeployment("for-logs")},
           {Call("cleanup", {"deployments", "replicas"}, {AppKey}, {"locks"})})

\* Looks up nothing but what is asked for; a failure is an empty result.
LogSearchPanel == Screen({Tab("logs")}, {}, {Call("handleSearch", {}, {}, {"locks"})})

Replicas(traits) == Query(OfApp("replicas"), "replicas", traits)

LifecycleControls ==
    Screen({Tab("inspect")}, {Replicas({"polled"}), LatestDeployment("for-lifecycle"), AppQuery},
           {Call("restart", {"replicas"}, {OfApp("replicas")}, {"locks", "rows"}),
            Call("stop", {"replicas"}, {OfApp("replicas")}, {"locks", "rows"})})

\* The interval of LifecycleControls, beside it under the same key, serves it, too.
InspectPanel ==
    Screen({Tab("inspect")}, {Replicas({"polled"}), LatestDeployment("for-inspect"), AppQuery},
           {Call("fetchInspect", {}, {}, {"locks"})})

ScaleApp ==
    Call("scale", {"app", "apps", "deployments", "replicas", "scaling"},
         {AppKey, OfApp("deployments"), OfApp("replicas"), OfApp("scaling-events")},
         {"locks", "says", "quiets"})

\* The panel's one error line is erased by a successful scale only.
RuleCalls ==
    {Call("createRule", {"rules"}, {OfApp("autoscaling-rules")}, {"locks", "says"}),
     Call("evaluateRules", {"app", "apps", "deployments", "replicas", "scaling", "rules"},
          {AppKey, OfApp("deployments"), OfApp("scaling-events"), OfApp("autoscaling-rules")},
          {"locks", "says"})}

ScalingPanel ==
    Screen({Tab("scaling")},
           {Query(OfApp("scaling-events"), "scaling", {"polled"}),
            Query(OfApp("autoscaling-rules"), "rules", {})},
           {ScaleApp} \cup RuleCalls)

\* The split buttons are never disabled.
TrafficPanel ==
    Screen({Tab("traffic")}, {Query(OfApp("traffic"), "traffic", {"polled"})},
           {Call("updateTraffic", {"traffic"}, {OfApp("traffic")}, {"says", "quiets"}),
            Call("promote", {"traffic"}, {OfApp("traffic")}, {"locks", "rows", "says", "quiets"})})

RegistryCredentialPanel ==
    Screen({Tab("resources")}, {Query(OfTeam("registries"), "registries", {})},
           {Call("setRegistry", {"app", "apps"}, {AppKey}, {"locks"})})

ResourceLimitsPanel ==
    Screen({Tab("resources")}, {},
           {Call("updateResources", {"app", "apps"}, {AppKey}, {"locks"})})

MetricKey == <<"observability", "team", "scope", "subject">>

\* Its charts, alerts and events are all polled.
ObservabilityPanel ==
    Screen({Tab("observability"), ServerPage},
           {Query(Append(MetricKey, w), w, {"polled"}) : w \in {"metric", "alerts", "events"}},
           {Call("createAlert", {"alerts"}, {Append(MetricKey, "alerts")}, {"locks"})})

(******************************** projects *********************************)

OfProject(word) == <<"projects", "project", word>>

ProjectsPlace == Within(App, "projects", {}, {})
ProjectPlace  == Within(App, "project", {}, {})

ProjectApps(traits) == Query(OfProject("apps"), "apps", traits)

\* handleClose resets the form on success; the dialog's own way out does not.
ProjectsPage ==
    Screen({ProjectsPlace},
           {Query(OfTeam("projects"), "projects", {"polled"}), Query(OfTeam("clusters"), "clusters", {})}, {})
CreateProjectDialog ==
    Modal({ProjectsPlace}, "keeps", {},
          {Call("createProject", {"projects"}, {OfTeam("projects")},
                {"locks", "says", "closes", "clears"})})

ProjectDetailPage ==
    Screen({ProjectPlace},
           {Query(<<"projects", "project">>, "project", {}),
            Query(OfProject("environments"), "environments", {}), ProjectApps({"polled"})}, {})

CreateEnvironmentDialog ==
    Modal({ProjectPlace}, "keeps", {},
          {Call("createEnvironment", {"environments"}, {OfProject("environments")},
                {"locks", "says", "closes", "clears"})})

CreateAppDialog ==
    Modal({ProjectPlace}, "resets",
          GithubViews \cup {ReposQuery, Query(OfTeam("registries"), "registries", {})},
          {Call("createApp", {"apps"}, {OfProject("apps")}, {"locks", "says", "closes", "clears"})})

(******************************** databases ********************************)

DatabasesPlace == Within(App, "databases", {}, {})
DatabasePlace  == Within(App, "database", {}, {})
DbTab(word)    == Within(DatabasePlace, word, {}, {})
DatabaseKey    == <<"databases", "database">>
Tooling(words) == <<"db-tooling", "database">> \o words

DatabasesPage ==
    Screen({DatabasesPlace},
           {Query(OfProject("databases"), "databases", {"polled"}), Query(<<"templates">>, "templates", {}),
            Query(OfTeam("clusters"), "clusters", {}), Query(OfTeam("servers"), "servers", {})}, {})

\* The credentials of the answer stay until the run has ended and the dialog is closed.
ProvisionDialog ==
    Modal({DatabasesPlace}, "resets", {Query(<<"templates", "template">>, "templates", {})},
          {Call("provision", {"databases", "volumes", "secrets"}, {OfProject("databases")}, {"locks", "says", "plain"})})

\* One error line for the four calls, which none of them erases.
DbPower(name) == Call(name, {"database", "databases"}, {DatabaseKey}, {"locks", "says"})
DatabaseCalls ==
    {DbPower("stop"), DbPower("start"),
     Call("remove", {"databases", "volumes"}, {}, {"locks", "says", "leaves"}),
     Call("rotate", {"rotations", "secrets", "deployments", "replicas", "audit"},
          {<<"rotations", "database">>, DatabaseKey}, {"locks", "says", "plain"}),
     Call("rebind", {"database", "databases", "volumes"}, {DatabaseKey}, {"locks", "rows", "says"})}

DatabaseDetailPage ==
    Screen({DatabasePlace},
           {Query(DatabaseKey, "database", {"polled"}), Query(<<"templates", "template">>, "templates", {}),
            Query(<<"rotations", "database">>, "rotations", {})},
           DatabaseCalls)

\* The databases to take a volume from, asked for while the overlay is open.
RebindDialog ==
    Modal({DbTab("overview")}, "resets",
          {Query(<<"databases", "project", "project">>, "databases", {})}, {})

DatabaseBackups ==
    Screen({DbTab("backups")}, {Query(DatabaseKey \o <<"backups">>, "backups", {"polled"})},
           {Call("create", {"backups", "audit"}, {DatabaseKey \o <<"backups">>},
                 {"locks", "says", "quiets"}),
            Call("remove", {"backups", "audit"}, {DatabaseKey \o <<"backups">>}, {"rows", "says"})})

\* In place, or as a new database with its own volume and secrets.  The error is the
\* page's: neither closing nor success erases it.
RestoreDialog ==
    Modal({DbTab("backups")}, "keeps", {},
          {Call("restore", {"database", "databases", "volumes", "secrets", "audit"},
                {DatabaseKey, OfProject("databases")},
                {"locks", "says", "closes", "empties"})})

DatabaseLinks ==
    Screen({DbTab("links")}, {Query(Tooling(<<"links">>), "links", {}), ProjectApps({})},
           {Call("link", {"links", "deployments", "replicas"}, {Tooling(<<"links">>)},
                 {"locks", "says", "clears"}),
            Call("unlink", {"links", "deployments", "replicas"}, {Tooling(<<"links">>)},
                 {"locks", "rows", "says"})})

\* In write mode a query changes what the table browser shows.
QueryRunner ==
    Screen({DbTab("query")},
           {Query(Tooling(<<"history">>), "history", {}),
            Query(<<"db-tooling", "project", "saved">>, "savedQueries", {})},
           {Call("runQuery", {"history", "rows", "audit"}, {Tooling(<<"history">>)},
                 {"locks", "says", "quiets"})})

SaveQueryDialog ==
    Modal({DbTab("query")}, "keeps", {},
          {Call("saveQuery", {"savedQueries"}, {<<"db-tooling", "project", "saved">>},
                {"locks", "says", "closes", "empties"})})

TableBrowser ==
    Screen({DbTab("tables")},
           {Query(Tooling(<<"schemas">>), "rows", {}), Query(Tooling(<<"tables", "schema">>), "rows", {}),
            Query(Tooling(<<"rows", "schema", "table">>), "rows", {})}, {})

MongoBrowser ==
    Screen({DbTab("mongo")},
           {Query(Tooling(<<"mongo", "collections">>), "documents", {}),
            Query(Tooling(<<"mongo", "find", "collection">>), "documents", {})}, {})

RedisInspector ==
    Screen({DbTab("redis")},
           {Query(Tooling(<<"redis", "key", "key">>), "keys", {}),
            Query(Tooling(<<"redis", "info">>), "redisInfo", {"polled"}),
            Query(Tooling(<<"redis", "config">>), "redisConfig", {"polled"})},
           {Call("scan", {}, {}, {"locks", "says", "quiets"})})
=============================================================================
