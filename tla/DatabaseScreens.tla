-------------------------- MODULE DatabaseScreens --------------------------
(***************************************************************************)
(* The components of apps/web-v2 about managed databases, the metrics'      *)
(* panel, and the dashboard.                                                *)
(***************************************************************************)
EXTENDS AppScreens

DatabasesPage    == Within(ProjectPages, "databases", {"project"}, {"databases", "templates"})
DatabasePage     ==
    Within(ProjectPages, "database", {"database"}, {"dbLinks", "dbRotations", "dbBackups", "apps"})
TopDatabasesPage == Within(Dashboard, "databases", {}, {"projects", "databases"})
QueryPage        == Within(Dashboard, "query", {"database"}, {})
DashboardHome    ==
    Within(Dashboard, "home", {"user"},
           {"servers", "clusters", "projects", "volumes", "audit", "apps", "databases"})

OfDatabase(word) == <<word, "database">>

(***************************** the detail page *****************************)

DatabaseQuery == Query(OfDatabase("database"), "database", {"seeded", "polled"})

DatabaseQueries ==
    {DatabaseQuery,
     Query(OfDatabase("database-links"), "dbLinks", {"seeded"}),
     Query(OfDatabase("database-rotations"), "dbRotations", {"seeded"}),
     Query(OfDatabase("database-backups"), "dbBackups", {"seeded", "polled"})}

\* Start and stop; the list of the project's databases has another key.
Power(name) == Call(name, {"databases", "database"}, {OfDatabase("database")}, {"locks", "says"})

\* A new database: its row, its volume, and the secrets with its passwords.
Provisioned == {"databases", "volumes", "secrets"}

\* The linked apps are deployed again with what the database now gives them.
Redeployed == {"deployments", "replicas"}

\* Restoring in place changes this database, and restoring as new goes to the new one.
RestoreInPlace(name, does) ==
    Call(name, {"databases", "database", "audit"}, {OfDatabase("database")}, does)
RestoreAsNew(name, does) ==
    Call(name, Provisioned \cup {"audit"}, {OfDatabase("database")}, does \cup {"leaves"})

\* Deleting invalidates nothing, and gives the volume back; rotating keeps the new
\* password for its banner.
DatabaseCalls ==
    {Power("start"), Power("stop"),
     Call("remove", {"databases", "volumes"}, {}, {"confirm", "locks", "says", "leaves"}),
     Call("rotate", {"dbRotations", "secrets", "audit"} \cup Redeployed,
          {OfDatabase("database-rotations")}, {"confirm", "locks", "says", "quiets", "plain"}),
     RestoreInPlace("restoreBackup", {"confirm", "rows", "says", "quiets"}),
     RestoreAsNew("restoreAsNew", {"confirm", "rows", "says", "quiets"})}

\* The header with its buttons, and the cards below it.
DatabaseHeader    == Screen({DatabasePage}, DatabaseQueries, DatabaseCalls)
ConnectionCard    == Screen({DatabasePage}, {DatabaseQuery}, {})
DatabaseLinksCard ==
    Screen({DatabasePage},
           {Query(OfDatabase("database-links"), "dbLinks", {"seeded"}), Props("apps")},
           {Call("unlink", {"dbLinks"} \cup Redeployed, {OfDatabase("database-links")},
                 {"confirm", "rows", "locks", "says"})})
DatabaseBackupsCard ==
    Screen({DatabasePage}, {Query(OfDatabase("database-backups"), "dbBackups", {"seeded", "polled"})},
           {Call("createBackup", {"dbBackups", "audit"}, {OfDatabase("database-backups")},
                 {"locks", "says"}),
            Call("removeBackup", {"dbBackups", "audit"}, {OfDatabase("database-backups")},
                 {"confirm", "rows", "says"})})
DatabaseRotationsCard ==
    Screen({DatabasePage}, {Query(OfDatabase("database-rotations"), "dbRotations", {"seeded"})}, {})

\* Closing it, or a link that succeeded, erases the error and keeps the rest.
LinkAppDialog ==
    Modal({DatabasePage}, "error", {Props("apps")},
          {Call("link", {"dbLinks"} \cup Redeployed, {OfDatabase("database-links")},
                {"locks", "says", "quiets", "closes"})})

\* It awaits the promise of the page's restoreBackup, which serves every row.  Success
\* erases the phrase that confirms a restore in place, and not the name of a new one.
RestoreDialogDoes == {"confirm", "rows", "says", "hushes", "closes"}

RestoreDialog ==
    Modal({DatabasePage}, "resets", {},
          {RestoreInPlace("run", RestoreDialogDoes \cup {"clears"}),
           RestoreAsNew("run as new", RestoreDialogDoes)})

(******************************** the list ********************************)

ProjectDatabases == Query(OfProject("project-databases"), "databases", {"seeded", "polled"})

\* Menu items: neither is disabled while its call is pending.
DatabasesListCalls ==
    {Call(name, {"databases", "database"}, {OfProject("project-databases")}, {"rows", "says"}) :
       name \in {"start", "stop"}}
    \cup {Call("remove", {"databases", "volumes"}, {OfProject("project-databases")},
               {"rows", "says", "confirm"})}

DatabasesListClient == Screen({DatabasesPage}, {ProjectDatabases}, DatabasesListCalls)

\* The members of the project's cluster, under a key with the team before the cluster.
PlacementQuery == Query(<<"cluster-members", "team", "cluster">>, "clusterMembers", {})

\* The answer carries the credentials; Continue closes, resets and leaves.
ProvisionCall ==
    Call("create", Provisioned, {OfProject("project-databases")},
         {"locks", "says", "quiets", "plain"})

ProvisionDialog    == Modal({DatabasesPage}, "resets", {}, {ProvisionCall})
ProvisionPlacement == Modal({DatabasesPage}, "resets", {PlacementQuery}, {})

TopDatabasesClient ==
    Screen({TopDatabasesPage}, {Props("databases"), Props("projects")}, {})

(***************************** query console ******************************)

\* History is invalidated, and not the tables that a statement in write mode may have
\* changed; Ctrl+Enter runs whatever the button's state.
RunQuery ==
    Call("run", {"dbHistory", "dbSchemas", "dbTables", "audit"}, {OfDatabase("db-query-history")},
         {"says", "hushes", "quiets"})

QueryConsoleViews ==
    {Query(OfDatabase("db-schemas"), "dbSchemas", {}),
     Query(<<"db-tables", "database", "schema">>, "dbTables", {}),
     Query(OfDatabase("db-query-history"), "dbHistory", {})}

QueryConsoleClient == Screen({QueryPage}, QueryConsoleViews, {RunQuery})

(************************* metrics and dashboard **************************)

MetricsPanel ==
    Screen({ServerOverviewPage},
           {Query(<<"metrics-latest", "team", "server">>, "metrics", {"polled"}),
            Query(<<"metric-range", "team", "server">>, "metrics", {"polled"})}, {})

\* The tiles count what the page loaded; one that could not be loaded counts as empty.
DashboardTiles ==
    Screen({DashboardHome},
           {Props("servers"), Props("clusters"), Props("projects"), Props("apps"),
            Props("databases"), Props("volumes")}, {})
DashboardFeeds == Screen({DashboardHome}, {Props("audit"), Props("servers")}, {})
=============================================================================
