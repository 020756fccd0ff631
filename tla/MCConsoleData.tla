--------------------------- MODULE MCConsoleData ---------------------------
(***************************************************************************)
(* TLC instance of ConsoleData: every call of a component of either        *)
(* console paired with every view that reads what the call writes.         *)
(***************************************************************************)
EXTENDS ConsoleComponents, ConsoleData

Legacy == INSTANCE WebComponents

\* Every call of a component with every view that reads something the call writes.
CasesOf(components) ==
    UNION {UNION {
        {[by |-> n, call |-> x[1], of |-> m, view |-> x[2], at |-> x[3], seenAt |-> x[4],
          modal |-> components[m].closing # "page"] :
            x \in {x \in components[n].calls \X components[m].views
                          \X components[n].on \X components[m].on :
                      x[2].reads \in x[1].writes}} :
        m \in DOMAIN components} : n \in DOMAIN components}

\* What a component takes from its props is loaded by the pages it is on.
ASSUME PropsAreLoaded ==
    \A n \in DOMAIN Console : \A p \in Console[n].on :
        LoadedBy(p, {v \in Console[n].views : v.kind \cap {"seeded", "props", "copied"} # {}})

\* The cases in which the browser can go on showing what was there before the call, the
\* components of apps/web-v2 first.  Views with keys that no call names:
Unnamed == {"CommandPalette", "ProvisionPlacement", "AuditLogClient"}

\* Components that invalidate queries and do not refresh, so that a page which shows the
\* same data from its props is restored as it was:
Unrefreshed ==
    {"RegisterServerDialog", "SshKeysClient", "GenerateSshKeyDialog", "AddMemberDialog",
     "ClusterMembersClient", "MeshClient", "VolumesClient", "AttachDialog", "ResizeDialog",
     "MoveDialog", "EnvironmentsClient", "DatabaseHeader", "RestoreDialog",
     "DatabasesListClient", "ProvisionDialog", "AutoscaleClient"}

\* And queries whose data is changed from a page that does not know their key:
Unaware ==
    ({"DomainsClient", "ResourcesForm", "PlacementCard", "AutoscaleClient", "ProjectSettingsClient"}
        \X {"AppsListClient"})
    \cup ({"PlacementCard", "AutoscaleClient", "DatabaseHeader", "DatabaseLinksCard", "LinkAppDialog"}
        \X {"DeploymentsClient"})
    \cup ({"DatabaseHeader", "RestoreDialog", "ProvisionDialog"} \X {"SecretsClient"})
    \cup {<<"AutoscaleClient", "ScalingHistory">>, <<"ServerSettingsClient", "ClusterMembersClient">>}

\* The dashboard's feed is refreshed by the calls that refresh, and by nothing else.
Gap(c) ==
    \/ c.of \in Unnamed
    \/ c.by \in Unrefreshed /\ "query" \notin c.view.kind
    \/ <<c.by, c.of>> \in Unaware /\ "query" \in c.view.kind
    \/ c.of = "DashboardFeeds" /\ "refresh" \notin c.call.does
    \/ c.by = "AppSettingsClient" /\ c.view.reads = "dbLinks"
    \/ c.by = "QueryConsoleClient" /\ c.view.reads \in {"dbSchemas", "dbTables"}
    \/ c.call.name = "saveRegistry" /\ c.of = "AppsListClient"

\* In apps/web every view is a query; these have keys that the call does not name: the
\* audit log (but for a change of the team, whose key is around it), the databases to
\* rebind from, the apps to link (an app changed on its own page), the tables after a
\* statement of the query runner, the clusters to choose from after one was deleted,
\* the secrets of a database, and the last deployment of an app linked to one.
WebGap(c) ==
    \/ c.of = "AuditLogPage" /\ c.call.name # "updateTeam"
    \/ c.of = "RebindDialog"
    \/ c.of = "DatabaseLinks" /\ c.view.reads = "apps" /\ c.by # "CreateAppDialog"
    \/ c.by = "QueryRunner" /\ c.of = "TableBrowser"
    \/ c.call.name = "deleteCluster" /\ c.view.reads = "clusters" /\ c.of # "ClustersPage"
    \/ c.by \in {"ProvisionDialog", "RestoreDialog", "DatabaseDetailPage"} /\ c.of = "SecretsTab"
    \/ c.by \in {"DatabaseDetailPage", "DatabaseLinks"} /\ c.view.reads = "deployments"
       /\ "polled" \notin c.view.kind

ProfileOf(c, focused) == Profile(c.call, c.at, c.view, c.seenAt, c.modal, focused)

MCCases ==
    {ProfileOf(c, FALSE) : c \in {x \in CasesOf(Console) : ~Gap(x)}}
    \cup {ProfileOf(c, TRUE) : c \in {x \in CasesOf(Legacy!Web) : ~WebGap(x)}}

\* Outside the gaps the handler of every call reaches every view of what it writes, and
\* in none of the gaps does it.
ASSUME CallsReachViews ==
    /\ \A c \in CasesOf(Console) : Gap(c) <=> ~Covered(ProfileOf(c, FALSE))
    /\ \A c \in CasesOf(Legacy!Web) : WebGap(c) <=> ~Covered(ProfileOf(c, TRUE))
=============================================================================
