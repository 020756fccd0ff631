---------------------------- MODULE FleetScreens ----------------------------
(***************************************************************************)
(* The components of apps/web-v2 about servers, clusters and volumes.       *)
(***************************************************************************)
EXTENDS TeamScreens

ServersPage   == Within(Dashboard, "servers", {}, {"servers", "sshKeys"})
ClustersPage  == Within(Dashboard, "clusters", {}, {"clusters"})
VolumesPage   == Within(Dashboard, "volumes", {}, {"volumes", "clusters", "servers"})

ServerPages          == Within(Dashboard, "server", {"server"}, {})
ServerOverviewPage   == Within(ServerPages, "overview", {"server"}, {})
ServerResourcesPage  == Within(ServerPages, "resources", {"server"}, {})
ServerSettingsPage   == Within(ServerPages, "settings", {"server"}, {})
ServerTagsPage       == Within(ServerPages, "tags", {}, {"tags"})
ProvisioningPage     == Within(ServerPages, "provisioning", {"server"}, {"provisioning"})

ClusterPages         == Within(Dashboard, "cluster", {"cluster"}, {})
ClusterOverviewPage  == Within(ClusterPages, "overview", {"cluster"}, {"clusterMembers"})
ClusterMembersPage   == Within(ClusterPages, "members", {}, {"clusterMembers", "servers"})
ClusterMeshPage      == Within(ClusterPages, "mesh", {}, {"mesh"})
ClusterSettingsPage  == Within(ClusterPages, "settings", {"cluster"}, {})

OfServer(word)  == <<word, "team", "server">>
OfCluster(word) == <<word, "cluster">>

\* Both queries about a cluster's members.
Membership == {OfCluster("cluster-members"), OfCluster("cluster-mesh")}

(********************************* servers *********************************)

\* After registering, the browser goes on to the provisioning page of the new server.
RegisterServerCall ==
    Call("create", {"servers", "audit"}, {OfTeam("servers")},
         Form \cup {"closes", "clears", "leaves"})

RegisterServerDialog == Modal({ServersPage}, "resets", {Props("sshKeys")}, {RegisterServerCall})

ServersClient == Screen({ServersPage}, {Query(OfTeam("servers"), "servers", {"seeded"})}, {})

ServerDetailLayout == Screen({ServerPages}, {Props("server")}, {})
ServerOverview     == Screen({ServerOverviewPage}, {Props("server")}, {})
ResourcesPanel     == Screen({ServerResourcesPage}, {Props("server")}, {})

ServerLiveMetrics ==
    Screen({ServerOverviewPage}, {Query(OfServer("server-metrics"), "metrics", {"polled"})}, {})

ProvisioningJob == <<"server-provisioning-job", "server">>

ProvisioningQuery == Query(ProvisioningJob, "provisioning", {"seeded", "polled"})

\* One error line for both hooks, erased by the next success only.
Provisioning(name) ==
    Call(name, {"provisioning", "audit"}, {ProvisioningJob}, {"locks", "says", "quiets"})

StartProvisioning == Provisioning("start")
RetryProvisioning == Provisioning("retry")

LatestRunCard       == Screen({ProvisioningPage}, {ProvisioningQuery}, {RetryProvisioning})
StepsPanel          == Screen({ProvisioningPage}, {ProvisioningQuery}, {})
ComponentPickerCard == Screen({ProvisioningPage}, {Props("server")}, {StartProvisioning})

\* A save of the settings: its own error line, the page refreshed.
SaveServer(name, more) ==
    Call(name, {"servers", "server", "audit"} \cup more, {OfTeam("servers")}, Form \cup {"refresh"})

\* The members of a cluster and the peers of its mesh carry the server's address, and go
\* with the server, as do its volumes and databases.
ServerSettingsCalls ==
    {SaveServer("rename", {}), SaveServer("updateRole", {}),
     SaveServer("updateConn", {"clusterMembers", "mesh"}),
     Call("remove", {"servers", "clusterMembers", "mesh", "volumes", "databases", "audit"},
          {OfTeam("servers")}, {"confirm", "says", "leaves", "refresh"})}

ServerSettingsClient ==
    Screen({ServerSettingsPage}, {Copied("server")}, ServerSettingsCalls)

\* A failed removal of a tag is shown nowhere.
TagsClient ==
    Screen({ServerTagsPage}, {Query(OfServer("server-tags"), "tags", {"seeded"})},
           {Call("set", {"tags"}, {OfServer("server-tags")}, Form \cup {"clears"}),
            Call("remove", {"tags"}, {OfServer("server-tags")}, {"locks", "rows"})})

(********************************* clusters ********************************)

\* The candidates are the page's servers without the members the parent queries.
AddMemberDialog ==
    Modal({ClusterMembersPage}, "resets", {Props("servers")},
          {Call("add", {"clusterMembers", "mesh", "audit"}, Membership,
                {"locks", "says", "quiets", "closes"})})

ClusterMembersClient ==
    Screen({ClusterMembersPage},
           {Query(OfCluster("cluster-members"), "clusterMembers", {"seeded"})},
           {Call("remove", {"clusterMembers", "mesh", "audit"}, Membership, RowConfirm)})

MeshClient ==
    Screen({ClusterMeshPage},
           {Query(OfCluster("cluster-mesh"), "mesh", {"seeded", "polled"})},
           {Call("regenerate", {"mesh", "clusterMembers"}, Membership, Form \cup {"confirm"})})

ClustersClient ==
    Screen({ClustersPage}, {Query(OfTeam("clusters"), "clusters", {"seeded"})}, {})

CreateClusterDialog ==
    Modal({ClustersPage}, "resets", {},
          {Call("create", {"clusters", "audit"}, {OfTeam("clusters")},
                Form \cup {"closes", "clears", "leaves", "refresh"})})

ClusterSettingsClient ==
    Screen({ClusterSettingsPage}, {Copied("cluster")},
           {Call("save", {"clusters", "cluster"}, {OfTeam("clusters")}, Form \cup {"refresh"}),
            Call("remove", {"clusters", "volumes", "audit"}, {OfTeam("clusters")},
                 {"confirm", "says", "leaves", "refresh"})})

ClusterOverview ==
    Screen({ClusterOverviewPage}, {Props("cluster"), Props("clusterMembers")}, {})
ClusterDetailLayout == Screen({ClusterPages}, {Props("cluster")}, {})

(********************************* volumes *********************************)

VolumesQuery == Query(OfTeam("volumes"), "volumes", {"seeded", "polled"})

\* Menu items, never disabled, and one error line that nothing erases.
VolumesCalls ==
    {Call("detach", {"volumes"}, {OfTeam("volumes")}, {"says", "rows"}),
     Call("remove", {"volumes"}, {OfTeam("volumes")}, {"says", "rows", "confirm"})}

\* The rows name servers and clusters from the page's props.
VolumesClient ==
    Screen({VolumesPage}, {VolumesQuery, Props("servers"), Props("clusters")}, VolumesCalls)

CreateVolumeCall ==
    Call("create", {"volumes"}, {OfTeam("volumes")},
         {"locks", "says", "closes", "clears", "refresh"})

CreateVolumeDialog ==
    Modal({VolumesPage}, "resets", {Props("servers"), Props("clusters")}, {CreateVolumeCall})

\* Success only calls setOpen(false): what was typed, and an old error, stay.
VolumeDialog(name, closing) ==
    Modal({VolumesPage}, closing, {},
          {Call(name, {"volumes"}, {OfTeam("volumes")}, {"locks", "says", "closes"})})

AttachDialog == VolumeDialog("attach", "resets")
ResizeDialog == VolumeDialog("resize", "resets")
MoveDialog   == VolumeDialog("move", "error")

\* Nothing is typed into it, and a failed snapshot is shown nowhere.
SnapshotsDialog ==
    Modal({VolumesPage}, "resets", {Query(<<"volume-snapshots", "volume">>, "snapshots", {"polled"})},
          {Call("create", {"snapshots"}, {<<"volume-snapshots", "volume">>}, {"locks"})})
=============================================================================
