-------------------------- MODULE WebFleetScreens --------------------------
(***************************************************************************)
(* The components of apps/web about servers, clusters and volumes.          *)
(***************************************************************************)
EXTENDS WebTeamScreens

ServersPlace  == Within(App, "servers", {}, {})
ServerPage    == Within(App, "server", {}, {})
ClustersPlace == Within(App, "clusters", {}, {})
ClusterPlace  == Within(App, "cluster", {}, {})
VolumesPlace  == Within(App, "volumes", {}, {})

ServerKey        == <<"teams", "team", "servers", "server">>
OfServer(word)   == Append(ServerKey, word)
ClusterKey       == <<"teams", "team", "clusters", "cluster">>
OfCluster(word)  == Append(ClusterKey, word)

Servers(traits)  == Query(OfTeam("servers"), "servers", traits)
Clusters(traits) == Query(OfTeam("clusters"), "clusters", traits)

(********************************* servers *********************************)

ServersPage ==
    Screen({ServersPlace}, {Servers({"polled"}), Query(OfTeam("ssh-keys"), "sshKeys", {})}, {})

\* Two steps, one form: going to the second erases the error, too.
AddServerDialog ==
    Modal({ServersPlace}, "resets", {},
          {Call("addServer", {"servers", "audit"}, {OfTeam("servers")},
                Form \cup {"closes", "clears"})})

\* The name typed is overwritten whenever the polled server has changed.
RenameDialog ==
    Modal({ServerPage}, "resets", {},
          {Call("renameServer", {"servers", "server", "audit"}, {OfTeam("servers"), ServerKey},
                {"locks", "says", "quiets", "closes"})})

\* Nothing is typed into it, and it goes with the page.  A server takes its places in
\* clusters, its volumes and its databases along.
DeleteServerDialog ==
    Modal({ServerPage}, "resets", {},
          {Call("deleteServer", {"servers", "clusterMembers", "mesh", "volumes", "databases", "audit"},
                {OfTeam("servers")}, {"locks", "leaves"})})

\* Both start a job, whose log is then followed.
JobCalls ==
    {Call(n, {"latestJob", "audit"}, {OfServer("latest-job")}, {"locks"}) :
        n \in {"startProvisioning", "updateAgent"}}

TagCalls ==
    {Call("addTag", {"tags"}, {OfServer("tags")}, {"locks", "clears"}),
     Call("deleteTag", {"tags"}, {OfServer("tags")}, {"locks", "rows"})}

ServerViews ==
    {Query(ServerKey, "server", {"polled"}), Query(OfServer("tags"), "tags", {}),
     Query(OfServer("latest-job"), "latestJob", {"polled"})}

ServerDetailPage ==
    Screen({ServerPage}, ServerViews,
           JobCalls \cup TagCalls \cup {Call("cleanupServer", {"server", "audit"}, {ServerKey}, {"locks"})})

(********************************* clusters ********************************)

ClustersPage == Screen({ClustersPlace}, {Clusters({"polled"})}, {})

\* handleClose resets the form on success; the dialog's own way out does not.
CreateClusterDialog ==
    Modal({ClustersPlace}, "keeps", {},
          {Call("createCluster", {"clusters", "audit"}, {OfTeam("clusters")},
                {"locks", "says", "closes", "clears"})})

ClusterViews ==
    {Query(ClusterKey, "cluster", {"polled"}), Query(OfCluster("members"), "clusterMembers", {"polled"}),
     Query(OfCluster("mesh"), "mesh", {"polled"}), Query(OfCluster("events"), "meshEvents", {}),
     Servers({})}

\* A cluster that is deleted is left without a word to the list of clusters.
\* Regenerating the mesh is not locked.
ClusterDetailPage ==
    Screen({ClusterPlace}, ClusterViews,
           {Call("removeMember", {"clusterMembers", "mesh", "meshEvents", "audit"}, {ClusterKey},
                 {"locks", "rows"}),
            Call("regenerate", {"mesh", "meshEvents"}, {ClusterKey}, {}),
            Call("deleteCluster", {"clusters", "volumes", "audit"}, {}, {"locks", "leaves"})})

\* Escape keeps the choice and the error; Cancel would erase the error.
AddMemberDialog ==
    Modal({ClusterPlace}, "keeps", {},
          {Call("addMember", {"clusterMembers", "mesh", "meshEvents", "audit"}, {ClusterKey},
                {"locks", "says", "closes", "clears"})})

(********************************* volumes *********************************)

VolumesPage ==
    Screen({VolumesPlace},
           {Query(OfTeam("volumes"), "volumes", {"polled"}), Clusters({}), Servers({})}, {})

CreateVolumeDialog ==
    Modal({VolumesPlace}, "keeps", {},
          {Call("createVolume", {"volumes"}, {OfTeam("volumes")},
                {"locks", "says", "closes", "clears"})})
=============================================================================
