--------------------------- MODULE MCConsoleForms ---------------------------
(***************************************************************************)
(* Every call of every component of the consoles. The calls named below are *)
(* the ones that are known to lack a property of ConsoleForms, each for its *)
(* own reason; every other call is held to all of them.                     *)
(***************************************************************************)
EXTENDS ConsoleComponents, ConsoleForms

\* One hook serves all the rows and nothing is disabled while it is pending: a second
\* row's call takes the callbacks that the first row's dialog awaits.
Waits ==
    {<<"AlertRulesSection", "removeAlert">>, <<"VolumesClient", "remove">>,
     <<"AutoscaleClient", "remove">>, <<"DatabaseBackupsCard", "removeBackup">>,
     <<"DatabasesListClient", "remove">>, <<"DatabaseHeader", "restoreBackup">>,
     <<"DatabaseHeader", "restoreAsNew">>, <<"RestoreDialog", "run">>, <<"RestoreDialog", "run as new">>}

\* The error line is erased neither by another try nor by a success; in the query
\* console a slow failure can also overwrite the result of a later run.
Shows ==
    {<<"AlertRulesSection", "removeAlert">>, <<"AlertRulesSection", "evaluate">>,
     <<"VolumesClient", "remove">>, <<"VolumesClient", "detach">>,
     <<"AttachDialog", "attach">>, <<"ResizeDialog", "resize">>, <<"MoveDialog", "move">>,
     <<"AutoscaleClient", "remove">>, <<"DomainsClient", "remove">>,
     <<"PlacementCard", "scale down">>,
     <<"DatabaseHeader", "start">>, <<"DatabaseHeader", "stop">>,
     <<"DatabaseBackupsCard", "createBackup">>, <<"DatabaseBackupsCard", "removeBackup">>,
     <<"DatabaseLinksCard", "unlink">>, <<"DatabasesListClient", "start">>,
     <<"DatabasesListClient", "stop">>, <<"DatabasesListClient", "remove">>,
     <<"QueryConsoleClient", "run">>}

\* Success, or a Done button, closes the dialog without resetting its form.
Holds ==
    {<<"CreateTokenDialog", "create">>, <<"GenerateSshKeyDialog", "generate">>,
     <<"RegistryDialog", "save">>, <<"AddMemberDialog", "add">>, <<"AttachDialog", "attach">>,
     <<"ResizeDialog", "resize">>, <<"MoveDialog", "move">>, <<"LinkAppDialog", "link">>,
     <<"RestoreDialog", "run as new">>}

\* A plaintext outlives the dialog that showed it, or comes when it has been closed.
Leaks ==
    {<<"CreateTokenDialog", "create">>, <<"GenerateSshKeyDialog", "generate">>,
     <<"RevealSecretDialog", "reveal">>, <<"ProvisionDialog", "create">>}

(******************************** apps/web *********************************)

Legacy == INSTANCE WebComponents

\* One error line for several calls that none of them erases, or only one does; the
\* split buttons of the traffic panel can overtake one another.
WebShows ==
    {<<"ScalingPanel", "createRule">>, <<"ScalingPanel", "evaluateRules">>,
     <<"TrafficPanel", "updateTraffic">>, <<"DatabaseDetailPage", "start">>,
     <<"DatabaseDetailPage", "stop">>, <<"DatabaseDetailPage", "rotate">>,
     <<"DatabaseDetailPage", "rebind">>, <<"DatabaseLinks", "unlink">>,
     <<"DatabaseBackups", "remove">>, <<"RestoreDialog", "restore">>,
     <<"SaveQueryDialog", "saveQuery">>, <<"ProvisionDialog", "provision">>}

\* onOpenChange is setOpen: only a success resets the form.
WebHolds ==
    {<<"CreateTeamDialog", "createTeam">>, <<"CreateTokenDialog", "createToken">>,
     <<"GenerateKeyDialog", "generateKey">>, <<"RenameDialog", "renameServer">>,
     <<"CreateClusterDialog", "createCluster">>, <<"AddMemberDialog", "addMember">>,
     <<"CreateVolumeDialog", "createVolume">>, <<"CreateProjectDialog", "createProject">>,
     <<"CreateEnvironmentDialog", "createEnvironment">>, <<"RestoreDialog", "restore">>,
     <<"SaveQueryDialog", "saveQuery">>}

\* The answer comes when the dialog has been closed.
WebLeaks == {<<"CreateTokenDialog", "createToken">>, <<"ProvisionDialog", "provision">>}

(*********************************** cases *********************************)

\* The words for the lists that a call of a component is on.
Flaws(call, waits, shows, holds, leaks) ==
    {w \in {"waits", "shows", "holds", "leaks"} :
        call \in (CASE w = "waits" -> waits [] w = "shows" -> shows
                    [] w = "holds" -> holds [] w = "leaks" -> leaks)}

ConsoleCases ==
    UNION {{Profile(c, Console[n].closing, Flaws(<<n, c.name>>, Waits, Shows, Holds, Leaks)) :
              c \in Console[n].calls} : n \in DOMAIN Console}

WebCases ==
    UNION {{Profile(c, Legacy!Web[n].closing, Flaws(<<n, c.name>>, {}, WebShows, WebHolds, WebLeaks)) :
              c \in Legacy!Web[n].calls} : n \in DOMAIN Legacy!Web}

MCCases == ConsoleCases \cup WebCases
=============================================================================
