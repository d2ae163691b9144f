------------------------------ MODULE IpcCommands ------------------------------
(***************************************************************************)
(* The handlers of IpcServer, by what they may do and what they answer.    *)
(* A reply says whether the command took effect and whether the answer is  *)
(* a success.  What a handler reads or changes is left out, except for the *)
(* two things other handlers look at: whether the client for file          *)
(* operations is signed in, and the mode that answers with mock data.      *)
(* The server, SSH and VPN tools may fail at any time; a request may have  *)
(* taken effect though its answer was lost.                                *)
(***************************************************************************)

Reply(does, says) == [does |-> does, says |-> says]
ReplySet == [does : BOOLEAN, says : {"ok", "error"}]

\* Refused before anything is done: a field is missing, nobody is signed in, an exception.
Refused == {Reply(FALSE, "error")}
\* The answer is read from somewhere, or that fails.
Reads == {Reply(FALSE, "ok")} \union Refused
\* The result of the operation is the answer; an exception may follow the effect.
Reports == {Reply(TRUE, "ok"), Reply(TRUE, "error")} \union Refused

IfSignedIn(signedIn, replies) == IF signedIn THEN replies ELSE Refused
FromServer(signedIn, mock) == IF mock THEN {Reply(FALSE, "ok")} ELSE IfSignedIn(signedIn, Reads)

-----------------------------------------------------------------------------
(* Sessions and pairing.  (The tokens are the subject of module Account.)    *)

Ping == {Reply(FALSE, "ok")}

\* Success is that of both clients.
Login == Reports

Logout == {Reply(TRUE, "ok")} \union Refused

\* The id of the device is made up and saved at the first call.
DeviceInfo == Reads

\* request_device_code, poll_device_code: the answer of the server is passed on, and 404
\* to a poll is a success that says "expired".
Pairing == Reads

-----------------------------------------------------------------------------
(* Folders.                                                                  *)

\* add_sync_folder, remove_sync_folder.
FolderChange == Reports

\* pause_sync, resume_sync: the result of the engine is not looked at.
PauseOrResume == {Reply(TRUE, "ok"), Reply(FALSE, "ok")} \union Refused

\* trigger_sync: what is done follows the answer.
TriggerSync == {Reply(FALSE, "ok")} \union Refused

FolderSettings == Reports

\* get_sync_state, get_folders.
SyncState == Reads

RemoteFolders == Reads

ActivityLogs == Reads

-----------------------------------------------------------------------------
(* The server's files and its state.                                         *)

\* get_network_stats, get_services_status.
NetworkAndServices(signedIn, mock) == FromServer(signedIn, mock)

\* list_files, get_mountpoints: an empty list is answered if the request fails.
ListFiles(signedIn) == IfSignedIn(signedIn, Reads)

\* create_folder, rename_file, move_file, delete_file.
ChangeFiles(signedIn) == IfSignedIn(signedIn, Reports)

\* download_file, upload_file.
TransferFile(signedIn) == IfSignedIn(signedIn, Reports)

\* get_permissions is answered like list_files, set_permission and remove_permission report.
Permissions(signedIn, change) == IfSignedIn(signedIn, IF change THEN Reports ELSE Reads)

\* get_system_info, get_raid_status.
SystemAndRaid(signedIn, mock) == FromServer(signedIn, mock)

PowerMonitoring(signedIn, mock) == FromServer(signedIn, mock)

-----------------------------------------------------------------------------
(* Settings, conflicts, profiles.                                            *)

\* get_settings, update_settings: changed in memory, perhaps, though not saved.
Settings(change) == IF change THEN Reports ELSE Reads

\* get_conflicts answers with two examples; resolve_conflict and resolve_all_conflicts
\* answer with success and do nothing.
Conflicts == Reads

\* add, update, delete.
ChangeServerProfile == Reports

\* All of them, those of the user, or one.
ReadServerProfiles == Reads

\* test_server_connection: "not connected" is a success; start_remote_server reports.
RemoteServer(start) == IF start THEN Reports ELSE Reads

ChangeVPNProfile == Reports

ReadVPNProfiles == Reads

TestVPNConnection == Reads

DiscoverNetworkServers == Reads

\* "Not connected" is a success.
CheckServerHealth == Reads

\* get_dev_mode, set_dev_mode.
DevMode(change) == IF change THEN {Reply(TRUE, "ok")} \union Refused ELSE Reads
=============================================================================
