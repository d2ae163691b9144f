------------------------------- MODULE IpcBridge -------------------------------
(***************************************************************************)
(* The bridge between the window and the backend.  The main process of     *)
(* Electron (main.ts) gives each command an id, writes it to the stdin of  *)
(* the backend and keeps its promise in pendingRequests until an answer    *)
(* with that id arrives or the timer fires.  The main thread of the        *)
(* backend handles one command after the other (processMessages); it and   *)
(* the threads that synchronise write lines to stdout, under outputMutex_, *)
(* while the logger writes there without it.                               *)
(*                                                                         *)
(* A line is written in two parts, the text and its end; a log line may    *)
(* come between them.  Time is not modelled: a timer may fire whenever its *)
(* promise waits, so commands of any length are covered.  The backend is   *)
(* started once and may end at any time.                                   *)
(***************************************************************************)
EXTENDS IpcCommands, Naturals, Sequences

CONSTANTS
    MaxCalls,     \* bound: calls of the window
    Commands,     \* the commands the window sends
    None          \* no call, no id

AllCommands ==
    {"ping", "login", "logout", "device_info", "pairing", "folder_change", "pause_or_resume",
     "trigger_sync", "folder_settings", "sync_state", "remote_folders", "activity_logs",
     "network_and_services", "list_files", "change_files", "transfer_file", "get_permissions",
     "set_permission", "system_and_raid", "power_monitoring", "get_settings",
     "update_settings", "conflicts", "change_server_profile", "read_server_profiles",
     "test_server", "start_server", "change_vpn", "read_vpn", "test_vpn", "discover",
     "check_health", "get_dev_mode", "set_dev_mode", "user_info", "unknown"}

ASSUME IpcAssumption ==
    /\ MaxCalls \in Nat
    /\ Commands \subseteq AllCommands
    /\ None \notin Nat \union AllCommands \union {"ok", "error"}

Calls == 0 .. MaxCalls - 1
Ids == 0 .. MaxCalls

\* Commands whose success claims that something was changed; file operations at the server.
Claiming == {"login", "logout", "folder_change", "folder_settings", "change_files",
             "transfer_file", "set_permission", "update_settings", "change_server_profile",
             "start_server", "change_vpn", "set_dev_mode"}
FileCommands == {"change_files", "transfer_file", "set_permission"}

VARIABLES
    \* The main process of Electron:
    made,        \* number of calls made
    command,     \* per call
    outcome,     \* per call: what became of its promise
    id,          \* per call: the id it got
    requestId,   \* the counter
    pending,     \* pendingRequests: from ids to calls
    connected,   \* backendProcess is not null
    \* The pipes:
    stdin, stdout,
    \* The backend:
    alive,
    handler,     \* the command under way
    writing,     \* the line under way, outputMutex_ is held
    asyncSync,   \* asyncSyncThread_: the thread of the last trigger_sync
    signedIn,    \* baluhostClient_ has a token
    mock,        \* dev mode
    \* History variables, read by no action:
    done,        \* per call: it took effect
    answered,    \* per call: the answer that was written as a line of its own
    settledBy,   \* per call: the call whose answer settled it
    afterLogout  \* calls made after a logout had been answered and no login since

electron == <<made, command, outcome, id, requestId, pending, connected>>
backend == <<handler, writing, asyncSync, signedIn, mock>>
history == <<done, answered, settledBy, afterLogout>>
vars == <<electron, stdin, stdout, alive, backend, history>>

Says == {"ok", "error"}
Outcomes == {"new", "refused", "waiting", "timeout"} \union Says
Lines == [id : Ids \union {None}, call : Calls \union {None}, says : Says \union {"event"},
          whole : BOOLEAN]
NoSync == [at |-> "none", call |-> None]
NoLine == [id |-> None, call |-> None, says |-> "event", whole |-> FALSE]
Messages == [call : Calls, id : Ids, command : Commands]
Idle == [at |-> "idle", call |-> None, id |-> None, command |-> None, says |-> "error"]

TypeOK ==
    /\ made \in 0 .. MaxCalls /\ requestId \in Ids
    /\ command \in [Calls -> Commands \union {None}]
    /\ outcome \in [Calls -> Outcomes]
    /\ id \in [Calls -> Ids \union {None}]
    /\ pending \in [Ids -> Calls \union {None}]
    /\ stdin \in Seq(Messages)
    /\ stdout \in Seq(Lines)
    /\ handler \in [at : {"idle", "work", "answer", "write", "start", "notify"},
                    call : Calls \union {None}, id : Ids \union {None},
                    command : Commands \union {None}, says : Says]
    /\ writing \in Lines
    /\ connected \in BOOLEAN /\ alive \in BOOLEAN
    /\ asyncSync \in [at : {"none", "created", "syncing"}, call : Calls \union {None}]
    /\ signedIn \in BOOLEAN /\ mock \in BOOLEAN
    /\ done \in [Calls -> BOOLEAN]
    /\ answered \in [Calls -> Says \union {None}]
    /\ settledBy \in [Calls -> Calls \union {None}]
    /\ afterLogout \subseteq Calls

Init ==
    /\ made = 0 /\ requestId = 0
    /\ command = [c \in Calls |-> None]
    /\ outcome = [c \in Calls |-> "new"]
    /\ id = [c \in Calls |-> None]
    /\ pending = [i \in Ids |-> None]
    /\ connected \in BOOLEAN          \* FALSE: the program was not found
    /\ alive = connected
    /\ stdin = <<>> /\ stdout = <<>>
    /\ handler = Idle /\ writing = NoLine /\ asyncSync = NoSync
    /\ signedIn \in BOOLEAN           \* the calls before are over
    /\ mock \in BOOLEAN
    /\ done = [c \in Calls |-> FALSE]
    /\ answered = [c \in Calls |-> None]
    /\ settledBy = [c \in Calls |-> None]
    /\ afterLogout = {}

-----------------------------------------------------------------------------
(* Electron.                                                                 *)

\* The five handlers that send, two of them for settings, which go out even without a
\* backend.  user:getInfo asks for the settings as well, and makes a user of the answer.
Channel(c) == CASE c \in {"get_settings", "update_settings"} -> "settings"
                [] c = "user_info" -> "user"
                [] c \in {"change_server_profile", "read_server_profiles", "test_server",
                          "start_server", "change_vpn", "read_vpn", "test_vpn",
                          "discover", "check_health"} -> "ipc-message"
                [] OTHER -> "backend-command"

\* Mutant of NextId: each channel counts for itself.
NextIdPerChannel(c) ==
    IF Channel(c) = "ipc-message"
    THEN LET before == {p \in Calls : p < made /\ Channel(command[p]) = "ipc-message"}
         IN CHOOSE n \in Ids : \E f \in [1 .. n -> before] :
                /\ \A p \in before : \E i \in 1 .. n : f[i] = p
                /\ \A i, j \in 1 .. n : f[i] = f[j] => i = j
    ELSE requestId

\* One counter for all of them.
NextId(c) == requestId

AfterLogout(c) ==
    \E out \in Calls :
        /\ command[out] = "logout" /\ outcome[out] = "ok"
        /\ c # "login" /\ \A p \in Calls : p > out => command[p] # "login"

\* The promise is stored and the command written, if there is someone to read it.
Send(c) ==
    /\ made < MaxCalls
    /\ made' = made + 1
    /\ command' = [command EXCEPT ![made] = c]
    /\ IF ~connected /\ Channel(c) # "settings"
       THEN /\ outcome' = [outcome EXCEPT ![made] = "refused"]
            /\ UNCHANGED <<id, requestId, pending, stdin>>
       ELSE /\ outcome' = [outcome EXCEPT ![made] = "waiting"]
            /\ id' = [id EXCEPT ![made] = NextId(c)]
            /\ requestId' = requestId + 1
            /\ pending' = [pending EXCEPT ![NextId(c)] = made]
            /\ stdin' = IF connected /\ alive
                        THEN Append(stdin, [call |-> made, id |-> NextId(c), command |-> c])
                        ELSE stdin
    /\ afterLogout' = IF AfterLogout(c) THEN afterLogout \union {made} ELSE afterLogout
    /\ UNCHANGED <<connected, stdout, alive, backend, done, answered, settledBy>>

\* The timer of a promise: it finds the id still in the map.  (For settings and the user
\* it settles the promise in any case.)
TimeOut(c) ==
    /\ outcome[c] = "waiting"
    /\ pending[id[c]] # None \/ Channel(command[c]) \in {"settings", "user"}
    /\ outcome' = [outcome EXCEPT ![c] = "timeout"]
    /\ pending' = [pending EXCEPT ![id[c]] = None]
    /\ UNCHANGED <<made, command, id, requestId, connected, stdin, stdout, alive, backend,
                   history>>

\* Mutant of ReadLine: the id 0 is taken for no id.
ReadLineZeroIsNone ==
    /\ stdout # <<>>
    /\ stdout' = Tail(stdout)
    /\ LET line == Head(stdout)
           to == IF line.whole /\ line.id \notin {None, 0} THEN pending[line.id] ELSE None
       IN IF to # None
          THEN /\ outcome' = [outcome EXCEPT ![to] = line.says]
               /\ settledBy' = [settledBy EXCEPT ![to] = line.call]
               /\ pending' = [pending EXCEPT ![line.id] = None]
          ELSE UNCHANGED <<outcome, settledBy, pending>>
    /\ UNCHANGED <<made, command, id, requestId, connected, stdin, alive, backend, done, answered, afterLogout>>

\* An answer settles the promise with its id, if there is one; it is an event otherwise.
\* What does not parse is logged.
ReadLine ==
    /\ stdout # <<>>
    /\ stdout' = Tail(stdout)
    /\ LET line == Head(stdout)
           to == IF line.whole /\ line.id # None THEN pending[line.id] ELSE None
       IN IF to # None
          THEN /\ outcome' = [outcome EXCEPT ![to] = line.says]
               /\ settledBy' = [settledBy EXCEPT ![to] = line.call]
               /\ pending' = [pending EXCEPT ![line.id] = None]
          ELSE UNCHANGED <<outcome, settledBy, pending>>
    /\ UNCHANGED <<made, command, id, requestId, connected, stdin, alive, backend, done, answered, afterLogout>>

\* Mutant of Closed: the map is emptied, the promises in it are forgotten.
ClosedForgets ==
    /\ connected /\ ~alive /\ stdout = <<>>
    /\ connected' = FALSE
    /\ pending' = [i \in Ids |-> None]
    /\ UNCHANGED <<made, command, outcome, id, requestId, stdin, stdout, alive,
                   backend, history>>

\* 'close' comes after the last data; the promises are left to their timers.
Closed ==
    /\ connected /\ ~alive /\ stdout = <<>>
    /\ connected' = FALSE
    /\ UNCHANGED <<made, command, outcome, id, requestId, pending, stdin, stdout, alive,
                   backend, history>>

-----------------------------------------------------------------------------
(* The backend.                                                              *)

Replies(c) ==
    CASE c = "ping" -> Ping
      [] c = "login" -> Login
      [] c = "logout" -> Logout
      [] c = "device_info" -> DeviceInfo
      [] c = "pairing" -> Pairing
      [] c = "folder_change" -> FolderChange
      [] c = "pause_or_resume" -> PauseOrResume
      [] c = "trigger_sync" -> TriggerSync
      [] c = "folder_settings" -> FolderSettings
      [] c = "sync_state" -> SyncState
      [] c = "remote_folders" -> RemoteFolders
      [] c = "activity_logs" -> ActivityLogs
      [] c = "network_and_services" -> NetworkAndServices(signedIn, mock)
      [] c = "list_files" -> ListFiles(signedIn)
      [] c = "change_files" -> ChangeFiles(signedIn)
      [] c = "transfer_file" -> TransferFile(signedIn)
      [] c \in {"get_permissions", "set_permission"} ->
            Permissions(signedIn, c = "set_permission")
      [] c = "system_and_raid" -> SystemAndRaid(signedIn, mock)
      [] c = "power_monitoring" -> PowerMonitoring(signedIn, mock)
      [] c \in {"get_settings", "user_info", "update_settings"} ->
            Settings(c = "update_settings")
      [] c = "conflicts" -> Conflicts
      [] c = "change_server_profile" -> ChangeServerProfile
      [] c = "read_server_profiles" -> ReadServerProfiles
      [] c \in {"test_server", "start_server"} -> RemoteServer(c = "start_server")
      [] c = "change_vpn" -> ChangeVPNProfile
      [] c = "read_vpn" -> ReadVPNProfiles
      [] c = "test_vpn" -> TestVPNConnection
      [] c = "discover" -> DiscoverNetworkServers
      [] c = "check_health" -> CheckServerHealth
      [] c \in {"get_dev_mode", "set_dev_mode"} -> DevMode(c = "set_dev_mode")
      [] OTHER -> Refused

Handle(at, message) ==
    handler' = [at |-> at, call |-> message.call, id |-> message.id,
                command |-> message.command, says |-> "error"]

\* Mutant of Take: the newest line first.
TakeNewest ==
    /\ alive /\ handler.at = "idle" /\ stdin # <<>>
    /\ Handle("work", stdin[Len(stdin)])
    /\ stdin' = SubSeq(stdin, 1, Len(stdin) - 1)
    /\ UNCHANGED <<electron, stdout, alive, writing, asyncSync, signedIn, mock, history>>

\* processMessages: the next line.
Take ==
    /\ alive /\ handler.at = "idle" /\ stdin # <<>>
    /\ Handle("work", Head(stdin))
    /\ stdin' = Tail(stdin)
    /\ UNCHANGED <<electron, stdout, alive, writing, asyncSync, signedIn, mock, history>>

\* Mutant of SignedInAfter: logout keeps the client for file operations.
SignedInAfterKeeps(c, reply) ==
    IF c = "login" THEN (IF reply = Reply(TRUE, "ok") THEN {TRUE} ELSE {TRUE, FALSE})
    ELSE {signedIn}

\* A login replaces the client first, a logout drops it.
SignedInAfter(c, reply) ==
    CASE c = "login" -> IF reply = Reply(TRUE, "ok") THEN {TRUE} ELSE {TRUE, FALSE}
      [] c = "logout" /\ reply.does -> {FALSE}
      [] OTHER -> {signedIn}

\* The handler does what it does, and has its answer.
Work ==
    /\ handler.at = "work"
    /\ \E reply \in Replies(handler.command) :
          /\ done' = [done EXCEPT ![handler.call] = reply.does]
          /\ handler' = [handler EXCEPT !.at = "answer", !.says = reply.says]
          /\ signedIn' \in SignedInAfter(handler.command, reply)
          /\ mock' \in (IF handler.command = "set_dev_mode" /\ reply.does
                        THEN BOOLEAN ELSE {mock})
    /\ UNCHANGED <<electron, stdin, stdout, alive, writing, asyncSync, answered,
                   settledBy, afterLogout>>

\* sendResponse, sendError: the text of the answer.
WriteAnswer ==
    /\ handler.at = "answer" /\ writing = NoLine
    /\ writing' = [id |-> handler.id, call |-> handler.call, says |-> handler.says,
                   whole |-> TRUE]
    /\ handler' = [handler EXCEPT !.at = "write"]
    /\ UNCHANGED <<electron, stdin, stdout, alive, asyncSync, signedIn, mock, history>>

\* The text of an error cannot be written as JSON, either: no answer at all.
NoAnswer ==
    /\ handler.at = "answer" /\ handler.says = "error"
    /\ handler' = Idle
    /\ UNCHANGED <<electron, stdin, stdout, alive, writing, asyncSync, signedIn, mock,
                   history>>

\* broadcastEvent by a thread that synchronises.
Broadcast ==
    /\ alive /\ writing = NoLine
    /\ writing' = [NoLine EXCEPT !.whole = TRUE]
    /\ UNCHANGED <<electron, stdin, stdout, alive, handler, asyncSync, signedIn, mock, history>>

\* Logger writes a line of another thread to stdout while a text has no end yet.  (What
\* that does to an event is left out.)
LogLine ==
    /\ alive /\ writing.call # None /\ writing.whole
    /\ writing' = [writing EXCEPT !.whole = FALSE]
    /\ UNCHANGED <<electron, stdin, stdout, alive, handler, asyncSync, signedIn, mock,
                   history>>

\* What follows the first answer: set_dev_mode tells everyone, trigger_sync goes on.
AfterAnswer ==
    CASE handler.command = "trigger_sync" /\ handler.says = "ok" -> "start"
      [] handler.command = "set_dev_mode" /\ handler.says = "ok" -> "notify"
      [] OTHER -> "idle"

\* The end of the line, the lock is released.  Events change nothing where they are read,
\* so they are not kept in the pipe.
EndLine ==
    /\ writing # NoLine
    /\ stdout' = IF writing.call = None THEN stdout ELSE Append(stdout, writing)
    /\ writing' = NoLine
    /\ answered' = IF writing.call # None /\ writing.whole
                      /\ answered[writing.call] = None
                   THEN [answered EXCEPT ![writing.call] = writing.says] ELSE answered
    /\ handler' = IF handler.at # "write" \/ writing.call = None THEN handler
                  ELSE IF AfterAnswer = "idle" THEN Idle
                  ELSE [handler EXCEPT !.at = AfterAnswer]
    /\ UNCHANGED <<electron, stdin, alive, asyncSync, signedIn, mock, done, settledBy,
                   afterLogout>>

\* handleTriggerSync after its answer: the thread before is joined, a new one created.
StartSync ==
    /\ handler.at = "start" /\ asyncSync = NoSync
    /\ asyncSync' = [at |-> "created", call |-> handler.call]
    /\ handler' = Idle
    /\ UNCHANGED <<electron, stdin, stdout, alive, writing, signedIn, mock, history>>

\* There is no thread to be had: a second answer.
StartFails ==
    /\ handler.at = "start" /\ asyncSync = NoSync
    /\ handler' = [handler EXCEPT !.at = "answer", !.says = "error"]
    /\ UNCHANGED <<electron, stdin, stdout, alive, writing, asyncSync, signedIn, mock,
                   history>>

\* The thread gets to triggerSync, whatever was handled and answered meanwhile.
SyncBegins ==
    /\ asyncSync.at = "created"
    /\ asyncSync' = [asyncSync EXCEPT !.at = "syncing"]
    /\ done' = [done EXCEPT ![asyncSync.call] = TRUE]
    /\ UNCHANGED <<electron, stdin, stdout, alive, handler, writing, signedIn, mock, answered,
                   settledBy, afterLogout>>

SyncEnds ==
    /\ asyncSync.at = "syncing"
    /\ asyncSync' = NoSync
    /\ UNCHANGED <<electron, stdin, stdout, alive, handler, writing, signedIn, mock,
                   history>>

\* dev_mode_changed is broadcast.
NotifyDevMode ==
    /\ handler.at = "notify" /\ writing = NoLine
    /\ writing' = [NoLine EXCEPT !.whole = TRUE]
    /\ handler' = Idle
    /\ UNCHANGED <<electron, stdin, stdout, alive, asyncSync, signedIn, mock, history>>

\* By itself, killed, or crashed; what is in the pipe will still be read.
BackendEnds ==
    /\ alive
    /\ alive' = FALSE
    /\ stdin' = <<>>
    /\ handler' = Idle /\ writing' = NoLine /\ asyncSync' = NoSync
    /\ UNCHANGED <<electron, stdout, signedIn, mock, history>>

-----------------------------------------------------------------------------
Electron ==
    \/ \E c \in Commands : Send(c)
    \/ \E c \in Calls : TimeOut(c)
    \/ ReadLine \/ Closed

Backend ==
    \/ Take \/ Work \/ WriteAnswer \/ NoAnswer \/ Broadcast \/ LogLine \/ EndLine
    \/ StartSync \/ StartFails \/ SyncBegins \/ SyncEnds \/ NotifyDevMode \/ BackendEnds

Next == Electron \/ Backend

\* Timers fire; nothing is assumed of the backend.
Fairness == \A c \in Calls : WF_vars(TimeOut(c))

Spec == Init /\ [][Next]_vars /\ Fairness

-----------------------------------------------------------------------------
(* Properties.                                                               *)

\* A promise is settled by the answer to its own command: not by that to another one
\* which got the same id on another channel, and not by a late answer.
OwnAnswer ==
    \A c \in Calls : outcome[c] \in Says =>
        settledBy[c] = c /\ answered[c] = outcome[c]

\* An answer that was written as a line of its own is not lost, whether the timer runs out
\* or the backend ends: as long as its promise waits, the answer is on its way.
AnswersArrive ==
    \A c \in Calls : outcome[c] = "waiting" /\ answered[c] # None =>
        \E i \in 1 .. Len(stdout) : stdout[i].call = c /\ stdout[i].whole

\* After a sign-out was answered no file of the server is changed by a command sent
\* later, whatever was sent before and has timed out meanwhile.
SignedOutIsRefused ==
    \A c \in afterLogout : command[c] \in FileCommands => ~done[c]

\* Success means done, except for the commands that only acknowledge; what was sent
\* earlier takes no effect any more once a later command is answered; answers are final.
\* Only the run a trigger_sync asks for may begin after a later command was answered, a
\* pause_sync or a logout for instance; but runs begin in the order of their commands.
Service == INSTANCE RequestService
    WITH claims <- {c \in Calls : command[c] \in Claiming},
         deferred <- {c \in Calls : command[c] = "trigger_sync"}
ImplementsRequests == Service!Spec

\* Every promise is settled, also if the backend ends or never answers.
EveryPromiseSettles ==
    \A c \in Calls : (outcome[c] = "waiting") ~> (outcome[c] # "waiting")

\* "Protects stdout writes from concurrent threads" (outputMutex_): each line that comes
\* out of the backend is the text of one writer.
LinesAreWhole == \A i \in 1 .. Len(stdout) : stdout[i].whole
=============================================================================
