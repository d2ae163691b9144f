------------------------------- MODULE Account -------------------------------
(***************************************************************************)
(* Who the backend is signed in as.  The answer is kept in four places:    *)
(* the name and the BaluhostClient of IpcServer (currentUsername_,         *)
(* baluhostClient_: what the window shows, and file operations), the       *)
(* HttpClient of SyncEngine (what runs use), four entries of the keychain  *)
(* of the operating system, and the owner column of the profiles.          *)
(*                                                                         *)
(* The main thread serves one command after the other; a run on another    *)
(* thread uses the HttpClient meanwhile, refreshes its token and saves the *)
(* new one (SyncEngine::withTokenRefresh).  That runs exclude each other   *)
(* is the subject of module SyncGate.  The process may end at any time.    *)
(*                                                                         *)
(* A token stands for the account it was issued for.  The server is        *)
(* external: it refuses tokens of other servers, and others when it likes. *)
(***************************************************************************)
EXTENDS Naturals

CONSTANTS
    Users, Servers,
    DefaultServer,   \* Config::getServerUrl
    None,            \* no user, no token, no client
    MaxEvents        \* bound: commands, refused calls of the keychain, restarts

ASSUME AccountAssumption ==
    /\ DefaultServer \in Servers
    /\ None \notin Users \union Servers \union [user : Users, server : Servers]
    /\ MaxEvents \in Nat

Accounts == [user : Users, server : Servers]
Tokens == Accounts \union {None}
Clients == [url : Servers, token : Tokens]
Keys == {"access_token", "refresh_token", "server_url", "paired_username"}

\* The keys in the order in which they are written and deleted.
KeyAt == [k \in 1 .. 4 |-> CASE k = 1 -> "access_token" [] k = 2 -> "refresh_token"
                             [] k = 3 -> "server_url" [] k = 4 -> "paired_username"]

VARIABLES
    shown,          \* currentUsername_
    files,          \* baluhostClient_
    authenticated,  \* SyncEngine::authenticated_
    client,         \* SyncEngine::httpClient_
    store,          \* the keychain
    registeredAt,   \* servers that know this device; the flag is set when there is one
    profiles,       \* owners of rows of remote_server_profiles
    main,           \* the command of the main thread
    run,            \* the run of another thread
    events,         \* bound only
    \* History variables, read by no action:
    session,        \* who signed in last with success and did not sign out
    out,            \* signed out, and nobody signed in since
    lost,           \* profiles were lost that nobody deleted
    mixups          \* what happened that mixes accounts

memory == <<shown, files, authenticated, client>>
disk == <<store, registeredAt, profiles>>
history == <<session, out, lost, mixups>>
vars == <<memory, disk, main, run, history, events>>

Mains == [at : {"idle", "files", "engine", "save", "register", "verify", "refresh",
               "resume", "wipe"},
          who : Tokens \union [refresh : Tokens, name : Users \union {None}],
          k : 0 .. 4,
          then : {"none", "logout", "pair"}]
Runs == [at : {"off", "request", "refresh", "save"}, refresh : Tokens, url : Servers,
         tried : BOOLEAN, stale : BOOLEAN, late : BOOLEAN]

\* A command at a step: whose, for the keychain the next entry, and what follows.
Doing(at, who, k, then) == [at |-> at, who |-> who, k |-> k, then |-> then]
Idle == Doing("idle", None, 0, "none")
NoRun == [at |-> "off", refresh |-> None, url |-> DefaultServer,
          tried |-> FALSE, stale |-> FALSE, late |-> FALSE]
NoStore == [key \in Keys |-> None]

MixUps == {"failed_login", "late_refresh", "torn", "undeleted", "other_pairing", "switched"}

TypeOK ==
    /\ shown \in Users \union {None} /\ session \in Users \union {None}
    /\ files \in Clients \union {None}
    /\ authenticated \in BOOLEAN /\ out \in BOOLEAN
    /\ client \in Clients
    /\ store \in [Keys -> Tokens \union Servers \union Users]
    /\ store["access_token"] \in Tokens /\ store["refresh_token"] \in Tokens
    /\ store["server_url"] \in Servers \union {None}
    /\ store["paired_username"] \in Users \union {None}
    /\ registeredAt \subseteq Servers
    /\ profiles \subseteq Users \union {None} /\ lost \in BOOLEAN
    /\ events \in Nat
    /\ main \in Mains /\ run \in Runs
    /\ mixups \subseteq MixUps

Init ==
    /\ shown = None /\ files = None /\ authenticated = FALSE
    /\ client = [url |-> DefaultServer, token |-> None]
    /\ store = NoStore /\ registeredAt = {} /\ profiles = {}
    /\ main = Idle /\ run = NoRun
    /\ session = None /\ out = FALSE /\ lost = FALSE /\ mixups = {} /\ events = 0
Event == events < MaxEvents /\ events' = events + 1

-----------------------------------------------------------------------------
(* The keychain (class CredentialStore).  Its results are looked at by no    *)
(* caller: a refused call is logged.                                         *)

\* On all platforms an entry is replaced as a whole.
SaveToken(key, value) ==
    store' = [store EXCEPT ![key] = value]

\* Refused: the old entry stays, or, on macOS, is gone already.
SaveRefused(key) ==
    /\ Event
    /\ \E value \in {store[key], None} : store' = [store EXCEPT ![key] = value]

\* Empty also when the keychain does not answer.
LoadToken(key) == {store[key], None}

DeleteToken(key) == store' = [store EXCEPT ![key] = None]

DeleteRefused(key) == Event /\ store[key] # None /\ UNCHANGED store

\* The entry refused is noted, since nothing else remembers it.
SaveOrTear(key, value) ==
    \/ SaveToken(key, value) /\ UNCHANGED <<mixups, events>>
    \/ SaveRefused(key) /\ mixups' = mixups \union {"torn"}

-----------------------------------------------------------------------------
(* The run of another thread.                                                *)

\* The HttpClient is destroyed, or the account changes, under the run's feet.
Replaced(r) == [r EXCEPT !.stale = r.at \in {"request", "refresh"},
                         !.late = r.at \in {"refresh", "save"}]
Overtaken(r) == [r EXCEPT !.late = r.late \/ r.at \in {"refresh", "save"}]

\* triggerSync: signed in, so a request goes out with a copy of the token.
StartRun ==
    /\ run.at = "off" /\ authenticated
    /\ run' = [NoRun EXCEPT !.at = "request"]
    /\ UNCHANGED <<memory, disk, main, history, events>>

\* The next request, with the client there is by then, or the end of the run.
RequestAnswered ==
    /\ run.at = "request"
    /\ run' \in {[run EXCEPT !.stale = FALSE], NoRun}
    /\ UNCHANGED <<memory, disk, main, history, events>>

\* TokenExpiredException, for the first time: the refresh token is read from the keychain.
TokenExpires ==
    /\ run.at = "request" /\ ~run.tried
    /\ \E r \in LoadToken("refresh_token") \ {None} :
          run' = [run EXCEPT !.at = "refresh", !.refresh = r, !.url = client.url,
                             !.stale = FALSE, !.late = main # Idle]
    /\ UNCHANGED <<memory, disk, main, history, events>>

\* There is none, or it is the second time: authRequiredCallback_.
SessionLost ==
    /\ run.at = "request"
    /\ run.tried \/ None \in LoadToken("refresh_token")
    /\ authenticated' = FALSE
    /\ run' = NoRun
    /\ UNCHANGED <<shown, files, client, disk, main, history, events>>

\* refreshAccessToken sets the token in the client; a client that was destroyed
\* meanwhile is not the one the engine has now.
TokenRefreshed ==
    /\ run.at = "refresh" /\ run.refresh.server = run.url
    /\ client' = IF run.stale THEN client ELSE [client EXCEPT !.token = run.refresh]
    /\ mixups' = IF run.late THEN mixups \union {"late_refresh"} ELSE mixups
    /\ run' = [run EXCEPT !.at = "save"]
    /\ UNCHANGED <<shown, files, authenticated, disk, main, session, out, lost, events>>

RefreshRefused ==
    /\ run.at = "refresh"
    /\ authenticated' = FALSE
    /\ run' = NoRun
    /\ UNCHANGED <<shown, files, client, disk, main, history, events>>

\* The new token is saved, and the operation tried again.
SaveRefreshed ==
    /\ run.at = "save"
    /\ \/ SaveToken("access_token", run.refresh) /\ UNCHANGED events
       \/ SaveRefused("access_token")
    /\ mixups' = IF run.late THEN mixups \union {"late_refresh"} ELSE mixups
    /\ run' = [NoRun EXCEPT !.at = "request", !.tried = TRUE]
    /\ UNCHANGED <<memory, registeredAt, profiles, main, session, out, lost>>

-----------------------------------------------------------------------------
(* login and set_tokens.                                                     *)

\* Mutant of TakeName: no name shown counts as another name.
TakeNameAlwaysClears(u) ==
    /\ shown' = u /\ out' = FALSE
    /\ IF shown # u
       THEN /\ profiles' = {}
            /\ lost' = (lost \/ profiles # {})
       ELSE UNCHANGED <<profiles, lost>>

\* Both begin by taking the name over: profiles are cleared if another was shown.
TakeName(u) ==
    /\ shown' = u /\ out' = FALSE
    /\ IF shown # None /\ shown # u
       THEN /\ profiles' = {}
            /\ lost' = (lost \/ profiles # {})
       ELSE UNCHANGED <<profiles, lost>>

Welcome(u) ==
    /\ session' = u
    /\ mixups' = IF session \in {None, u} THEN mixups ELSE mixups \union {"switched"}

Begin(at, account) == main' = Doing(at, account, 0, "none")

\* handleLogin up to the login request of the new BaluhostClient.
Login(account) ==
    /\ Event
    /\ main = Idle
    /\ TakeName(account.user)
    /\ files' = [url |-> account.server, token |-> None]
    /\ Begin("files", account)
    /\ run' = Overtaken(run)
    /\ UNCHANGED <<authenticated, client, store, registeredAt, session, mixups>>

FilesLogin ==
    /\ main.at = "files"
    /\ files' = [files EXCEPT !.token = main.who]
    /\ Welcome(main.who.user)
    /\ Begin("engine", main.who)
    /\ UNCHANGED <<shown, authenticated, client, disk, run, out, lost, events>>

\* "BaluHost authentication failed": the engine stays as it was.
FilesLoginRefused ==
    /\ main.at = "files"
    /\ main' = Idle
    /\ mixups' = mixups \union {"failed_login"}
    /\ UNCHANGED <<memory, disk, run, session, out, lost, events>>

\* A password login leaves the tokens of a former pairing in the keychain.
NotePairing ==
    mixups' = IF {store["access_token"], store["refresh_token"]} \subseteq {None, main.who}
              THEN mixups ELSE mixups \union {"other_pairing"}

\* Mutant of EngineLogin: the client that is kept keeps its token, too.
EngineLoginKeepsToken ==
    /\ main.at = "engine"
    /\ authenticated' = TRUE
    /\ client' = IF client.url = main.who.server /\ client.token # None
                 THEN client ELSE [url |-> main.who.server, token |-> main.who]
    /\ run' = IF client.url = main.who.server THEN Overtaken(run) ELSE Replaced(run)
    /\ NotePairing
    /\ Begin("register", main.who)
    /\ UNCHANGED <<shown, files, disk, session, out, lost, events>>

\* SyncEngine::login keeps its client if the server is the same.
EngineLogin ==
    /\ main.at = "engine"
    /\ authenticated' = TRUE
    /\ client' = [url |-> main.who.server, token |-> main.who]
    /\ run' = IF client.url = main.who.server THEN Overtaken(run) ELSE Replaced(run)
    /\ NotePairing
    /\ Begin("register", main.who)
    /\ UNCHANGED <<shown, files, disk, session, out, lost, events>>

EngineLoginRefused ==
    /\ main.at = "engine"
    /\ authenticated' = FALSE
    /\ NotePairing
    /\ main' = Idle
    /\ UNCHANGED <<shown, files, client, disk, run, session, out, lost, events>>

\* Mutant of SetTokens: the file client is made only if there is none.
SetTokensKeepsFiles(account) ==
    /\ Event
    /\ main = Idle
    /\ TakeName(account.user) /\ Welcome(account.user)
    /\ files' = IF files = None THEN [url |-> account.server, token |-> account] ELSE files
    /\ client' = [url |-> account.server, token |-> account]
    /\ run' = Replaced(run)
    /\ main' = Doing("save", account, 1, "none")
    /\ UNCHANGED <<authenticated, store, registeredAt>>

\* handleSetTokens up to the keychain: the engine's client is replaced in any case.
SetTokens(account) ==
    /\ Event
    /\ main = Idle
    /\ TakeName(account.user) /\ Welcome(account.user)
    /\ files' = [url |-> account.server, token |-> account]
    /\ client' = [url |-> account.server, token |-> account]
    /\ run' = Replaced(run)
    /\ main' = Doing("save", account, 1, "none")
    /\ UNCHANGED <<authenticated, store, registeredAt>>

\* What setTokens writes under a key.
Credential(key, account) ==
    CASE key \in {"access_token", "refresh_token"} -> account
      [] key = "server_url" -> account.server
      [] key = "paired_username" -> account.user

\* Mutant of SaveNext: server and name are saved only the first time.
SaveNextOnce ==
    /\ main.at = "save"
    /\ IF main.k > 2 /\ store[KeyAt[main.k]] # None
       THEN UNCHANGED <<store, mixups, events>>
       ELSE SaveOrTear(KeyAt[main.k], Credential(KeyAt[main.k], main.who))
    /\ IF main.k < 4
       THEN /\ main' = [main EXCEPT !.k = @ + 1]
            /\ UNCHANGED authenticated
       ELSE /\ Begin("register", main.who)
            /\ authenticated' = TRUE
    /\ run' = Overtaken(run)
    /\ UNCHANGED <<shown, files, client, registeredAt, profiles, session, out, lost>>

\* One entry after the other; then the user is signed in.
SaveNext ==
    /\ main.at = "save"
    /\ SaveOrTear(KeyAt[main.k], Credential(KeyAt[main.k], main.who))
    /\ IF main.k < 4
       THEN /\ main' = [main EXCEPT !.k = @ + 1]
            /\ UNCHANGED authenticated
       ELSE /\ Begin("register", main.who)
            /\ authenticated' = TRUE
    /\ run' = Overtaken(run)
    /\ UNCHANGED <<shown, files, client, registeredAt, profiles, session, out, lost>>

\* registerDeviceIfNeeded: once, at the server of that moment; a failure is not fatal.
Register ==
    /\ main.at = "register"
    /\ registeredAt' \in {registeredAt,
                          IF registeredAt = {} THEN {client.url} ELSE registeredAt}
    /\ main' = Idle
    /\ UNCHANGED <<memory, store, profiles, run, history, events>>

-----------------------------------------------------------------------------
(* check_stored_tokens and logout.                                           *)

\* checkStoredTokens: without a token or a server the user has to pair.
CheckStored ==
    /\ Event
    /\ main = Idle
    /\ \E a \in LoadToken("access_token") \ {None}, s \in LoadToken("server_url") \ {None},
          r \in LoadToken("refresh_token"), n \in LoadToken("paired_username") :
          /\ client' = [url |-> s, token |-> a]
          /\ main' = Doing("verify", [refresh |-> r, name |-> n], 0, "none")
    /\ run' = Replaced(run)
    /\ UNCHANGED <<shown, files, authenticated, disk, history>>

\* GET /api/auth/me succeeds, or the server cannot be reached.
TokenAccepted ==
    /\ main.at = "verify"
    /\ authenticated' = TRUE
    /\ main' = [main EXCEPT !.at = "resume"]
    /\ UNCHANGED <<shown, files, client, disk, run, history, events>>

StoredExpired ==
    /\ main.at = "verify" /\ main.who.refresh # None
    /\ main' = [main EXCEPT !.at = "refresh"]
    /\ UNCHANGED <<memory, disk, run, history, events>>

StoredRefreshed ==
    /\ main.at = "refresh" /\ main.who.refresh.server = client.url
    /\ client' = [client EXCEPT !.token = main.who.refresh]
    /\ SaveOrTear("access_token", main.who.refresh)
    /\ authenticated' = TRUE
    /\ run' = Overtaken(run)
    /\ main' = [main EXCEPT !.at = "resume"]
    /\ UNCHANGED <<shown, files, registeredAt, profiles, session, out, lost>>

\* No refresh token, a refresh that is refused, another HTTP error: all entries go.
StoredRefused ==
    /\ main.at \in {"verify", "refresh"}
    /\ main' = Doing("wipe", None, 1, "pair")
    /\ UNCHANGED <<memory, disk, run, history, events>>

\* The rest of handleCheckStoredTokens: name and file client follow.
Resume ==
    /\ main.at = "resume"
    /\ shown' = main.who.name /\ session' = main.who.name /\ out' = FALSE
    /\ \E a \in LoadToken("access_token") : files' = [url |-> client.url, token |-> a]
    /\ main' = Idle
    /\ UNCHANGED <<authenticated, client, disk, run, lost, mixups, events>>

\* SyncEngine::logout: the run under way goes on, without a token.
Logout ==
    /\ Event
    /\ main = Idle
    /\ authenticated' = FALSE
    /\ client' = [client EXCEPT !.token = None]
    /\ run' = Overtaken(run)
    /\ main' = Doing("wipe", None, 1, "logout")
    /\ UNCHANGED <<shown, files, disk, history>>

\* Mutant of WipeNext: the address of the server stays for the next sign-in.
WipeNextKeepsServer ==
    /\ main.at = "wipe" /\ main.k < 4
    /\ \/ DeleteToken(KeyAt[main.k]) /\ UNCHANGED <<mixups, events>>
       \/ DeleteRefused(KeyAt[main.k]) /\ mixups' = mixups \union {"undeleted"}
    /\ run' = Overtaken(run)
    /\ main' = [main EXCEPT !.k = IF main.k = 2 THEN 4 ELSE @ + 1]
    /\ UNCHANGED <<memory, registeredAt, profiles, session, out, lost>>

\* One entry after the other.
WipeNext ==
    /\ main.at = "wipe" /\ main.k < 4
    /\ \/ DeleteToken(KeyAt[main.k]) /\ UNCHANGED <<mixups, events>>
       \/ DeleteRefused(KeyAt[main.k]) /\ mixups' = mixups \union {"undeleted"}
    /\ run' = Overtaken(run)
    /\ main' = [main EXCEPT !.k = @ + 1]
    /\ UNCHANGED <<memory, registeredAt, profiles, session, out, lost>>

\* The last entry, and the rest of handleLogout.
WipeLast ==
    /\ main.at = "wipe" /\ main.k = 4
    /\ \/ DeleteToken(KeyAt[4]) /\ UNCHANGED <<mixups, events>>
       \/ DeleteRefused(KeyAt[4]) /\ mixups' = mixups \union {"undeleted"}
    /\ IF main.then = "logout"
       THEN shown' = None /\ files' = None /\ session' = None /\ out' = TRUE
       ELSE UNCHANGED <<shown, files, session, out>>
    /\ run' = Overtaken(run)
    /\ main' = Idle
    /\ UNCHANGED <<authenticated, client, registeredAt, profiles, lost>>

-----------------------------------------------------------------------------
(* Other commands.                                                           *)

SignedIn == files # None /\ (files # None => files.token # None)

\* BaluhostClient::makeRequest: the token of the keychain comes before its own.
FileRequest ==
    /\ Event
    /\ main = Idle /\ SignedIn
    /\ \E a \in LoadToken("access_token") \ {None} : files' = [files EXCEPT !.token = a]
    /\ UNCHANGED <<shown, authenticated, client, disk, main, run, history>>

\* The owner of a new profile is the name shown, or nobody.
AddProfile ==
    /\ Event
    /\ main = Idle
    /\ profiles' = profiles \union {shown}
    /\ UNCHANGED <<memory, store, registeredAt, main, run, history>>

\* Profiles are deleted by id, whoever owns them.
DeleteProfile(owner) ==
    /\ Event
    /\ main = Idle
    /\ profiles' = profiles \ {owner}
    /\ UNCHANGED <<memory, store, registeredAt, main, run, history>>

\* The process ends, by itself or with a client destroyed under a request, and starts again.
Restart ==
    /\ Event
    /\ shown' = None /\ files' = None /\ authenticated' = FALSE /\ session' = None
    /\ client' = [url |-> DefaultServer, token |-> None]
    /\ main' = Idle /\ run' = NoRun
    /\ mixups' = mixups \union (IF main.at = "save" THEN {"torn"} ELSE {})
                        \union (IF main.at = "files" THEN {"failed_login"} ELSE {})
    /\ UNCHANGED <<disk, out, lost>>

-----------------------------------------------------------------------------
Run ==
    \/ StartRun \/ RequestAnswered \/ TokenExpires \/ SessionLost
    \/ TokenRefreshed \/ RefreshRefused \/ SaveRefreshed

Command ==
    \/ \E account \in Accounts : Login(account) \/ SetTokens(account)
    \/ FilesLogin \/ FilesLoginRefused \/ EngineLogin \/ EngineLoginRefused
    \/ SaveNext \/ Register
    \/ CheckStored \/ TokenAccepted \/ StoredExpired \/ StoredRefreshed
    \/ StoredRefused \/ Resume
    \/ Logout \/ WipeNext \/ WipeLast
    \/ FileRequest \/ AddProfile \/ \E owner \in Users \union {None} : DeleteProfile(owner)

Next == Run \/ Command \/ Restart

Spec == Init /\ [][Next]_vars

-----------------------------------------------------------------------------
(* Properties.                                                               *)

Clean(causes) == mixups \intersect causes = {}

\* After sign-out no command but a new sign-in brings the account back: what a run that
\* was refreshing its token writes afterwards is not enough for check_stored_tokens.
SignedOutStaysOut ==
    out /\ Clean({"undeleted"}) =>
        /\ ~authenticated /\ shown = None /\ files = None
        /\ store["access_token"] = None \/ store["server_url"] = None

\* The entries of the keychain belong to one account, although they are written one by
\* one and a run writes to them: an automatic sign-in never pairs one user's token with
\* another's name or server.
StoreHoldsOneAccount ==
    main.at # "save" /\ Clean({"late_refresh", "torn"}) =>
        \A key \in Keys : store[key] # None /\ store["access_token"] # None =>
            store[key] = Credential(key, store["access_token"])

\* Runs synchronise with the account of the user the window shows.
SyncsAsShown ==
    main = Idle /\ authenticated /\ shown # None
        /\ Clean({"failed_login", "late_refresh", "torn", "other_pairing"}) =>
        /\ client.token # None /\ client.token.user = shown
        /\ client.token.server = client.url

\* The tokens the next file request may carry.
FileTokens ==
    IF SignedIn THEN {store["access_token"], files.token} \ {None} ELSE {}

\* File operations are those of the user shown, unless the tokens in the store are those
\* of another pairing.
FilesAsPaired ==
    main = Idle /\ shown # None
        /\ Clean({"late_refresh", "torn", "other_pairing"}) =>
        \A token \in FileTokens : token = [user |-> shown, server |-> files.url]

\* "User changed - clearing old profiles": with no change of user and no sign-in that
\* failed, no profile is lost, whatever signs out, restarts and automatic sign-ins
\* lie between.
ProfilesKept == main = Idle /\ lost => ~Clean({"switched", "failed_login"})
=============================================================================
