---------------------------- MODULE AccountProof ----------------------------
(***************************************************************************)
(* What holds of module Account for all users, servers and bounds: types,  *)
(* what sign-out leaves behind, when profiles are lost, whose entries the  *)
(* keychain holds, and whose tokens runs and file requests use.            *)
(***************************************************************************)
EXTENDS Account, TLAPS

\* What the command under way has in hand.
MainInv ==
    /\ main.at \in {"files", "engine", "save", "register"} => main.who \in Accounts
    /\ main.at = "files" => files \in Clients
    /\ main.at \in {"verify", "refresh", "resume"} =>
          main.who \in [refresh : Tokens, name : Users \union {None}]
    /\ main.at = "refresh" => main.who.refresh \in Accounts
    /\ main.at \in {"save", "wipe"} => main.k \in 1 .. 4

RunInv == run.at \in {"refresh", "save"} => run.refresh \in Accounts

TypeInv == TypeOK /\ MainInv /\ RunInv

LEMMA KeysInOrder ==
    /\ KeyAt[1] = "access_token" /\ KeyAt[2] = "refresh_token"
    /\ KeyAt[3] = "server_url" /\ KeyAt[4] = "paired_username"
    /\ \A k \in 1 .. 4 : KeyAt[k] \in Keys
BY DEF KeyAt, Keys

\* A write to the keychain keeps it well typed.
StoreOK(st) ==
    /\ st \in [Keys -> Tokens \union Servers \union Users]
    /\ st["access_token"] \in Tokens /\ st["refresh_token"] \in Tokens
    /\ st["server_url"] \in Servers \union {None}
    /\ st["paired_username"] \in Users \union {None}

LEMMA StoreTyped ==
    ASSUME TypeInv, NEW key \in Keys
    PROVE  /\ DeleteToken(key) \/ SaveRefused(key) => StoreOK(store')
           /\ \A account \in Accounts :
                 SaveToken(key, Credential(key, account)) => StoreOK(store')
BY DEF TypeInv, TypeOK, StoreOK, Keys, DeleteToken, SaveRefused, SaveToken, Credential,
       Accounts, Tokens

\* The records of run and main are updated field by field.
LEMMA RunFields ==
    /\ NoRun \in Runs /\ NoRun.at = "off"
    /\ [NoRun EXCEPT !.at = "request"] \in Runs
    /\ [NoRun EXCEPT !.at = "request", !.tried = TRUE] \in Runs
    /\ \A r \in Runs :
          /\ [r EXCEPT !.stale = FALSE] \in Runs /\ [r EXCEPT !.at = "save"] \in Runs
          /\ Replaced(r) \in Runs /\ Overtaken(r) \in Runs
          /\ Replaced(r).at = r.at /\ Overtaken(r).at = r.at
          /\ Replaced(r).refresh = r.refresh /\ Overtaken(r).refresh = r.refresh
<1>1. NoRun \in Runs /\ NoRun.at = "off"
  BY AccountAssumption DEF NoRun, Runs, Tokens
<1>2. ASSUME NEW r \in Runs
      PROVE  /\ [r EXCEPT !.stale = FALSE] \in Runs /\ [r EXCEPT !.at = "save"] \in Runs
             /\ [r EXCEPT !.at = "request"] \in Runs
             /\ [r EXCEPT !.at = "request", !.tried = TRUE] \in Runs
  BY DEF Runs
<1>3. ASSUME NEW r \in Runs
      PROVE  /\ Replaced(r) \in Runs /\ Replaced(r).at = r.at
             /\ Replaced(r).refresh = r.refresh
  <2> DEFINE st == r.at \in {"request", "refresh"}
             la == r.at \in {"refresh", "save"}
  <2>1. st \in BOOLEAN /\ la \in BOOLEAN
    OBVIOUS
  <2>2. Replaced(r) = [r EXCEPT !.stale = st, !.late = la]
    BY DEF Replaced
  <2> HIDE DEF st, la
  <2> QED BY <2>1, <2>2 DEF Runs
<1>4. ASSUME NEW r \in Runs
      PROVE  /\ Overtaken(r) \in Runs /\ Overtaken(r).at = r.at
             /\ Overtaken(r).refresh = r.refresh
  <2> DEFINE la == r.late \/ r.at \in {"refresh", "save"}
  <2>1. la \in BOOLEAN
    OBVIOUS
  <2>2. Overtaken(r) = [r EXCEPT !.late = la]
    BY DEF Overtaken
  <2> HIDE DEF la
  <2> QED BY <2>1, <2>2 DEF Runs
<1> QED BY <1>1, <1>2, <1>3, <1>4

\* main is either begun afresh, or goes on with the same command.
LEMMA MainIdle == Idle \in Mains /\ Idle.at = "idle" /\ Idle.k = 0 /\ Idle.then = "none"
BY DEF Idle, Doing, Mains, Tokens

LEMMA MainBegins ==
    ASSUME NEW account \in Accounts,
           NEW at \in {"files", "engine", "register"},
           Begin(at, account)
    PROVE  main' \in Mains /\ main'.at = at /\ main'.who = account
BY DEF Begin, Doing, Mains, Tokens

LEMMA MainGoesOn ==
    ASSUME NEW m \in Mains
    PROVE  /\ \A at \in {"refresh", "resume"} :
                 LET n == [m EXCEPT !.at = at]
                 IN  n \in Mains /\ n.at = at /\ n.who = m.who
           /\ m.k \in 1 .. 3 =>
                 LET n == [m EXCEPT !.k = @ + 1]
                 IN  /\ n \in Mains /\ n.at = m.at /\ n.who = m.who
                     /\ n.then = m.then /\ n.k = m.k + 1 /\ n.k \in 1 .. 4
BY DEF Mains

\* The types are kept by the steps of a run.
LEMMA RunTyped == ASSUME TypeInv, Run PROVE TypeInv'
<1> USE DEF TypeInv, TypeOK, memory, disk, history
<1>m. MainInv'
  BY DEF Run, StartRun, RequestAnswered, TokenExpires, SessionLost, TokenRefreshed,
         RefreshRefused, SaveRefreshed, MainInv
<1>1. CASE StartRun
  BY <1>1, <1>m, RunFields DEF StartRun, RunInv, NoRun
<1>2. CASE RequestAnswered
  <2>1. run' \in Runs /\ run'.at \in {"off", "request"}
    <3>1. CASE run' = [run EXCEPT !.stale = FALSE]
      BY <1>2, <3>1 DEF RequestAnswered, Runs
    <3>2. CASE run' = NoRun
      BY <3>2, RunFields
    <3> QED BY <1>2, <3>1, <3>2 DEF RequestAnswered
  <2> QED BY <1>2, <1>m, <2>1 DEF RequestAnswered, RunInv
<1>3. CASE TokenExpires
  <2> DEFINE late == main # Idle
  <2>1. PICK r \in LoadToken("refresh_token") \ {None} :
          run' = [run EXCEPT !.at = "refresh", !.refresh = r, !.url = client.url,
                             !.stale = FALSE, !.late = late]
    BY <1>3 DEF TokenExpires
  <2>2. client.url \in Servers /\ r \in Accounts /\ late \in BOOLEAN
    BY DEF Clients, LoadToken, Tokens
  <2> HIDE DEF late
  <2>3. run' \in Runs /\ run'.refresh = r
    BY <2>1, <2>2 DEF Runs, Tokens
  <2> QED BY <1>3, <1>m, <2>2, <2>3 DEF TokenExpires, RunInv
<1>4. CASE SessionLost
  BY <1>4, <1>m, RunFields DEF SessionLost, RunInv
<1>5. CASE TokenRefreshed
  <2>1. client' \in Clients
    BY <1>5 DEF TokenRefreshed, Clients, Runs
  <2>2. mixups' \subseteq MixUps
    BY <1>5 DEF TokenRefreshed, MixUps
  <2> QED BY <1>5, <1>m, <2>1, <2>2, RunFields DEF TokenRefreshed, RunInv, Runs
<1>6. CASE RefreshRefused
  BY <1>6, <1>m, RunFields DEF RefreshRefused, RunInv
<1>7. CASE SaveRefreshed
  <2>1. StoreOK(store')
    <3>1. "access_token" \in Keys BY DEF Keys
    <3>2. run.refresh = Credential("access_token", run.refresh) BY DEF Credential
    <3>3. run.refresh \in Accounts BY <1>7 DEF SaveRefreshed, RunInv
    <3> QED BY <1>7, <3>1, <3>2, <3>3, StoreTyped DEF SaveRefreshed
  <2>2. mixups' \subseteq MixUps
    BY <1>7 DEF SaveRefreshed, MixUps
  <2>3. events' \in Nat
    BY <1>7 DEF SaveRefreshed, SaveRefused, Event
  <2> QED BY <1>7, <1>m, <2>1, <2>2, <2>3, RunFields
       DEF SaveRefreshed, StoreOK, RunInv, NoRun
<1> QED BY <1>1, <1>2, <1>3, <1>4, <1>5, <1>6, <1>7 DEF Run

\* The types are kept by sign-in with a password or with tokens.
LEMMA SignInTyped ==
    ASSUME TypeInv,
           \/ \E account \in Accounts : Login(account) \/ SetTokens(account)
           \/ FilesLogin \/ FilesLoginRefused \/ EngineLogin \/ EngineLoginRefused
           \/ SaveNext \/ Register
    PROVE  TypeInv'
<1> USE DEF TypeInv, TypeOK, memory, disk, history
<1>1. ASSUME NEW account \in Accounts, Login(account) PROVE TypeInv'
  <2>1. account.user \in Users /\ account.server \in Servers
    BY DEF Accounts
  <2>2. [url |-> account.server, token |-> None] \in Clients
    BY <2>1 DEF Clients, Tokens
  <2>3. /\ shown' \in Users \union {None} /\ out' \in BOOLEAN
        /\ profiles' \subseteq Users \union {None} /\ lost' \in BOOLEAN
    BY <1>1, <2>1 DEF Login, TakeName
  <2>4. events' \in Nat
    BY <1>1 DEF Login, Event
  <2>5. MainInv' /\ main' \in Mains
    BY <1>1, <2>2, MainBegins DEF Login, MainInv
  <2>6. RunInv' /\ run' \in Runs
    BY <1>1, RunFields DEF Login, RunInv
  <2> QED BY <1>1, <2>2, <2>3, <2>4, <2>5, <2>6 DEF Login
<1>2. ASSUME NEW account \in Accounts, SetTokens(account) PROVE TypeInv'
  <2>1. account.user \in Users /\ account.server \in Servers
    BY DEF Accounts
  <2>2. [url |-> account.server, token |-> account] \in Clients
    BY <2>1 DEF Clients, Tokens
  <2>3. /\ shown' \in Users \union {None} /\ out' \in BOOLEAN
        /\ profiles' \subseteq Users \union {None} /\ lost' \in BOOLEAN
    BY <1>2, <2>1 DEF SetTokens, TakeName
  <2>4. session' \in Users \union {None} /\ mixups' \subseteq MixUps
    BY <1>2, <2>1 DEF SetTokens, Welcome, MixUps
  <2>5. events' \in Nat
    BY <1>2 DEF SetTokens, Event
  <2>6. MainInv' /\ main' \in Mains
    <3>1. main' \in Mains /\ main'.at = "save" /\ main'.who = account /\ main'.k = 1
      BY <1>2 DEF SetTokens, Doing, Mains, Tokens
    <3> QED BY <3>1 DEF MainInv
  <2>7. RunInv' /\ run' \in Runs
    BY <1>2, RunFields DEF SetTokens, RunInv
  <2> QED BY <1>2, <2>2, <2>3, <2>4, <2>5, <2>6, <2>7 DEF SetTokens
<1>3. CASE FilesLogin
  <2>1. main.who \in Accounts /\ main.who.user \in Users
    BY <1>3 DEF FilesLogin, MainInv, Accounts
  <2>2. files' \in Clients \union {None}
    BY <1>3, <2>1 DEF FilesLogin, MainInv, Clients, Tokens
  <2>3. session' \in Users \union {None} /\ mixups' \subseteq MixUps
    BY <1>3, <2>1 DEF FilesLogin, Welcome, MixUps
  <2>4. MainInv' /\ main' \in Mains
    BY <1>3, <2>1, MainBegins DEF FilesLogin, MainInv
  <2> QED BY <1>3, <2>2, <2>3, <2>4 DEF FilesLogin, RunInv
<1>4. CASE FilesLoginRefused
  BY <1>4, MainIdle DEF FilesLoginRefused, MainInv, RunInv, MixUps
<1>5. CASE EngineLogin
  <2>1. main.who \in Accounts
    BY <1>5 DEF EngineLogin, MainInv
  <2>2. client' \in Clients
    BY <1>5, <2>1 DEF EngineLogin, Clients, Accounts, Tokens
  <2>3. mixups' \subseteq MixUps
    BY <1>5 DEF EngineLogin, NotePairing, MixUps
  <2>4. MainInv' /\ main' \in Mains
    BY <1>5, <2>1, MainBegins DEF EngineLogin, MainInv
  <2>5. RunInv' /\ run' \in Runs
    BY <1>5, RunFields DEF EngineLogin, RunInv
  <2> QED BY <1>5, <2>2, <2>3, <2>4, <2>5 DEF EngineLogin
<1>6. CASE EngineLoginRefused
  <2>1. mixups' \subseteq MixUps
    BY <1>6 DEF EngineLoginRefused, NotePairing, MixUps
  <2> QED BY <1>6, <2>1, MainIdle DEF EngineLoginRefused, MainInv, RunInv
<1>7. CASE SaveNext
  <2>1. main.who \in Accounts /\ main.k \in 1 .. 4 /\ KeyAt[main.k] \in Keys
    BY <1>7, KeysInOrder DEF SaveNext, MainInv
  <2>2. StoreOK(store')
    BY <1>7, <2>1, StoreTyped DEF SaveNext, SaveOrTear
  <2>3. mixups' \subseteq MixUps /\ events' \in Nat
    BY <1>7 DEF SaveNext, SaveOrTear, SaveRefused, Event, MixUps
  <2>4. MainInv' /\ main' \in Mains
    <3>1. CASE main.k < 4
      <4>1. main.k \in 1 .. 3
        BY <2>1, <3>1
      <4> QED BY <1>7, <2>1, <3>1, <4>1, MainGoesOn DEF SaveNext, MainInv
    <3>2. CASE ~(main.k < 4)
      BY <1>7, <2>1, <3>2, MainBegins DEF SaveNext, MainInv
    <3> QED BY <3>1, <3>2
  <2>5. RunInv' /\ run' \in Runs
    BY <1>7, RunFields DEF SaveNext, RunInv
  <2>6. authenticated' \in BOOLEAN
    BY <1>7 DEF SaveNext
  <2> QED BY <1>7, <2>2, <2>3, <2>4, <2>5, <2>6 DEF SaveNext, StoreOK
<1>8. CASE Register
  <2>1. client.url \in Servers
    BY DEF Clients
  <2> QED BY <1>8, <2>1, MainIdle DEF Register, MainInv, RunInv
<1> QED BY <1>1, <1>2, <1>3, <1>4, <1>5, <1>6, <1>7, <1>8

\* The types are kept by automatic sign-in and by sign-out.
LEMMA SignOutTyped ==
    ASSUME TypeInv,
           \/ CheckStored \/ TokenAccepted \/ StoredExpired \/ StoredRefreshed
           \/ StoredRefused \/ Resume \/ Logout \/ WipeNext \/ WipeLast
    PROVE  TypeInv'
<1> USE DEF TypeInv, TypeOK, memory, disk, history
<1>1. CASE CheckStored
  <2>1. PICK a \in LoadToken("access_token") \ {None}, s \in LoadToken("server_url") \ {None},
             r \in LoadToken("refresh_token"), n \in LoadToken("paired_username") :
          /\ client' = [url |-> s, token |-> a]
          /\ main' = Doing("verify", [refresh |-> r, name |-> n], 0, "none")
    BY <1>1 DEF CheckStored
  <2>2. /\ a \in Tokens /\ s \in Servers /\ r \in Tokens /\ n \in Users \union {None}
    BY DEF LoadToken, Tokens
  <2>3. client' \in Clients
    BY <2>1, <2>2 DEF Clients
  <2>4. [refresh |-> r, name |-> n] \in [refresh : Tokens, name : Users \union {None}]
    BY <2>2
  <2>5. MainInv' /\ main' \in Mains
    <3> HIDE DEF TypeInv, TypeOK
    <3> QED BY <2>1, <2>4 DEF Doing, Mains, MainInv
  <2>6. RunInv' /\ run' \in Runs
    BY <1>1, RunFields DEF CheckStored, RunInv
  <2>7. events' \in Nat
    BY <1>1 DEF CheckStored, Event
  <2> QED BY <1>1, <2>3, <2>5, <2>6, <2>7 DEF CheckStored
<1>2. CASE TokenAccepted
  BY <1>2, MainGoesOn DEF TokenAccepted, MainInv, RunInv
<1>3. CASE StoredExpired
  <2>1. main.who.refresh \in Accounts
    BY <1>3 DEF StoredExpired, MainInv, Tokens
  <2>2. main' \in Mains /\ main'.at = "refresh" /\ main'.who = main.who
    BY <1>3, MainGoesOn DEF StoredExpired
  <2>3. main.who \in [refresh : Tokens, name : Users \union {None}]
    BY <1>3 DEF StoredExpired, MainInv
  <2>4. MainInv'
    <3> HIDE DEF TypeInv, TypeOK
    <3> QED BY <2>1, <2>2, <2>3 DEF MainInv
  <2> QED BY <1>3, <2>2, <2>4 DEF StoredExpired, RunInv
<1>4. CASE StoredRefreshed
  <2>1. main.who.refresh \in Accounts
    BY <1>4 DEF StoredRefreshed, MainInv
  <2>2. client' \in Clients
    BY <1>4, <2>1 DEF StoredRefreshed, Clients, Tokens
  <2>3. StoreOK(store')
    <3>1. "access_token" \in Keys BY DEF Keys
    <3>2. main.who.refresh = Credential("access_token", main.who.refresh) BY DEF Credential
    <3> QED BY <1>4, <2>1, <3>1, <3>2, StoreTyped DEF StoredRefreshed, SaveOrTear
  <2>4. mixups' \subseteq MixUps /\ events' \in Nat
    BY <1>4 DEF StoredRefreshed, SaveOrTear, SaveRefused, Event, MixUps
  <2>5. RunInv' /\ run' \in Runs
    BY <1>4, RunFields DEF StoredRefreshed, RunInv
  <2>6. MainInv' /\ main' \in Mains
    BY <1>4, MainGoesOn DEF StoredRefreshed, MainInv
  <2> QED BY <1>4, <2>2, <2>3, <2>4, <2>5, <2>6 DEF StoredRefreshed, StoreOK
<1>5. CASE StoredRefused
  <2>1. main' \in Mains /\ MainInv'
    BY <1>5 DEF StoredRefused, Doing, Mains, Tokens, MainInv
  <2> QED BY <1>5, <2>1 DEF StoredRefused, RunInv
<1>6. CASE Resume
  <2>1. main.who.name \in Users \union {None}
    BY <1>6 DEF Resume, MainInv
  <2>2. files' \in Clients \union {None}
    <3>1. PICK a \in LoadToken("access_token") : files' = [url |-> client.url, token |-> a]
      BY <1>6 DEF Resume
    <3>2. a \in Tokens /\ client.url \in Servers
      BY DEF LoadToken, Tokens, Clients
    <3> QED BY <3>1, <3>2 DEF Clients
  <2> QED BY <1>6, <2>1, <2>2, MainIdle DEF Resume, MainInv, RunInv
<1>7. CASE Logout
  <2>1. main' \in Mains /\ MainInv'
    BY <1>7 DEF Logout, Doing, Mains, Tokens, MainInv
  <2>2. client' \in Clients
    BY <1>7 DEF Logout, Clients, Tokens
  <2>3. events' \in Nat
    BY <1>7 DEF Logout, Event
  <2>4. RunInv' /\ run' \in Runs
    BY <1>7, RunFields DEF Logout, RunInv
  <2> QED BY <1>7, <2>1, <2>2, <2>3, <2>4 DEF Logout
<1>8. CASE WipeNext
  <2>1. main.k \in 1 .. 3 /\ KeyAt[main.k] \in Keys
    BY <1>8, KeysInOrder DEF WipeNext, MainInv
  <2>2. StoreOK(store')
    BY <1>8, <2>1, StoreTyped DEF WipeNext, DeleteRefused, StoreOK
  <2>3. mixups' \subseteq MixUps /\ events' \in Nat
    BY <1>8 DEF WipeNext, DeleteRefused, Event, MixUps
  <2>4. MainInv' /\ main' \in Mains
    BY <1>8, <2>1, MainGoesOn DEF WipeNext, MainInv
  <2>5. RunInv' /\ run' \in Runs
    BY <1>8, RunFields DEF WipeNext, RunInv
  <2> QED BY <1>8, <2>2, <2>3, <2>4, <2>5 DEF WipeNext, StoreOK
<1>9. CASE WipeLast
  <2>1. StoreOK(store')
    BY <1>9, KeysInOrder, StoreTyped DEF WipeLast, DeleteRefused, StoreOK
  <2>2. mixups' \subseteq MixUps /\ events' \in Nat
    <3>1. \/ UNCHANGED <<mixups, events>>
          \/ events' = events + 1 /\ mixups' = mixups \union {"undeleted"}
      BY <1>9 DEF WipeLast, DeleteRefused, Event
    <3>2. mixups \union {"undeleted"} \subseteq MixUps /\ events + 1 \in Nat
      BY DEF MixUps
    <3> QED BY <3>1, <3>2
  <2>3. RunInv' /\ run' \in Runs
    BY <1>9, RunFields DEF WipeLast, RunInv
  <2>4. MainInv' /\ main' \in Mains
    BY <1>9, MainIdle DEF WipeLast, MainInv
  <2>5. /\ shown' \in Users \union {None} /\ session' \in Users \union {None}
        /\ files' \in Clients \union {None} /\ out' \in BOOLEAN
    BY <1>9 DEF WipeLast
  <2> QED BY <1>9, <2>1, <2>2, <2>3, <2>4, <2>5 DEF WipeLast, StoreOK
<1> QED BY <1>1, <1>2, <1>3, <1>4, <1>5, <1>6, <1>7, <1>8, <1>9

\* The types are kept by the other commands and by a restart.
LEMMA RestTyped ==
    ASSUME TypeInv,
           \/ FileRequest \/ AddProfile \/ \E owner \in Users \union {None} : DeleteProfile(owner)
           \/ Restart
           \/ UNCHANGED vars
    PROVE  TypeInv'
<1> USE DEF TypeInv, TypeOK, memory, disk, history
<1>1. CASE FileRequest
  <2>1. files' \in Clients \union {None}
    <3>1. PICK a \in LoadToken("access_token") \ {None} : files' = [files EXCEPT !.token = a]
      BY <1>1 DEF FileRequest
    <3>2. a \in Tokens /\ files \in Clients
      BY <1>1 DEF LoadToken, FileRequest, SignedIn
    <3> QED BY <3>1, <3>2 DEF Clients
  <2>2. events' \in Nat
    BY <1>1 DEF FileRequest, Event
  <2> QED BY <1>1, <2>1, <2>2, MainIdle DEF FileRequest, MainInv, RunInv
<1>2. CASE AddProfile
  BY <1>2, MainIdle DEF AddProfile, Event, MainInv, RunInv
<1>3. ASSUME NEW owner \in Users \union {None}, DeleteProfile(owner) PROVE TypeInv'
  BY <1>3, MainIdle DEF DeleteProfile, Event, MainInv, RunInv
<1>4. CASE Restart
  <2>1. client' \in Clients
    BY <1>4, AccountAssumption DEF Restart, Clients, Tokens
  <2>2. mixups' \subseteq MixUps
    BY <1>4 DEF Restart, MixUps
  <2>3. events' \in Nat
    BY <1>4 DEF Restart, Event
  <2> QED BY <1>4, <2>1, <2>2, <2>3, MainIdle, RunFields DEF Restart, MainInv, RunInv
<1>5. CASE UNCHANGED vars
  BY <1>5 DEF vars, MainInv, RunInv
<1> QED BY <1>1, <1>2, <1>3, <1>4, <1>5

LEMMA TypeInit == Init => TypeInv
<1> SUFFICES ASSUME Init PROVE TypeInv
  OBVIOUS
<1>1. client \in Clients /\ store \in [Keys -> Tokens \union Servers \union Users]
  BY AccountAssumption DEF Init, Clients, Tokens, NoStore
<1>2. \A key \in {"access_token", "refresh_token", "server_url", "paired_username"} :
         store[key] = None
  BY DEF Init, NoStore, Keys
<1> QED BY <1>1, <1>2, MainIdle, RunFields, AccountAssumption
     DEF Init, TypeInv, TypeOK, MainInv, RunInv, Tokens, MixUps

LEMMA TypeStep == TypeInv /\ [Next]_vars => TypeInv'
BY RunTyped, SignInTyped, SignOutTyped, RestTyped DEF Next, Command

\* Every variable keeps its type: who is signed in, what is in the keychain, and what the
\* run and the command under way hold.
THEOREM TypeCorrect == Spec => []TypeOK
<1>1. Spec => []TypeInv
  BY TypeInit, TypeStep, PTL DEF Spec
<1>2. TypeInv => TypeOK
  BY DEF TypeInv
<1> QED BY <1>1, <1>2, PTL

-----------------------------------------------------------------------------
\* Signed out, the address of the server is gone, and without it no stored token is
\* tried; what a late run writes is the access token only.
OutInv ==
    /\ out /\ Clean({"undeleted"}) =>
          /\ ~authenticated /\ shown = None /\ files = None /\ store["server_url"] = None
          /\ main.at \in {"idle", "wipe"} /\ (main.at = "wipe" => main.then = "logout")
    /\ main.at = "wipe" /\ main.k = 4 /\ Clean({"undeleted"}) => store["server_url"] = None
    /\ main.at = "wipe" /\ main.then = "logout" => ~authenticated

LEMMA OutRun == ASSUME TypeInv, OutInv, Run PROVE OutInv'
<1> USE DEF OutInv, Clean, memory, disk, history
<1>1. CASE StartRun \/ RequestAnswered \/ TokenExpires
  <2>1. UNCHANGED <<memory, disk, main, history>>
    BY <1>1 DEF StartRun, RequestAnswered, TokenExpires
  <2> QED BY <2>1
<1>4. CASE SessionLost \/ RefreshRefused
  <2>1. authenticated' = FALSE /\ UNCHANGED <<shown, files, disk, main, history>>
    BY <1>4 DEF SessionLost, RefreshRefused
  <2> QED BY <2>1
<1>2. CASE TokenRefreshed
  BY <1>2 DEF TokenRefreshed
<1>3. CASE SaveRefreshed
  <2>1. store'["server_url"] = store["server_url"]
    BY <1>3 DEF SaveRefreshed, SaveToken, SaveRefused, TypeInv, TypeOK, Keys
  <2> QED BY <1>3, <2>1 DEF SaveRefreshed
<1> QED BY <1>1, <1>2, <1>3, <1>4 DEF Run

LEMMA OutSignIn ==
    ASSUME TypeInv, OutInv,
           \/ \E account \in Accounts : Login(account) \/ SetTokens(account)
           \/ FilesLogin \/ FilesLoginRefused \/ EngineLogin \/ EngineLoginRefused
           \/ SaveNext \/ Register
    PROVE  OutInv'
<1> USE MainIdle DEF OutInv, Clean, memory, disk, history, Begin, Doing
<1>1. ASSUME NEW account \in Accounts, Login(account) \/ SetTokens(account) PROVE OutInv'
  <2>1. out' = FALSE /\ main'.at \in {"files", "save"}
    BY <1>1 DEF Login, SetTokens, TakeName
  <2> QED BY <2>1
<1>2. CASE FilesLogin
  BY <1>2 DEF FilesLogin, Welcome
<1>3. CASE FilesLoginRefused
  BY <1>3 DEF FilesLoginRefused
<1>4. CASE EngineLogin
  BY <1>4 DEF EngineLogin, NotePairing
<1>5. CASE EngineLoginRefused
  BY <1>5 DEF EngineLoginRefused, NotePairing
<1>6. CASE SaveNext
  <2>1. main'.at \in {"save", "register"} /\ mixups \subseteq mixups' /\ out' = out
    BY <1>6 DEF SaveNext, SaveOrTear, TypeInv, TypeOK, Mains
  <2> QED BY <1>6, <2>1 DEF SaveNext
<1>7. CASE Register
  BY <1>7 DEF Register
<1> QED BY <1>1, <1>2, <1>3, <1>4, <1>5, <1>6, <1>7

LEMMA OutSignOut ==
    ASSUME TypeInv, OutInv,
           \/ CheckStored \/ TokenAccepted \/ StoredExpired \/ StoredRefreshed
           \/ StoredRefused \/ Resume \/ Logout \/ WipeNext \/ WipeLast
    PROVE  OutInv'
<1> USE MainIdle DEF OutInv, Clean, memory, disk, history, Doing
<1>1. CASE CheckStored
  <2>1. store["server_url"] # None
    BY <1>1 DEF CheckStored, LoadToken
  <2> QED BY <1>1, <2>1 DEF CheckStored
<1>2. CASE TokenAccepted
  BY <1>2 DEF TokenAccepted, TypeInv, TypeOK, Mains
<1>3. CASE StoredExpired
  BY <1>3 DEF StoredExpired, TypeInv, TypeOK, Mains
<1>4. CASE StoredRefreshed
  <2>1. main'.at = "resume" /\ mixups \subseteq mixups' /\ out' = out
    BY <1>4 DEF StoredRefreshed, SaveOrTear, TypeInv, TypeOK, Mains
  <2> QED BY <1>4, <2>1 DEF StoredRefreshed
<1>5. CASE StoredRefused
  BY <1>5 DEF StoredRefused
<1>6. CASE Resume
  BY <1>6 DEF Resume
<1>7. CASE Logout
  BY <1>7 DEF Logout
<1>8. CASE WipeNext
  <2>1. main.k \in 1 .. 3
    BY <1>8 DEF WipeNext, TypeInv, MainInv
  <2>2. /\ main'.at = "wipe" /\ main'.then = main.then /\ main'.k = main.k + 1
        /\ mixups \subseteq mixups' /\ out' = out
    BY <1>8, <2>1, MainGoesOn DEF WipeNext, TypeInv, TypeOK
  <2>3. store'["server_url"] \in {store["server_url"], None}
    BY <1>8 DEF WipeNext, DeleteToken, DeleteRefused, TypeInv, TypeOK, Keys
  <2>4. main'.k = 4 /\ Clean({"undeleted"})' => store'["server_url"] = None
    <3> SUFFICES ASSUME main'.k = 4, "undeleted" \notin mixups'
                 PROVE  store'["server_url"] = None
      BY DEF Clean
    <3>1. KeyAt[main.k] = "server_url"
      BY <2>1, <2>2, KeysInOrder
    <3>2. DeleteToken("server_url")
      BY <1>8, <3>1 DEF WipeNext
    <3> QED BY <3>2 DEF DeleteToken, TypeInv, TypeOK, Keys
  <2> QED BY <1>8, <2>2, <2>3, <2>4 DEF WipeNext
<1>9. CASE WipeLast
  <2>1. store'["server_url"] = store["server_url"]
    BY <1>9, KeysInOrder DEF WipeLast, DeleteToken, DeleteRefused, TypeInv, TypeOK, Keys
  <2>2. mixups \subseteq mixups'
    BY <1>9 DEF WipeLast
  <2> QED BY <1>9, <2>1, <2>2 DEF WipeLast
<1> QED BY <1>1, <1>2, <1>3, <1>4, <1>5, <1>6, <1>7, <1>8, <1>9

LEMMA OutRest ==
    ASSUME TypeInv, OutInv,
           \/ FileRequest \/ AddProfile \/ \E owner \in Users \union {None} : DeleteProfile(owner)
           \/ Restart
           \/ UNCHANGED vars
    PROVE  OutInv'
<1> USE MainIdle DEF OutInv, Clean, memory, disk, history
<1>1. CASE FileRequest
  BY <1>1 DEF FileRequest, SignedIn
<1>2. CASE AddProfile \/ \E owner \in Users \union {None} : DeleteProfile(owner)
  BY <1>2 DEF AddProfile, DeleteProfile
<1>3. CASE Restart
  BY <1>3 DEF Restart
<1>4. CASE UNCHANGED vars
  BY <1>4 DEF vars
<1> QED BY <1>1, <1>2, <1>3, <1>4

\* After sign-out, nothing but a new sign-in brings an account back.
THEOREM SignOutIsFinal == Spec => []SignedOutStaysOut
<1>1. Init => OutInv
  BY MainIdle DEF Init, OutInv
<1>2. TypeInv /\ OutInv /\ [Next]_vars => OutInv'
  BY OutRun, OutSignIn, OutSignOut, OutRest DEF Next, Command
<1>3. OutInv => SignedOutStaysOut
  BY DEF OutInv, SignedOutStaysOut
<1> QED BY <1>1, <1>2, <1>3, TypeInit, TypeStep, PTL DEF Spec

-----------------------------------------------------------------------------
\* While no sign-in has failed, the name shown is that of the session, except during a
\* login: there the profiles may be gone already, to a change of user that FilesLogin
\* will note.
ProfilesInv ==
    Clean({"failed_login"}) =>
        /\ main.at # "files" => shown = session
        /\ main.at = "files" => shown = main.who.user
        /\ lost /\ Clean({"switched"}) =>
              main.at = "files" /\ session \notin {None, main.who.user}

\* Steps that leave names and profiles alone.
LEMMA ProfilesQuiet ==
    ASSUME TypeInv, ProfilesInv,
           UNCHANGED <<shown, session, lost>>, mixups \subseteq mixups',
           (main.at # "files" /\ main'.at # "files") \/ main' = main
    PROVE  ProfilesInv'
BY DEF ProfilesInv, Clean

LEMMA ProfilesStep == ASSUME TypeInv, ProfilesInv, [Next]_vars PROVE ProfilesInv'
<1> USE DEF memory, disk, history
<1>1. CASE Run
  <2>1. UNCHANGED <<shown, session, lost, main>> /\ mixups \subseteq mixups'
    BY <1>1 DEF Run, StartRun, RequestAnswered, TokenExpires, SessionLost, TokenRefreshed,
                RefreshRefused, SaveRefreshed
  <2> QED BY <2>1, ProfilesQuiet
<1>2. ASSUME NEW account \in Accounts, Login(account) PROVE ProfilesInv'
  <2>1. main.at = "idle" /\ main'.at = "files" /\ main'.who = account
    BY <1>2, MainIdle DEF Login, Begin, Doing
  <2>2. /\ shown' = account.user /\ UNCHANGED <<session, mixups>>
        /\ lost' => lost \/ (shown # None /\ shown # account.user)
    BY <1>2 DEF Login, TakeName, TypeInv, TypeOK
  <2> QED BY <2>1, <2>2 DEF ProfilesInv, Clean
<1>3. ASSUME NEW account \in Accounts, SetTokens(account) PROVE ProfilesInv'
  <2>1. main.at = "idle" /\ main'.at = "save"
    BY <1>3, MainIdle DEF SetTokens, Doing
  <2>2. /\ shown' = account.user /\ session' = account.user
        /\ mixups \subseteq mixups'
        /\ session \notin {None, account.user} => "switched" \in mixups'
        /\ lost' => lost \/ (shown # None /\ shown # account.user)
    BY <1>3 DEF SetTokens, TakeName, Welcome, TypeInv, TypeOK
  <2> QED BY <2>1, <2>2 DEF ProfilesInv, Clean
<1>4. CASE FilesLogin
  <2>1. main'.at = "engine" /\ main.at = "files" /\ UNCHANGED <<shown, lost>>
    BY <1>4 DEF FilesLogin, Begin, Doing
  <2>2. /\ session' = main.who.user /\ mixups \subseteq mixups'
        /\ session \notin {None, main.who.user} => "switched" \in mixups'
    BY <1>4 DEF FilesLogin, Welcome
  <2> QED BY <2>1, <2>2 DEF ProfilesInv, Clean
<1>5. CASE FilesLoginRefused
  BY <1>5 DEF FilesLoginRefused, ProfilesInv, Clean
<1>6. CASE EngineLogin \/ EngineLoginRefused \/ SaveNext \/ Register
  <2>1. main.at \in {"engine", "save", "register"} /\ main'.at # "files"
    BY <1>6, MainIdle
       DEF EngineLogin, EngineLoginRefused, SaveNext, Register, Begin, Doing,
           TypeInv, TypeOK, Mains
  <2>2. UNCHANGED <<shown, session, lost>> /\ mixups \subseteq mixups'
    BY <1>6 DEF EngineLogin, EngineLoginRefused, SaveNext, Register, NotePairing, SaveOrTear
  <2> QED BY <2>1, <2>2, ProfilesQuiet
<1>7. CASE CheckStored \/ TokenAccepted \/ StoredExpired \/ StoredRefreshed
           \/ StoredRefused \/ Logout \/ WipeNext
  <2>1. main.at # "files" /\ main'.at # "files"
    BY <1>7, MainIdle
       DEF CheckStored, TokenAccepted, StoredExpired, StoredRefreshed, StoredRefused, Logout,
           WipeNext, Doing, TypeInv, TypeOK, Mains
  <2>2. UNCHANGED <<shown, session, lost>> /\ mixups \subseteq mixups'
    BY <1>7
       DEF CheckStored, TokenAccepted, StoredExpired, StoredRefreshed, StoredRefused, Logout,
           WipeNext, SaveOrTear
  <2> QED BY <2>1, <2>2, ProfilesQuiet
<1>8. CASE Resume \/ WipeLast
  <2>1. main.at # "files" /\ main'.at # "files" /\ UNCHANGED lost /\ mixups \subseteq mixups'
    BY <1>8, MainIdle DEF Resume, WipeLast
  <2>2. shown' = session' \/ UNCHANGED <<shown, session>>
    BY <1>8 DEF Resume, WipeLast
  <2> QED BY <2>1, <2>2 DEF ProfilesInv, Clean
<1>9. CASE FileRequest \/ AddProfile \/ \E owner \in Users \union {None} : DeleteProfile(owner)
  <2>1. UNCHANGED <<shown, session, lost, main, mixups>>
    BY <1>9 DEF FileRequest, AddProfile, DeleteProfile
  <2> QED BY <2>1, ProfilesQuiet
<1>10. CASE Restart
  <2>1. main'.at = "idle" /\ shown' = None /\ session' = None /\ lost' = lost
    BY <1>10, MainIdle DEF Restart
  <2>2. mixups \subseteq mixups' /\ (main.at = "files" => "failed_login" \in mixups')
    BY <1>10 DEF Restart
  <2> QED BY <2>1, <2>2 DEF ProfilesInv, Clean
<1>11. CASE UNCHANGED vars
  BY <1>11, ProfilesQuiet DEF vars
<1> QED BY <1>1, <1>2, <1>3, <1>4, <1>5, <1>6, <1>7, <1>8, <1>9, <1>10, <1>11
        DEF Next, Command

\* With no change of user and no sign-in that failed, no profile is lost.
THEOREM ProfilesAreKept == Spec => []ProfilesKept
<1>1. Init => ProfilesInv
  BY MainIdle DEF Init, ProfilesInv
<1>2. ProfilesInv => ProfilesKept
  BY MainIdle DEF ProfilesInv, ProfilesKept, Clean
<1> QED BY <1>1, <1>2, ProfilesStep, TypeInit, TypeStep, PTL DEF Spec

-----------------------------------------------------------------------------
\* Entries that are there belong to one account, even while the access token is not there.
\* That a run which was not overtaken keeps this rests on the main thread being idle since
\* the run read the refresh token.
Agree(st, account) == \A key \in Keys : st[key] \in {None, Credential(key, account)}
OneAccount(st) ==
    (\A key \in Keys : st[key] = None) \/ \E account \in Accounts : Agree(st, account)

StoreInv ==
    Clean({"late_refresh", "torn"}) =>
        /\ main.at # "save" => OneAccount(store)
        /\ main.at = "save" =>
              \A i \in 1 .. main.k - 1 : store[KeyAt[i]] = Credential(KeyAt[i], main.who)
        /\ main.at \in {"verify", "refresh"} =>
              main.who.refresh \in {None, store["refresh_token"]}
        /\ run.at \in {"refresh", "save"} /\ ~run.late =>
              main = Idle /\ run.refresh = store["refresh_token"]

\* A run is overtaken by what changes the account, or was not under way.
LEMMA LateFields ==
    ASSUME NEW r \in Runs
    PROVE  /\ r.at \in {"refresh", "save"} => Overtaken(r).late /\ Replaced(r).late
           /\ Overtaken(r).at = r.at /\ Replaced(r).at = r.at
BY DEF Runs, Overtaken, Replaced

\* The access token is replaced by the one that belongs to the refresh token.
LEMMA AgreeRefresh ==
    ASSUME TypeInv, OneAccount(store),
           store["refresh_token"] \in Accounts,
           \/ SaveToken("access_token", store["refresh_token"])
           \/ SaveRefused("access_token")
    PROVE  OneAccount(store') /\ store'["refresh_token"] = store["refresh_token"]
<1>1. store["refresh_token"] # None
  BY AccountAssumption DEF Accounts
<1>2. PICK account \in Accounts : Agree(store, account)
  BY <1>1 DEF OneAccount, Keys
<1>3. store["refresh_token"] = account
  BY <1>1, <1>2 DEF Agree, Keys, Credential
<1>4. PICK value \in {None, store["access_token"], account} :
         store' = [store EXCEPT !["access_token"] = value]
  BY <1>3 DEF SaveToken, SaveRefused
<1>5. value \in {None, Credential("access_token", account)}
  BY <1>2, <1>4 DEF Agree, Keys, Credential
<1> QED BY <1>2, <1>4, <1>5 DEF OneAccount, Agree, TypeInv, TypeOK, Keys

\* An entry is deleted, or stays.
LEMMA AgreeDelete ==
    ASSUME TypeInv, OneAccount(store), NEW key \in Keys,
           DeleteToken(key) \/ UNCHANGED store
    PROVE  OneAccount(store')
BY DEF OneAccount, Agree, DeleteToken, TypeInv, TypeOK

LEMMA StoreRun == ASSUME TypeInv, StoreInv, Run PROVE StoreInv'
<1> USE DEF memory, disk, history
<1>1. CASE StartRun \/ RequestAnswered \/ SessionLost \/ RefreshRefused
  <2>1. run'.at \in {"off", "request"} /\ UNCHANGED <<store, main, mixups>>
    <3>1. CASE RequestAnswered
      BY <3>1, RunFields DEF RequestAnswered, TypeInv, TypeOK, Runs
    <3>2. CASE StartRun
      BY <3>2 DEF StartRun, NoRun
    <3>3. CASE SessionLost \/ RefreshRefused
      BY <3>3 DEF SessionLost, RefreshRefused, NoRun
    <3> QED BY <1>1, <3>1, <3>2, <3>3
  <2> QED BY <2>1 DEF StoreInv, Clean
<1>2. CASE TokenExpires
  <2>1. UNCHANGED <<store, main, mixups>>
    BY <1>2 DEF TokenExpires
  <2>2. run'.late = (main # Idle) /\ run'.refresh = store["refresh_token"]
    BY <1>2 DEF TokenExpires, LoadToken, TypeInv, TypeOK, Runs
  <2> QED BY <2>1, <2>2 DEF StoreInv, Clean
<1>3. CASE TokenRefreshed
  <2>1. UNCHANGED <<store, main>> /\ mixups \subseteq mixups'
    BY <1>3 DEF TokenRefreshed
  <2>2. run.at = "refresh" /\ run'.late = run.late /\ run'.refresh = run.refresh
    BY <1>3 DEF TokenRefreshed, TypeInv, TypeOK, Runs
  <2> QED BY <2>1, <2>2 DEF StoreInv, Clean
<1>4. CASE SaveRefreshed
  <2> SUFFICES ASSUME Clean({"late_refresh", "torn"})'
               PROVE  StoreInv'
    BY DEF StoreInv
  <2>1. run.at = "save" /\ ~run.late /\ Clean({"late_refresh", "torn"})
    BY <1>4 DEF SaveRefreshed, Clean, TypeInv, TypeOK, Runs
  <2>2. main = Idle /\ main' = Idle /\ run.refresh = store["refresh_token"]
    BY <1>4, <2>1 DEF StoreInv, SaveRefreshed
  <2>3. OneAccount(store') /\ store'["refresh_token"] = store["refresh_token"]
    BY <1>4, <2>1, <2>2, MainIdle, AgreeRefresh DEF SaveRefreshed, StoreInv, TypeInv, RunInv
  <2>4. run'.at = "request"
    BY <1>4 DEF SaveRefreshed, NoRun
  <2> QED BY <2>2, <2>3, <2>4, MainIdle DEF StoreInv
<1> QED BY <1>1, <1>2, <1>3, <1>4 DEF Run

LEMMA StoreSave == ASSUME TypeInv, StoreInv, SaveNext PROVE StoreInv'
<1> SUFFICES ASSUME Clean({"late_refresh", "torn"})'
             PROVE  StoreInv'
  BY DEF StoreInv
<1>1. /\ main.at = "save" /\ main.k \in 1 .. 4 /\ main.who \in Accounts
      /\ KeyAt[main.k] \in Keys
  BY KeysInOrder DEF SaveNext, TypeInv, MainInv
<1>2. /\ Clean({"late_refresh", "torn"})
      /\ SaveToken(KeyAt[main.k], Credential(KeyAt[main.k], main.who))
  BY DEF SaveNext, SaveOrTear, Clean
<1>3. \A i \in 1 .. main.k : store'[KeyAt[i]] = Credential(KeyAt[i], main.who)
  <2> TAKE i \in 1 .. main.k
  <2>1. i \in 1 .. 4 /\ KeyAt[i] \in Keys
    BY <1>1, KeysInOrder
  <2>2. CASE i = main.k
    BY <1>1, <1>2, <2>2 DEF SaveToken, TypeInv, TypeOK
  <2>3. CASE i # main.k
    <3>1. KeyAt[i] # KeyAt[main.k]
      BY <1>1, <2>1, <2>3, KeysInOrder
    <3>2. i \in 1 .. main.k - 1
      BY <1>1, <2>1, <2>3
    <3>3. store[KeyAt[i]] = Credential(KeyAt[i], main.who)
      BY <1>1, <1>2, <3>2 DEF StoreInv
    <3> QED BY <1>2, <2>1, <3>1, <3>3 DEF SaveToken, TypeInv, TypeOK
  <2> QED BY <2>2, <2>3
<1>4. run'.at \in {"refresh", "save"} => run'.late
  BY LateFields DEF SaveNext, TypeInv, TypeOK
<1>5. CASE main.k < 4
  <2>1. main'.at = "save" /\ main'.who = main.who /\ main'.k = main.k + 1
    <3>1. main.k \in 1 .. 3 /\ main' = [main EXCEPT !.k = @ + 1] /\ main \in Mains
      BY <1>1, <1>5 DEF SaveNext, TypeInv, TypeOK
    <3> QED BY <1>1, <3>1, MainGoesOn
  <2> QED BY <1>1, <1>3, <1>4, <2>1 DEF StoreInv
<1>6. CASE ~(main.k < 4)
  <2>1. main.k = 4 /\ main'.at = "register"
    BY <1>1, <1>6 DEF SaveNext, Begin, Doing
  <2>2. Agree(store', main.who)
    BY <1>3, <2>1, KeysInOrder DEF Agree, Keys
  <2> QED BY <1>1, <1>4, <2>1, <2>2 DEF StoreInv, OneAccount
<1> QED BY <1>5, <1>6

\* Commands that leave the keychain alone.
LEMMA StoreQuiet ==
    ASSUME TypeInv, StoreInv, UNCHANGED store, mixups \subseteq mixups',
           main.at # "save", main'.at \notin {"save", "verify", "refresh"},
           \/ run'.at \in {"refresh", "save"} => run'.late
           \/ run' = run /\ (main = Idle => main' = Idle)
    PROVE  StoreInv'
BY DEF StoreInv, Clean

LEMMA StoreStep == ASSUME TypeInv, StoreInv, [Next]_vars PROVE StoreInv'
<1> USE DEF memory, disk, history
<1>l. run' \in {Overtaken(run), Replaced(run)} =>
         (run'.at \in {"refresh", "save"} => run'.late)
  BY LateFields DEF TypeInv, TypeOK
<1>1. ASSUME NEW account \in Accounts, Login(account) PROVE StoreInv'
  <2>1. main.at = "idle" /\ main'.at = "files" /\ UNCHANGED <<store, mixups>>
    BY <1>1, MainIdle DEF Login, Begin, Doing
  <2>2. run' \in {Overtaken(run), Replaced(run)}
    BY <1>1 DEF Login
  <2> QED BY <1>l, <2>1, <2>2, StoreQuiet
<1>2. ASSUME NEW account \in Accounts, SetTokens(account) PROVE StoreInv'
  <2>1. main'.at = "save" /\ main'.k = 1 /\ run' \in {Overtaken(run), Replaced(run)}
    BY <1>2 DEF SetTokens, Doing
  <2> QED BY <1>l, <2>1 DEF StoreInv
<1>3. CASE FilesLogin \/ FilesLoginRefused \/ EngineLogin \/ EngineLoginRefused \/ Register
  <2>1. /\ main.at \in {"files", "engine", "register"} /\ main'.at \in {"idle", "engine", "register"}
        /\ main # Idle
    BY <1>3, MainIdle
       DEF FilesLogin, FilesLoginRefused, EngineLogin, EngineLoginRefused, Register, Begin, Doing
  <2>2. UNCHANGED store /\ mixups \subseteq mixups'
    BY <1>3 DEF FilesLogin, FilesLoginRefused, EngineLogin, EngineLoginRefused, Register,
                NotePairing, Welcome
  <2>3. run' = run \/ run' \in {Overtaken(run), Replaced(run)}
    BY <1>3 DEF FilesLogin, FilesLoginRefused, EngineLogin, EngineLoginRefused, Register
  <2> QED BY <1>l, <2>1, <2>2, <2>3, StoreQuiet
<1>4. CASE CheckStored
  <2>1. /\ main = Idle /\ main'.at = "verify" /\ UNCHANGED <<store, mixups>>
        /\ main'.who.refresh \in {None, store["refresh_token"]}
    BY <1>4 DEF CheckStored, Doing, LoadToken
  <2>2. run' \in {Overtaken(run), Replaced(run)}
    BY <1>4 DEF CheckStored
  <2> QED BY <1>l, <2>1, <2>2, MainIdle DEF StoreInv, Clean
<1>5. CASE TokenAccepted \/ StoredRefused \/ Resume
  <2>1. /\ main.at \in {"verify", "refresh", "resume"} /\ main'.at \in {"resume", "wipe", "idle"}
        /\ main # Idle
    <3>1. CASE TokenAccepted
      BY <3>1, MainIdle, MainGoesOn DEF TokenAccepted, TypeInv, TypeOK
    <3>2. CASE StoredRefused
      BY <3>2, MainIdle DEF StoredRefused, Doing
    <3>3. CASE Resume
      BY <3>3, MainIdle DEF Resume
    <3> QED BY <1>5, <3>1, <3>2, <3>3
  <2>2. UNCHANGED <<store, mixups, run>>
    BY <1>5 DEF TokenAccepted, StoredRefused, Resume
  <2> QED BY <2>1, <2>2, StoreQuiet
<1>6. CASE StoredExpired
  <2>1. /\ main.at = "verify" /\ main # Idle /\ main'.at = "refresh" /\ main'.who = main.who
        /\ UNCHANGED <<store, mixups, run>>
    BY <1>6, MainIdle, MainGoesOn DEF StoredExpired, TypeInv, TypeOK
  <2> QED BY <2>1 DEF StoreInv, Clean
<1>7. CASE StoredRefreshed
  <2> SUFFICES ASSUME Clean({"late_refresh", "torn"})'
               PROVE  StoreInv'
    BY DEF StoreInv
  <2>1. /\ main.at = "refresh" /\ main'.at = "resume" /\ Clean({"late_refresh", "torn"})
        /\ SaveToken("access_token", main.who.refresh)
    BY <1>7, MainGoesOn DEF StoredRefreshed, SaveOrTear, Clean, TypeInv, TypeOK
  <2>2. main.who.refresh \in Accounts /\ main.who.refresh = store["refresh_token"]
    BY <2>1, AccountAssumption DEF StoreInv, TypeInv, MainInv, Accounts
  <2>3. OneAccount(store')
    BY <2>1, <2>2, AgreeRefresh DEF StoreInv
  <2>4. run' \in {Overtaken(run), Replaced(run)}
    BY <1>7 DEF StoredRefreshed
  <2> QED BY <1>l, <2>1, <2>3, <2>4 DEF StoreInv
<1>8. CASE Logout
  <2>1. main.at = "idle" /\ main'.at = "wipe" /\ UNCHANGED <<store, mixups>>
    BY <1>8, MainIdle DEF Logout, Doing
  <2>2. run' \in {Overtaken(run), Replaced(run)}
    BY <1>8 DEF Logout
  <2> QED BY <1>l, <2>1, <2>2, StoreQuiet
<1>9. CASE WipeNext \/ WipeLast
  <2>1. main.at = "wipe" /\ main'.at \in {"wipe", "idle"} /\ mixups \subseteq mixups'
    BY <1>9, MainIdle DEF WipeNext, WipeLast, TypeInv, TypeOK, Mains
  <2>2. PICK key \in Keys : DeleteToken(key) \/ UNCHANGED store
    BY <1>9, KeysInOrder DEF WipeNext, WipeLast, DeleteRefused, TypeInv, MainInv
  <2>3. run' \in {Overtaken(run), Replaced(run)}
    BY <1>9 DEF WipeNext, WipeLast
  <2> QED BY <1>l, <2>1, <2>2, <2>3, AgreeDelete DEF StoreInv, Clean
<1>10. CASE FileRequest \/ AddProfile \/ \E owner \in Users \union {None} : DeleteProfile(owner)
  <2>1. main = Idle /\ main' = Idle /\ UNCHANGED <<store, mixups, run>>
    BY <1>10 DEF FileRequest, AddProfile, DeleteProfile
  <2> QED BY <2>1, MainIdle, StoreQuiet
<1>11. CASE Restart
  <2>1. main'.at = "idle" /\ run'.at = "off" /\ UNCHANGED store
    BY <1>11, MainIdle, RunFields DEF Restart
  <2>2. mixups \subseteq mixups' /\ (main.at = "save" => "torn" \in mixups')
    BY <1>11 DEF Restart
  <2> QED BY <2>1, <2>2 DEF StoreInv, Clean
<1>12. CASE UNCHANGED vars
  BY <1>12 DEF vars, StoreInv, Clean
<1> QED BY <1>1, <1>2, <1>3, <1>4, <1>5, <1>6, <1>7, <1>8, <1>9, <1>10, <1>11, <1>12,
           StoreRun, StoreSave DEF Next, Command

LEMMA StoreInit == Init => StoreInv
BY MainIdle DEF Init, StoreInv, OneAccount, NoStore, NoRun

\* The keychain never holds one user's token beside another's name or server, except after
\* a late refresh or a save that was cut short.
THEOREM OneAccountStored == Spec => []StoreHoldsOneAccount
<1>1. StoreInv => StoreHoldsOneAccount
  <2> SUFFICES ASSUME StoreInv, main.at # "save", Clean({"late_refresh", "torn"}),
                      NEW key \in Keys, store[key] # None, store["access_token"] # None
               PROVE  store[key] = Credential(key, store["access_token"])
    BY DEF StoreHoldsOneAccount
  <2>1. PICK account \in Accounts : Agree(store, account)
    BY DEF StoreInv, OneAccount
  <2>2. store["access_token"] = account
    BY <2>1 DEF Agree, Keys, Credential
  <2> QED BY <2>1, <2>2 DEF Agree
<1> QED BY <1>1, StoreInit, StoreStep, TypeInit, TypeStep, PTL DEF Spec
-----------------------------------------------------------------------------
\* Nothing that mixes accounts is forgotten.
LEMMA MixupsStay ==
    ASSUME [Next]_vars
    PROVE  /\ mixups \subseteq mixups'
           /\ \A causes : Clean(causes)' => Clean(causes)
<1>1. mixups \subseteq mixups'
  <2> USE DEF memory, disk, history
  <2>1. CASE Run
    BY <2>1 DEF Run, StartRun, RequestAnswered, TokenExpires, SessionLost, TokenRefreshed,
                RefreshRefused, SaveRefreshed
  <2>2. ASSUME NEW account \in Accounts, Login(account) \/ SetTokens(account)
        PROVE  mixups \subseteq mixups'
    BY <2>2 DEF Login, SetTokens, Welcome
  <2>3. CASE FilesLogin \/ FilesLoginRefused \/ EngineLogin \/ EngineLoginRefused \/ Register
    BY <2>3 DEF FilesLogin, FilesLoginRefused, EngineLogin, EngineLoginRefused, Register,
                NotePairing, Welcome
  <2>4. CASE SaveNext \/ StoredRefreshed
    BY <2>4 DEF SaveNext, StoredRefreshed, SaveOrTear
  <2>5. CASE CheckStored \/ TokenAccepted \/ StoredExpired \/ StoredRefused \/ Resume \/ Logout
    BY <2>5 DEF CheckStored, TokenAccepted, StoredExpired, StoredRefused, Resume, Logout
  <2>6. CASE WipeNext \/ WipeLast
    BY <2>6 DEF WipeNext, WipeLast
  <2>7. CASE FileRequest \/ AddProfile \/ \E owner \in Users \union {None} : DeleteProfile(owner)
    BY <2>7 DEF FileRequest, AddProfile, DeleteProfile
  <2>8. CASE Restart
    BY <2>8 DEF Restart
  <2>9. CASE UNCHANGED vars
    BY <2>9 DEF vars
  <2> QED BY <2>1, <2>2, <2>3, <2>4, <2>5, <2>6, <2>7, <2>8, <2>9 DEF Next, Command
<1> QED BY <1>1 DEF Clean

\* A sign-in under way: the name shown is that of the command, and so is the file client,
\* whatever the run does.
SignInInv ==
    /\ main.at \in {"files", "engine", "save", "register"} =>
          shown = main.who.user /\ files.url = main.who.server
    /\ main.at = "files" => files.token = None
    /\ main.at \in {"engine", "save", "register"} => files.token = main.who

LEMMA SignInStep == ASSUME TypeInv, SignInInv, [Next]_vars PROVE SignInInv'
<1> USE DEF memory, disk, history
<1>1. CASE Run
  <2>1. UNCHANGED <<shown, files, main>>
    BY <1>1 DEF Run, StartRun, RequestAnswered, TokenExpires, SessionLost, TokenRefreshed,
                RefreshRefused, SaveRefreshed
  <2> QED BY <2>1 DEF SignInInv
<1>2. ASSUME NEW account \in Accounts, Login(account) PROVE SignInInv'
  <2>1. main'.at = "files" /\ main'.who = account
    BY <1>2 DEF Login, Begin, Doing
  <2>2. files'.url = account.server /\ files'.token = None /\ shown' = account.user
    BY <1>2 DEF Login, TakeName
  <2> QED BY <2>1, <2>2 DEF SignInInv
<1>3. ASSUME NEW account \in Accounts, SetTokens(account) PROVE SignInInv'
  <2>1. main'.at = "save" /\ main'.who = account
    BY <1>3 DEF SetTokens, Doing
  <2>2. files'.url = account.server /\ files'.token = account /\ shown' = account.user
    BY <1>3 DEF SetTokens, TakeName
  <2> QED BY <2>1, <2>2 DEF SignInInv
<1>4. CASE FilesLogin
  <2>1. main.at = "files" /\ main'.at = "engine" /\ main'.who = main.who /\ shown' = shown
    BY <1>4 DEF FilesLogin, Begin, Doing
  <2>2. files'.url = files.url /\ files'.token = main.who
    BY <1>4 DEF FilesLogin, TypeInv, MainInv, Clients
  <2> QED BY <2>1, <2>2 DEF SignInInv
<1>5. CASE EngineLogin
  <2>1. main.at = "engine" /\ main'.at = "register" /\ main'.who = main.who
    BY <1>5 DEF EngineLogin, Begin, Doing
  <2> QED BY <1>5, <2>1 DEF EngineLogin, SignInInv
<1>6. CASE SaveNext
  <2>1. main.at = "save" /\ main'.at \in {"save", "register"} /\ main'.who = main.who
    BY <1>6 DEF SaveNext, Begin, Doing, TypeInv, TypeOK, Mains
  <2> QED BY <1>6, <2>1 DEF SaveNext, SignInInv
<1>7. CASE \/ FilesLoginRefused \/ EngineLoginRefused \/ Register \/ Resume \/ WipeLast \/ Restart
           \/ FileRequest \/ AddProfile \/ \E owner \in Users \union {None} : DeleteProfile(owner)
  <2>1. main'.at = "idle"
    BY <1>7, MainIdle DEF FilesLoginRefused, EngineLoginRefused, Register, Resume, WipeLast,
                          Restart, FileRequest, AddProfile, DeleteProfile
  <2> QED BY <2>1 DEF SignInInv
<1>8. CASE \/ CheckStored \/ TokenAccepted \/ StoredExpired \/ StoredRefreshed
           \/ StoredRefused \/ Logout \/ WipeNext
  <2>1. main'.at \in {"verify", "refresh", "resume", "wipe"}
    BY <1>8 DEF CheckStored, TokenAccepted, StoredExpired, StoredRefreshed, StoredRefused, Logout,
                WipeNext, Doing, TypeInv, TypeOK, Mains
  <2> QED BY <2>1 DEF SignInInv
<1>9. CASE UNCHANGED vars
  BY <1>9 DEF vars, SignInInv
<1> QED BY <1>1, <1>2, <1>3, <1>4, <1>5, <1>6, <1>7, <1>8, <1>9 DEF Next, Command

\* The tokens of the keychain are those of one account, or missing.
StoredOf(st, token) == {st["access_token"], st["refresh_token"]} \subseteq {None, token}

\* Unless the user pairs anew, a token in the keychain is replaced by its like only: what a
\* run or an automatic sign-in saves is the refresh token it found there.
LEMMA StoredStay ==
    ASSUME TypeInv, StoreInv, [Next]_vars, ~SaveNext, Clean({"late_refresh", "torn"})'
    PROVE  \A token : StoredOf(store, token) => StoredOf(store', token)
<1> USE DEF memory, disk, history
<1>c. Clean({"late_refresh", "torn"})
  BY MixupsStay
<1>s. store \in [Keys -> Tokens \union Servers \union Users]
  BY DEF TypeInv, TypeOK
<1>1. CASE SaveRefreshed
  <2>1. run.at = "save" /\ ~run.late
    BY <1>1 DEF SaveRefreshed, Clean, TypeInv, TypeOK, Runs
  <2>2. run.refresh = store["refresh_token"]
    BY <1>c, <2>1 DEF StoreInv
  <2>3. PICK value \in {None, store["access_token"], store["refresh_token"]} :
           store' = [store EXCEPT !["access_token"] = value]
    BY <1>1, <2>2 DEF SaveRefreshed, SaveToken, SaveRefused
  <2> QED BY <1>s, <2>3 DEF StoredOf, Keys
<1>2. CASE StoredRefreshed
  <2>1. main.at = "refresh" /\ SaveToken("access_token", main.who.refresh)
    BY <1>2 DEF StoredRefreshed, SaveOrTear, Clean
  <2>2. main.who.refresh \in {None, store["refresh_token"]}
    BY <1>c, <2>1 DEF StoreInv
  <2> QED BY <1>s, <2>1, <2>2 DEF SaveToken, StoredOf, Keys
<1>3. CASE WipeNext \/ WipeLast
  <2>1. PICK key \in Keys : DeleteToken(key) \/ UNCHANGED store
    BY <1>3, KeysInOrder DEF WipeNext, WipeLast, DeleteRefused, TypeInv, MainInv
  <2> QED BY <1>s, <2>1 DEF DeleteToken, StoredOf, Keys
<1>4. CASE UNCHANGED store
  BY <1>4
<1>5. UNCHANGED store \/ SaveRefreshed \/ StoredRefreshed \/ WipeNext \/ WipeLast
  <2>1. CASE Run
    BY <2>1 DEF Run, StartRun, RequestAnswered, TokenExpires, SessionLost, TokenRefreshed,
                RefreshRefused
  <2>2. ASSUME NEW account \in Accounts, Login(account) \/ SetTokens(account)
        PROVE  UNCHANGED store
    BY <2>2 DEF Login, SetTokens
  <2>3. CASE FilesLogin \/ FilesLoginRefused \/ EngineLogin \/ EngineLoginRefused \/ Register
    BY <2>3 DEF FilesLogin, FilesLoginRefused, EngineLogin, EngineLoginRefused, Register
  <2>4. CASE CheckStored \/ TokenAccepted \/ StoredExpired \/ StoredRefused \/ Resume \/ Logout
    BY <2>4 DEF CheckStored, TokenAccepted, StoredExpired, StoredRefused, Resume, Logout
  <2>5. CASE FileRequest \/ AddProfile \/ \E owner \in Users \union {None} : DeleteProfile(owner)
    BY <2>5 DEF FileRequest, AddProfile, DeleteProfile
  <2>6. CASE Restart \/ UNCHANGED vars
    BY <2>6 DEF Restart, vars
  <2> QED BY <2>1, <2>2, <2>3, <2>4, <2>5, <2>6 DEF Next, Command
<1> QED BY <1>1, <1>2, <1>3, <1>4, <1>5

\* What the run may do to the engine's client: give it the refresh token of the keychain,
\* while no command is under way, if the run was not overtaken.
LEMMA RunKeepsClient ==
    ASSUME TypeInv, StoreInv, Run, Clean({"late_refresh", "torn"}), Clean({"late_refresh", "torn"})'
    PROVE  /\ UNCHANGED <<shown, files, main>> /\ authenticated' \in {authenticated, FALSE}
           /\ client'.url = client.url
           /\ \/ client' = client
              \/ /\ main = Idle /\ client'.token = store["refresh_token"]
                 /\ store["refresh_token"] # None
<1> USE DEF memory, disk, history
<1>1. CASE TokenRefreshed
  <2>1. run.at = "refresh" /\ ~run.late
    BY <1>1 DEF TokenRefreshed, Clean, TypeInv, TypeOK, Runs
  <2>2. main = Idle /\ run.refresh = store["refresh_token"] /\ run.refresh # None
    BY <2>1, AccountAssumption DEF StoreInv, TypeInv, RunInv, Accounts
  <2>3. client' = client \/ client' = [client EXCEPT !.token = run.refresh]
    BY <1>1 DEF TokenRefreshed
  <2>4. client'.url = client.url /\ (client' = client \/ client'.token = run.refresh)
    BY <2>3 DEF TypeInv, TypeOK, Clients
  <2> QED BY <1>1, <2>2, <2>4 DEF TokenRefreshed
<1>2. CASE ~TokenRefreshed
  BY <1>2 DEF Run, StartRun, RequestAnswered, TokenExpires, SessionLost, RefreshRefused,
              SaveRefreshed
<1> QED BY <1>1, <1>2

-----------------------------------------------------------------------------
\* An automatic sign-in under way: the client, the refresh token and the name that were
\* read from the keychain belong together, and nobody has put other tokens there since.
CheckedInv ==
    Clean({"late_refresh", "torn"}) /\ main.at \in {"verify", "refresh", "resume"} =>
        /\ client.token \in Accounts /\ client.url = client.token.server
        /\ StoredOf(store, client.token)
        /\ main.who.refresh \in {None, client.token}
        /\ main.who.name \in {None, client.token.user}

\* What is read from a keychain that holds one account.
LEMMA OneAccountRead ==
    ASSUME TypeInv, OneAccount(store), store["access_token"] # None
    PROVE  LET account == store["access_token"]
           IN  /\ account \in Accounts /\ StoredOf(store, account)
               /\ store["server_url"] \in {None, account.server}
               /\ store["refresh_token"] \in {None, account}
               /\ store["paired_username"] \in {None, account.user}
<1>1. PICK account \in Accounts : Agree(store, account)
  BY DEF OneAccount, Keys
<1>2. \A key \in {"access_token", "refresh_token"} : store[key] \in {None, account}
  BY <1>1 DEF Agree, Keys, Credential
<1>3. store["server_url"] \in {None, account.server}
  BY <1>1 DEF Agree, Keys, Credential
<1>4. store["paired_username"] \in {None, account.user}
  BY <1>1 DEF Agree, Keys, Credential
<1> QED BY <1>1, <1>2, <1>3, <1>4 DEF StoredOf

LEMMA CheckedStep == ASSUME TypeInv, StoreInv, CheckedInv, [Next]_vars PROVE CheckedInv'
<1> SUFFICES ASSUME Clean({"late_refresh", "torn"})',
                    main'.at \in {"verify", "refresh", "resume"}
             PROVE  CheckedInv'
  BY DEF CheckedInv
<1> USE DEF memory, disk, history
<1>c. Clean({"late_refresh", "torn"})
  BY MixupsStay
<1>1. CASE CheckStored
  <2>1. PICK a \in LoadToken("access_token") \ {None}, s \in LoadToken("server_url") \ {None},
             r \in LoadToken("refresh_token"), n \in LoadToken("paired_username") :
          /\ client' = [url |-> s, token |-> a]
          /\ main' = Doing("verify", [refresh |-> r, name |-> n], 0, "none")
    BY <1>1 DEF CheckStored
  <2>2. OneAccount(store)
    BY <1>1, <1>c, MainIdle DEF CheckStored, StoreInv
  <2>3. /\ a = store["access_token"] /\ a # None /\ s = store["server_url"] /\ s # None
        /\ r \in {None, store["refresh_token"]} /\ n \in {None, store["paired_username"]}
    BY <2>1 DEF LoadToken
  <2>4. /\ a \in Accounts /\ s = a.server /\ StoredOf(store, a)
        /\ r \in {None, a} /\ n \in {None, a.user}
    BY <2>2, <2>3, OneAccountRead
  <2>5. client'.token = a /\ client'.url = s /\ main'.who.refresh = r /\ main'.who.name = n
    BY <2>1 DEF Doing
  <2>6. store' = store
    BY <1>1 DEF CheckStored
  <2> QED BY <2>4, <2>5, <2>6 DEF CheckedInv
<1>2. ASSUME main.at \in {"verify", "refresh", "resume"}, ~SaveNext,
             client'.url = client.url, client'.token \in {client.token} \union ({main.who.refresh} \ {None}),
             main'.who = main.who
      PROVE  CheckedInv'
  <2>1. client'.token = client.token
    BY <1>c, <1>2 DEF CheckedInv
  <2>2. StoredOf(store', client.token)
    BY <1>c, <1>2, StoredStay DEF CheckedInv
  <2> QED BY <1>c, <1>2, <2>1, <2>2 DEF CheckedInv
<1>3. CASE Run
  <2>1. main' = main /\ main # Idle
    BY <1>3, <1>c, RunKeepsClient, MainIdle
  <2>2. client' = client
    BY <1>3, <1>c, <2>1, RunKeepsClient
  <2>3. ~SaveNext
    BY <2>1 DEF SaveNext
  <2> QED BY <1>2, <2>1, <2>2, <2>3
<1>4. CASE TokenAccepted \/ StoredExpired
  <2>1. main.at = "verify" /\ client' = client /\ main'.who = main.who
    BY <1>4 DEF TokenAccepted, StoredExpired, TypeInv, TypeOK, Mains
  <2>2. ~SaveNext
    BY <2>1 DEF SaveNext
  <2> QED BY <1>2, <2>1, <2>2
<1>5. CASE StoredRefreshed
  <2>1. main.at = "refresh" /\ main'.who = main.who /\ main.who.refresh # None
    BY <1>5, AccountAssumption DEF StoredRefreshed, TypeInv, TypeOK, Mains, MainInv, Accounts
  <2>2. client'.url = client.url /\ client'.token = main.who.refresh
    BY <1>5 DEF StoredRefreshed, TypeInv, TypeOK, Clients
  <2>3. ~SaveNext
    BY <2>1 DEF SaveNext
  <2> QED BY <1>2, <2>1, <2>2, <2>3
<1>6. ASSUME NEW account \in Accounts, Login(account) \/ SetTokens(account) PROVE CheckedInv'
  BY <1>6 DEF Login, SetTokens, Begin, Doing
<1>7. CASE \/ FilesLogin \/ EngineLogin \/ SaveNext \/ StoredRefused \/ Logout \/ WipeNext
  BY <1>7 DEF FilesLogin, EngineLogin, SaveNext, StoredRefused, Logout, WipeNext, Begin, Doing,
              TypeInv, TypeOK, Mains
<1>8. CASE \/ FilesLoginRefused \/ EngineLoginRefused \/ Register \/ Resume \/ WipeLast \/ Restart
           \/ FileRequest \/ AddProfile \/ \E owner \in Users \union {None} : DeleteProfile(owner)
  BY <1>8, MainIdle DEF FilesLoginRefused, EngineLoginRefused, Register, Resume, WipeLast,
                        Restart, FileRequest, AddProfile, DeleteProfile
<1>9. CASE UNCHANGED vars
  BY <1>9, <1>c DEF vars, CheckedInv
<1> QED BY <1>1, <1>3, <1>4, <1>5, <1>6, <1>7, <1>8, <1>9 DEF Next, Command

-----------------------------------------------------------------------------
\* When a command may still end with the name that is shown.
Settled == main.at \in {"idle", "wipe", "verify", "refresh"}

PairedCauses == {"late_refresh", "torn", "other_pairing"}

\* The file client and the keychain have the token of the user shown.
FilesInv ==
    Clean(PairedCauses) =>
        /\ Settled /\ shown # None /\ SignedIn =>
              files.token = [user |-> shown, server |-> files.url] /\ StoredOf(store, files.token)
        /\ main.at = "register" => StoredOf(store, main.who)

LEMMA CleanMore ==
    ASSUME Clean(PairedCauses) PROVE Clean({"late_refresh", "torn"})
BY DEF Clean, PairedCauses

\* After the last entry of a pairing the tokens are those of the account.
LEMMA StoredSaved ==
    ASSUME TypeInv, StoreInv, SaveNext, Clean({"late_refresh", "torn"}), main'.at = "register"
    PROVE  StoredOf(store', main.who)
<1>1. main.at = "save" /\ main.k = 4 /\ main.who \in Accounts
  BY DEF SaveNext, TypeInv, TypeOK, Mains, MainInv
<1>2. store["access_token"] = main.who /\ store["refresh_token"] = main.who
  <2>1. \A i \in 1 .. 3 : store[KeyAt[i]] = Credential(KeyAt[i], main.who)
    BY <1>1 DEF StoreInv
  <2> QED BY <2>1, KeysInOrder DEF Credential
<1>3. \A key \in {"access_token", "refresh_token"} : store'[key] = store[key]
  BY <1>1, KeysInOrder DEF SaveNext, SaveOrTear, SaveToken, SaveRefused, TypeInv, TypeOK, Keys
<1> QED BY <1>2, <1>3 DEF StoredOf

\* A step after which the command may end as before it, or not at all.
LEMMA FilesQuiet ==
    ASSUME TypeInv, StoreInv, FilesInv, [Next]_vars, ~SaveNext,
           shown' \in {shown, None}, files' = files,
           Settled' => Settled, main'.at = "register" => main' = main
    PROVE  FilesInv'
<1> SUFFICES ASSUME Clean(PairedCauses)' PROVE FilesInv'
  BY DEF FilesInv
<1>1. Clean(PairedCauses)
  BY MixupsStay DEF PairedCauses
<1>2. \A token : StoredOf(store, token) => StoredOf(store', token)
  BY CleanMore, StoredStay DEF PairedCauses, Clean
<1> QED BY <1>1, <1>2 DEF FilesInv, SignedIn

LEMMA FilesStep ==
    ASSUME TypeInv, StoreInv, SignInInv, CheckedInv, FilesInv, [Next]_vars
    PROVE  FilesInv'
<1> SUFFICES ASSUME Clean(PairedCauses)' PROVE FilesInv'
  BY DEF FilesInv
<1> USE DEF memory, disk, history
<1>c. Clean(PairedCauses) /\ Clean({"late_refresh", "torn"}) /\ Clean({"late_refresh", "torn"})'
  BY MixupsStay, CleanMore DEF PairedCauses, Clean
<1>1. CASE Run
  <2>1. UNCHANGED <<shown, files, main>>
    BY <1>1, <1>c, RunKeepsClient
  <2>2. CASE main.at = "save"
    BY <2>1, <2>2 DEF FilesInv, Settled
  <2>3. CASE main.at # "save"
    BY <2>1, <2>3, FilesQuiet DEF SaveNext, Settled
  <2> QED BY <2>2, <2>3
<1>2. ASSUME NEW account \in Accounts, Login(account) \/ SetTokens(account) PROVE FilesInv'
  <2>1. main'.at \in {"files", "save"}
    BY <1>2 DEF Login, SetTokens, Begin, Doing
  <2> QED BY <2>1 DEF FilesInv, Settled
<1>3. CASE FilesLogin \/ TokenAccepted \/ StoredRefreshed
  <2>1. main'.at \in {"engine", "resume"}
    BY <1>3 DEF FilesLogin, TokenAccepted, StoredRefreshed, Begin, Doing, TypeInv, TypeOK, Mains
  <2> QED BY <2>1 DEF FilesInv, Settled
<1>4. CASE FilesLoginRefused
  <2>1. files'.token = None /\ main'.at = "idle"
    BY <1>4, MainIdle DEF FilesLoginRefused, SignInInv
  <2> QED BY <2>1 DEF FilesInv, SignedIn
<1>5. ASSUME NotePairing PROVE StoredOf(store, main.who)
  BY <1>5 DEF NotePairing, StoredOf, Clean, PairedCauses
<1>6. CASE EngineLogin
  <2>1. main'.at = "register" /\ main'.who = main.who /\ store' = store
    BY <1>6 DEF EngineLogin, Begin, Doing
  <2> QED BY <1>5, <1>6, <2>1 DEF EngineLogin, FilesInv, Settled
<1>7. ASSUME main.at \in {"engine", "register"}, main' = Idle, StoredOf(store, main.who),
             UNCHANGED <<shown, files, store>>
      PROVE  FilesInv'
  <2>1. main.who = [user |-> main.who.user, server |-> main.who.server]
    BY <1>7 DEF TypeInv, MainInv, Accounts
  <2>2. files.token = main.who /\ shown = main.who.user /\ files.url = main.who.server
    BY <1>7 DEF SignInInv
  <2> QED BY <1>7, <2>1, <2>2, MainIdle DEF FilesInv, Settled
<1>8. CASE EngineLoginRefused
  BY <1>5, <1>7, <1>8 DEF EngineLoginRefused
<1>9. CASE SaveNext
  <2>1. main'.at \in {"save", "register"} /\ main'.who = main.who
    BY <1>9 DEF SaveNext, Begin, Doing, TypeInv, TypeOK, Mains
  <2>2. main'.at = "register" => StoredOf(store', main.who)
    BY <1>9, <1>c, StoredSaved
  <2> QED BY <2>1, <2>2 DEF FilesInv, Settled
<1>10. CASE Register
  <2>1. main.at = "register" /\ main' = Idle /\ UNCHANGED <<shown, files, store>>
    BY <1>10 DEF Register
  <2> QED BY <1>7, <1>c, <2>1 DEF FilesInv
<1>11. CASE CheckStored \/ StoredExpired \/ StoredRefused \/ Logout \/ WipeNext
  <2>1. /\ main.at \in {"idle", "verify", "refresh", "wipe"}
        /\ main'.at \in {"verify", "refresh", "wipe"}
    BY <1>11, MainIdle
       DEF CheckStored, StoredExpired, StoredRefused, Logout, WipeNext, Doing, TypeInv, TypeOK, Mains
  <2>2. UNCHANGED <<shown, files>>
    BY <1>11 DEF CheckStored, StoredExpired, StoredRefused, Logout, WipeNext
  <2> QED BY <2>1, <2>2, FilesQuiet DEF SaveNext, Settled
<1>12. CASE Resume
  <2>1. PICK a \in LoadToken("access_token") : files' = [url |-> client.url, token |-> a]
    BY <1>12 DEF Resume
  <2>2. /\ main.at = "resume" /\ main'.at = "idle" /\ shown' = main.who.name /\ store' = store
    BY <1>12, MainIdle DEF Resume
  <2>3. /\ client.token \in Accounts /\ client.url = client.token.server
        /\ StoredOf(store, client.token) /\ shown' \in {None, client.token.user}
    BY <1>c, <2>2 DEF CheckedInv
  <2>4. files'.token \in {None, client.token} /\ files'.url = client.token.server
    BY <2>1, <2>3 DEF LoadToken, StoredOf
  <2>5. client.token = [user |-> client.token.user, server |-> client.token.server]
    BY <2>3 DEF Accounts
  <2> QED BY <2>2, <2>3, <2>4, <2>5 DEF FilesInv, SignedIn
<1>13. CASE WipeLast
  <2>1. main.at = "wipe" /\ main'.at = "idle" /\ (shown' = None \/ UNCHANGED <<shown, files>>)
    BY <1>13, MainIdle DEF WipeLast
  <2>2. CASE shown' = None
    BY <2>1, <2>2 DEF FilesInv
  <2>3. CASE UNCHANGED <<shown, files>>
    BY <2>1, <2>3, FilesQuiet DEF SaveNext, Settled
  <2> QED BY <2>1, <2>2, <2>3
<1>14. CASE FileRequest
  <2>1. PICK a \in LoadToken("access_token") \ {None} : files' = [files EXCEPT !.token = a]
    BY <1>14 DEF FileRequest
  <2>2. /\ main.at = "idle" /\ main'.at = "idle" /\ SignedIn
        /\ UNCHANGED <<shown, store>> /\ files \in Clients
    BY <1>14, MainIdle DEF FileRequest, SignedIn, TypeInv, TypeOK
  <2>3. shown # None => files' = files
    BY <1>c, <2>1, <2>2 DEF FilesInv, Settled, LoadToken, StoredOf, Clients
  <2> QED BY <1>c, <2>2, <2>3 DEF FilesInv, Settled, SignedIn
<1>15. CASE AddProfile \/ \E owner \in Users \union {None} : DeleteProfile(owner)
  <2>1. main.at = "idle" /\ UNCHANGED <<shown, files, main>>
    BY <1>15, MainIdle DEF AddProfile, DeleteProfile
  <2> QED BY <2>1, FilesQuiet DEF SaveNext, Settled
<1>16. CASE Restart
  <2>1. main'.at = "idle" /\ shown' = None
    BY <1>16, MainIdle DEF Restart
  <2> QED BY <2>1 DEF FilesInv
<1>17. CASE UNCHANGED vars
  BY <1>17, <1>c DEF vars, FilesInv, Settled, SignedIn
<1> QED BY <1>1, <1>2, <1>3, <1>4, <1>6, <1>8, <1>9, <1>10, <1>11, <1>12, <1>13, <1>14,
           <1>15, <1>16, <1>17 DEF Next, Command

-----------------------------------------------------------------------------
SyncCauses == PairedCauses \union {"failed_login"}

\* The engine's client and the keychain have the token of the user shown.
SyncInv ==
    Clean(SyncCauses) =>
        /\ Settled /\ authenticated /\ shown # None =>
              /\ client.token \in Accounts /\ StoredOf(store, client.token)
              /\ client.token.user = shown /\ client.token.server = client.url
        /\ main.at \in {"save", "register"} =>
              client = [url |-> main.who.server, token |-> main.who]

\* A step after which the command may end as before it, or not at all.
LEMMA SyncQuiet ==
    ASSUME TypeInv, StoreInv, SyncInv, [Next]_vars, ~SaveNext,
           shown' \in {shown, None}, authenticated' \in {authenticated, FALSE}, client' = client,
           Settled' => Settled, main'.at \notin {"save", "register"}
    PROVE  SyncInv'
<1> SUFFICES ASSUME Clean(SyncCauses)' PROVE SyncInv'
  BY DEF SyncInv
<1>1. Clean(SyncCauses)
  BY MixupsStay DEF SyncCauses, PairedCauses
<1>2. \A token : StoredOf(store, token) => StoredOf(store', token)
  BY StoredStay DEF SyncCauses, PairedCauses, Clean
<1> QED BY <1>1, <1>2 DEF SyncInv

LEMMA SyncStep ==
    ASSUME TypeInv, StoreInv, SignInInv, CheckedInv, FilesInv, SyncInv, [Next]_vars
    PROVE  SyncInv'
<1> SUFFICES ASSUME Clean(SyncCauses)' PROVE SyncInv'
  BY DEF SyncInv
<1> USE DEF memory, disk, history
<1>c. /\ Clean(SyncCauses) /\ Clean(PairedCauses) /\ Clean(PairedCauses)'
      /\ Clean({"late_refresh", "torn"}) /\ Clean({"late_refresh", "torn"})'
  BY MixupsStay DEF PairedCauses, SyncCauses, Clean
<1>1. CASE Run
  <2>1. /\ UNCHANGED <<shown, main>> /\ authenticated' \in {authenticated, FALSE}
        /\ client'.url = client.url
        /\ \/ client' = client
           \/ /\ main = Idle /\ client'.token = store["refresh_token"]
              /\ store["refresh_token"] # None
    BY <1>1, <1>c, RunKeepsClient
  <2>2. CASE main.at \in {"save", "register"}
    <3>1. client' = client
      BY <2>1, <2>2, MainIdle
    <3> QED BY <1>c, <2>1, <2>2, <3>1 DEF SyncInv, Settled
  <2>3. CASE main.at \notin {"save", "register"}
    <3>1. \A token : StoredOf(store, token) => StoredOf(store', token)
      BY <1>c, <2>3, StoredStay DEF SaveNext
    <3>2. Settled /\ authenticated /\ shown # None => client'.token = client.token
      BY <1>c, <2>1 DEF SyncInv, StoredOf
    <3> QED BY <1>c, <2>1, <2>3, <3>1, <3>2 DEF SyncInv, Settled
  <2> QED BY <2>2, <2>3
<1>2. ASSUME NEW account \in Accounts, Login(account) PROVE SyncInv'
  <2>1. main'.at = "files"
    BY <1>2 DEF Login, Begin, Doing
  <2> QED BY <2>1 DEF SyncInv, Settled
<1>3. ASSUME NEW account \in Accounts, SetTokens(account) PROVE SyncInv'
  <2>1. main'.at = "save" /\ main'.who = account
    BY <1>3 DEF SetTokens, Doing
  <2> QED BY <1>3, <2>1 DEF SetTokens, SyncInv, Settled
<1>4. CASE FilesLogin \/ TokenAccepted \/ StoredRefreshed
  <2>1. main'.at \in {"engine", "resume"}
    BY <1>4 DEF FilesLogin, TokenAccepted, StoredRefreshed, Begin, Doing, TypeInv, TypeOK, Mains
  <2> QED BY <2>1 DEF SyncInv, Settled
<1>5. CASE FilesLoginRefused
  BY <1>5 DEF FilesLoginRefused, Clean, SyncCauses
<1>6. CASE EngineLogin
  <2>1. main'.at = "register" /\ main'.who = main.who
    BY <1>6 DEF EngineLogin, Begin, Doing
  <2> QED BY <1>6, <2>1 DEF EngineLogin, SyncInv, Settled
<1>7. CASE EngineLoginRefused \/ Restart
  <2>1. main'.at = "idle" /\ authenticated' = FALSE
    BY <1>7, MainIdle DEF EngineLoginRefused, Restart
  <2> QED BY <2>1 DEF SyncInv
<1>8. CASE SaveNext
  <2>1. /\ main.at = "save" /\ main'.at \in {"save", "register"} /\ main'.who = main.who
        /\ client' = client
    BY <1>8 DEF SaveNext, Begin, Doing, TypeInv, TypeOK, Mains
  <2> QED BY <1>c, <2>1 DEF SyncInv, Settled
<1>9. CASE Register
  <2>1. main.at = "register" /\ main'.at = "idle" /\ UNCHANGED <<shown, client, store>>
    BY <1>9, MainIdle DEF Register
  <2>2. main.who \in Accounts /\ main.who.user = shown /\ StoredOf(store, main.who)
    BY <1>c, <2>1 DEF TypeInv, MainInv, SignInInv, FilesInv
  <2>3. client.token = main.who /\ client.url = main.who.server
    BY <1>c, <2>1 DEF SyncInv
  <2> QED BY <2>1, <2>2, <2>3 DEF SyncInv
<1>10. CASE CheckStored
  <2>1. PICK a \in LoadToken("access_token") \ {None}, s \in LoadToken("server_url") \ {None} :
           client' = [url |-> s, token |-> a]
    BY <1>10 DEF CheckStored
  <2>2. /\ main.at = "idle" /\ main'.at = "verify" /\ OneAccount(store)
        /\ UNCHANGED <<shown, authenticated, store>>
    BY <1>10, <1>c, MainIdle DEF CheckStored, Doing, StoreInv
  <2>3. a = store["access_token"] /\ a # None /\ s = store["server_url"] /\ s # None
    BY <2>1 DEF LoadToken
  <2>4. a \in Accounts /\ s = a.server
    BY <2>2, <2>3, OneAccountRead
  <2>5. Settled /\ authenticated /\ shown # None => a = client.token
    BY <1>c, <2>3 DEF SyncInv, StoredOf
  <2> QED BY <1>c, <2>1, <2>2, <2>4, <2>5 DEF SyncInv, Settled
<1>11. CASE StoredExpired \/ StoredRefused \/ WipeNext \/ WipeLast
  <2>1. /\ main.at \in {"verify", "refresh", "wipe"}
        /\ main'.at \in {"refresh", "wipe", "idle"}
    BY <1>11, MainIdle
       DEF StoredExpired, StoredRefused, WipeNext, WipeLast, Doing, TypeInv, TypeOK, Mains
  <2>2. UNCHANGED <<authenticated, client>> /\ shown' \in {shown, None}
    BY <1>11 DEF StoredExpired, StoredRefused, WipeNext, WipeLast
  <2> QED BY <2>1, <2>2, SyncQuiet DEF SaveNext, Settled
<1>12. CASE Resume
  <2>1. main.at = "resume" /\ main'.at = "idle" /\ shown' = main.who.name /\ UNCHANGED <<client, store>>
    BY <1>12, MainIdle DEF Resume
  <2> QED BY <1>c, <2>1 DEF CheckedInv, SyncInv
<1>13. CASE Logout
  <2>1. main'.at = "wipe" /\ authenticated' = FALSE
    BY <1>13 DEF Logout, Doing
  <2> QED BY <2>1 DEF SyncInv
<1>14. CASE FileRequest \/ AddProfile \/ \E owner \in Users \union {None} : DeleteProfile(owner)
  <2>1. main.at = "idle" /\ UNCHANGED <<shown, authenticated, client, main>>
    BY <1>14, MainIdle DEF FileRequest, AddProfile, DeleteProfile
  <2> QED BY <2>1, SyncQuiet DEF SaveNext, Settled
<1>15. CASE UNCHANGED vars
  BY <1>15, <1>c DEF vars, SyncInv, Settled
<1> QED BY <1>1, <1>2, <1>3, <1>4, <1>5, <1>6, <1>7, <1>8, <1>9, <1>10, <1>11, <1>12, <1>13,
           <1>14, <1>15 DEF Next, Command

\* The account in use is one: all of the above, which hold together.
AccountInv == TypeInv /\ StoreInv /\ SignInInv /\ CheckedInv /\ FilesInv /\ SyncInv

LEMMA AccountInvariant == Spec => []AccountInv
<1>1. Init => AccountInv
  <2>1. Init => SignInInv /\ CheckedInv /\ FilesInv /\ SyncInv
    BY MainIdle DEF Init, SignInInv, CheckedInv, FilesInv, SyncInv
  <2> QED BY <2>1, TypeInit, StoreInit DEF AccountInv
<1>2. AccountInv /\ [Next]_vars => AccountInv'
  BY TypeStep, StoreStep, SignInStep, CheckedStep, FilesStep, SyncStep DEF AccountInv
<1> QED BY <1>1, <1>2, PTL DEF Spec

\* Runs synchronise with the account of the user the window shows, except after a login
\* that failed half-way, a late refresh, a save cut short or a login over another pairing.
THEOREM RunsSyncAsShown == Spec => []SyncsAsShown
<1>1. AccountInv => SyncsAsShown
  <2> SUFFICES ASSUME AccountInv, main = Idle, authenticated, shown # None,
                      Clean({"failed_login", "late_refresh", "torn", "other_pairing"})
               PROVE  /\ client.token # None /\ client.token.user = shown
                      /\ client.token.server = client.url
    BY DEF SyncsAsShown
  <2>1. Clean(SyncCauses) /\ Settled
    BY MainIdle DEF Clean, SyncCauses, PairedCauses, Settled
  <2> QED BY <2>1, AccountAssumption DEF AccountInv, SyncInv, Accounts
<1> QED BY <1>1, AccountInvariant, PTL

\* A file request never carries the token of a user who is not the one shown, nor one of
\* another server, except after a late refresh, a save cut short or a login over another
\* pairing.
THEOREM FilesGoAsPaired == Spec => []FilesAsPaired
<1>1. AccountInv => FilesAsPaired
  <2> SUFFICES ASSUME AccountInv, main = Idle, shown # None,
                      Clean({"late_refresh", "torn", "other_pairing"}),
                      NEW token \in FileTokens
               PROVE  token = [user |-> shown, server |-> files.url]
    BY DEF FilesAsPaired
  <2>1. Settled /\ SignedIn /\ token # None /\ token \in {store["access_token"], files.token}
    BY MainIdle DEF Settled, FileTokens
  <2> QED BY <2>1 DEF AccountInv, FilesInv, PairedCauses, StoredOf
<1> QED BY <1>1, AccountInvariant, PTL

=============================================================================
