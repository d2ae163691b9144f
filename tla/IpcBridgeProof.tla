---------------------------- MODULE IpcBridgeProof ----------------------------
(***************************************************************************)
(* Proofs about IpcBridge, for any number of calls and any commands.       *)
(*                                                                         *)
(* Answers find their own promises because the one counter makes ids       *)
(* unique (Numbered), the map holds exactly the promises that wait         *)
(* (Tracked), and whatever travels carries the id of its call (Carried).   *)
(* trigger_sync may answer twice: only the first answer can settle it,     *)
(* since as long as it waits the first one is still in the pipe, before    *)
(* the second (Arriving).                                                  *)
(*                                                                         *)
(* On top of that, commands are handled in the order in which they were    *)
(* made (HandledInv), from which follow what an answered sign-out means    *)
(* and that the bridge implements RequestService.                          *)
(***************************************************************************)
EXTENDS IpcBridge, TLAPS

Numbered ==
    /\ requestId <= made
    /\ \A c \in Calls : c >= made => id[c] = None /\ outcome[c] = "new" /\ answered[c] = None
    /\ \A c \in Calls : id[c] # None => id[c] < requestId
    /\ \A c, d \in Calls : id[c] = id[d] /\ id[c] # None => c = d

Tracked ==
    /\ \A c \in Calls : outcome[c] = "waiting" => id[c] # None /\ pending[id[c]] = c
    /\ \A i \in Ids : pending[i] # None => id[pending[i]] = i /\ outcome[pending[i]] = "waiting"

\* What travels names a call that was made, and the id it got.
Named(what) == what.call \in Calls /\ what.call < made /\ what.id = id[what.call]
Carried ==
    /\ \A i \in 1 .. Len(stdin) : Named(stdin[i])
    /\ handler.at # "idle" => Named(handler)
    /\ writing.call # None => Named(writing) /\ writing.says \in Says
    /\ \A i \in 1 .. Len(stdout) : Named(stdout[i]) /\ stdout[i].says \in Says

AnswerOf(c, i) == stdout[i].call = c /\ stdout[i].whole
Arriving ==
    \A c \in Calls :
        /\ answered[c] = None => \A i \in 1 .. Len(stdout) : ~AnswerOf(c, i)
        /\ outcome[c] = "waiting" /\ answered[c] # None =>
              \E i \in 1 .. Len(stdout) :
                  /\ AnswerOf(c, i) /\ stdout[i].says = answered[c]
                  /\ \A j \in 1 .. i - 1 : ~AnswerOf(c, j)

IInv == TypeOK /\ Numbered /\ Tracked /\ Carried /\ Arriving /\ OwnAnswer

-----------------------------------------------------------------------------
\* None is no number, no command and no answer.
LEMMA NoneIsNone ==
    /\ None \notin Calls /\ None \notin Ids /\ None \notin Commands /\ None \notin Says
    /\ Calls \subseteq Nat /\ Ids \subseteq Nat
  BY IpcAssumption DEF Calls, Ids, Says

\* Every handler gives one of the four replies.
LEMMA RepliesAreReplies == \A c : Replies(c) \subseteq ReplySet
<1> SUFFICES ASSUME NEW c PROVE Replies(c) \subseteq ReplySet
  OBVIOUS
<1> DEFINE AReply == Reply(TRUE, "ok") \in ReplySet /\ Reply(FALSE, "ok") \in ReplySet
                     /\ Reply(TRUE, "error") \in ReplySet /\ Reply(FALSE, "error") \in ReplySet
<1>1. AReply
  BY DEF Reply, ReplySet
<1>2. Refused \subseteq ReplySet /\ Reads \subseteq ReplySet /\ Reports \subseteq ReplySet
  BY <1>1 DEF Refused, Reads, Reports
<1>3. \A s, m : FromServer(s, m) \subseteq ReplySet
  BY <1>1, <1>2 DEF FromServer, IfSignedIn
<1> HIDE DEF AReply
<1> QED
  BY <1>1, <1>2, <1>3
  DEF AReply, Replies, Ping, Login, Logout, DeviceInfo, Pairing, FolderChange, PauseOrResume,
      TriggerSync, FolderSettings, SyncState, RemoteFolders, ActivityLogs, NetworkAndServices,
      ListFiles, ChangeFiles, TransferFile, Permissions, SystemAndRaid, PowerMonitoring,
      Settings, Conflicts, ChangeServerProfile, ReadServerProfiles, RemoteServer,
      ChangeVPNProfile, ReadVPNProfiles, TestVPNConnection, DiscoverNetworkServers,
      CheckServerHealth, DevMode, IfSignedIn

LEMMA InitIInv == Init => IInv
<1> SUFFICES ASSUME Init PROVE IInv
  OBVIOUS
<1> USE NoneIsNone, IpcAssumption
<1>1. TypeOK
  <2>1. made \in 0 .. MaxCalls /\ requestId \in Ids
    BY DEF Init, Ids
  <2>2. Idle \in [at : {"idle", "work", "answer", "write", "start", "notify"},
                 call : Calls \union {None}, id : Ids \union {None},
                 command : Commands \union {None}, says : Says] /\ NoLine \in Lines
    BY DEF Idle, NoLine, Lines, Says
  <2>3. stdin \in Seq(Messages) /\ stdout \in Seq(Lines)
    BY DEF Init
  <2>4. asyncSync \in [at : {"none", "created", "syncing"}, call : Calls \union {None}]
    BY DEF Init, NoSync
  <2> QED
    BY <2>1, <2>2, <2>3, <2>4 DEF Init, TypeOK, Outcomes
<1>2. Numbered
  BY DEF Init, Numbered
<1>3. Tracked
  BY DEF Init, Tracked
<1>4. OwnAnswer
  BY DEF Init, OwnAnswer, Says
<1>5. Carried /\ Arriving
  BY DEF Init, Carried, Arriving, Idle, NoLine, AnswerOf
<1> QED
  BY <1>1, <1>2, <1>3, <1>4, <1>5 DEF IInv

-----------------------------------------------------------------------------
(* Types.                                                                    *)

LEMMA TypeElectron ==
  ASSUME TypeOK, Numbered, Tracked, Carried, Electron
  PROVE  TypeOK'
<1> USE NoneIsNone DEF TypeOK
<1>1. ASSUME NEW c \in Commands, Send(c) PROVE TypeOK'
  <2>1. made \in Calls /\ made' \in 0 .. MaxCalls
    BY <1>1, IpcAssumption DEF Send, Calls
  <2>2. NextId(c) \in Ids /\ requestId + 1 \in Ids
    BY <2>1, IpcAssumption DEF NextId, Ids, Calls, Numbered
  <2>3. command' \in [Calls -> Commands \union {None}] /\ afterLogout' \subseteq Calls
    BY <1>1, <2>1 DEF Send
  <2>4. CASE ~connected /\ Channel(c) # "settings"
    <3>1. outcome' = [outcome EXCEPT ![made] = "refused"]
          /\ UNCHANGED <<id, requestId, pending, stdin>>
      BY <1>1, <2>4 DEF Send
    <3>2. outcome' \in [Calls -> Outcomes]
      BY <2>1, <3>1 DEF Outcomes
    <3> QED
      BY <1>1, <2>1, <2>3, <3>1, <3>2 DEF Send, backend
  <2>5. CASE ~(~connected /\ Channel(c) # "settings")
    <3> DEFINE message == [call |-> made, id |-> NextId(c), command |-> c]
    <3>1. /\ outcome' = [outcome EXCEPT ![made] = "waiting"]
          /\ id' = [id EXCEPT ![made] = NextId(c)]
          /\ requestId' = requestId + 1
          /\ pending' = [pending EXCEPT ![NextId(c)] = made]
          /\ stdin' = stdin \/ stdin' = Append(stdin, message)
      BY <1>1, <2>5 DEF Send
    <3>2. outcome' \in [Calls -> Outcomes]
      BY <2>1, <3>1 DEF Outcomes
    <3>3. id' \in [Calls -> Ids \union {None}] /\ pending' \in [Ids -> Calls \union {None}]
      BY <2>1, <2>2, <3>1
    <3>4. message \in Messages
      BY <2>1, <2>2 DEF Messages
    <3>5. stdin' \in Seq(Messages)
      <4> HIDE DEF message, TypeOK
      <4>1. stdin \in Seq(Messages)
        BY DEF TypeOK
      <4>2. stdin' = stdin \/ stdin' = Append(stdin, message)
        BY <3>1
      <4> QED
        BY <3>4, <4>1, <4>2
    <3> QED
      BY <1>1, <2>1, <2>2, <2>3, <3>1, <3>2, <3>3, <3>5 DEF Send, backend
  <2> QED
    BY <2>4, <2>5
<1>2. ASSUME NEW c \in Calls, TimeOut(c) PROVE TypeOK'
  <2>1. id[c] \in Ids
    BY <1>2 DEF TimeOut, Tracked
  <2>2. outcome' \in [Calls -> Outcomes] /\ pending' \in [Ids -> Calls \union {None}]
    BY <1>2, <2>1 DEF TimeOut, Outcomes
  <2> QED
    BY <1>2, <2>2 DEF TimeOut, backend, history
<1>3. CASE ReadLine
  <2> DEFINE line == Head(stdout)
             to == IF line.whole /\ line.id # None THEN pending[line.id] ELSE None
  <2>1. stdout # <<>> /\ stdout' = Tail(stdout)
    BY <1>3 DEF ReadLine
  <2>2. stdout' \in Seq(Lines) /\ line \in Lines /\ line = stdout[1] /\ 1 \in 1 .. Len(stdout)
    BY <2>1
  <2>3. line.says \in Says /\ line.call \in Calls
    BY <2>2 DEF Carried, Named
  <2>4. line.id \in Ids \union {None}
    BY <2>2 DEF Lines
  <2>5. CASE to # None
    <3>1. to \in Calls /\ line.id \in Ids
      BY <2>4, <2>5
    <3>2. /\ outcome' = [outcome EXCEPT ![to] = line.says]
          /\ settledBy' = [settledBy EXCEPT ![to] = line.call]
          /\ pending' = [pending EXCEPT ![line.id] = None]
      BY <1>3, <2>5 DEF ReadLine
    <3> HIDE DEF line, to
    <3>3. outcome' \in [Calls -> Outcomes] /\ settledBy' \in [Calls -> Calls \union {None}]
          /\ pending' \in [Ids -> Calls \union {None}]
      BY <2>3, <3>1, <3>2 DEF Outcomes
    <3> QED
      BY <1>3, <2>2, <3>3 DEF ReadLine, backend
  <2>6. CASE to = None
    <3>1. UNCHANGED <<outcome, settledBy, pending>>
      BY <1>3, <2>6 DEF ReadLine
    <3> QED
      BY <1>3, <2>2, <3>1 DEF ReadLine, backend
  <2> QED
    BY <2>5, <2>6
<1>4. CASE Closed
  BY <1>4 DEF Closed, backend, history
<1> QED
  BY <1>1, <1>2, <1>3, <1>4 DEF Electron

Handlers == [at : {"idle", "work", "answer", "write", "start", "notify"},
             call : Calls \union {None}, id : Ids \union {None},
             command : Commands \union {None}, says : Says]

\* The records of the backend keep their types.
LEMMA Records ==
    /\ Idle \in Handlers /\ NoLine \in Lines /\ [NoLine EXCEPT !.whole = TRUE] \in Lines
    /\ \A h \in Handlers : \A at \in {"answer", "write", "start", "notify"} :
          [h EXCEPT !.at = at] \in Handlers
    /\ \A h \in Handlers : \A says \in Says :
          [h EXCEPT !.at = "answer", !.says = says] \in Handlers
    /\ \A m \in Messages :
          [at |-> "work", call |-> m.call, id |-> m.id, command |-> m.command,
           says |-> "error"] \in Handlers
    /\ \A h \in Handlers :
          [id |-> h.id, call |-> h.call, says |-> h.says, whole |-> TRUE] \in Lines
    /\ \A line \in Lines : [line EXCEPT !.whole = FALSE] \in Lines
<1>1. Idle \in Handlers /\ NoLine \in Lines /\ [NoLine EXCEPT !.whole = TRUE] \in Lines
  BY DEF Idle, Handlers, NoLine, Lines, Says
<1>2. ASSUME NEW h \in Handlers, NEW at \in {"answer", "write", "start", "notify"}
      PROVE  [h EXCEPT !.at = at] \in Handlers
  BY DEF Handlers
<1>3. ASSUME NEW h \in Handlers, NEW says \in Says
      PROVE  [h EXCEPT !.at = "answer", !.says = says] \in Handlers
  BY DEF Handlers
<1>4. ASSUME NEW m \in Messages
      PROVE  [at |-> "work", call |-> m.call, id |-> m.id, command |-> m.command,
              says |-> "error"] \in Handlers
  BY DEF Handlers, Messages, Says
<1>5. ASSUME NEW h \in Handlers
      PROVE  [id |-> h.id, call |-> h.call, says |-> h.says, whole |-> TRUE] \in Lines
  BY DEF Handlers, Lines
<1>6. ASSUME NEW line \in Lines PROVE [line EXCEPT !.whole = FALSE] \in Lines
  BY DEF Lines
<1> QED
  BY <1>1, <1>2, <1>3, <1>4, <1>5, <1>6

LEMMA TypeBackend ==
  ASSUME TypeOK, Carried, Backend
  PROVE  TypeOK'
<1> USE NoneIsNone
<1>a. TypeOK = (/\ TypeOK /\ handler \in Handlers /\ writing \in Lines)
  BY DEF TypeOK, Handlers
<1>1. CASE Take
  <2>1. Head(stdin) \in Messages /\ stdin' \in Seq(Messages)
    BY <1>1 DEF Take, TypeOK
  <2>2. handler' \in Handlers
    BY <1>1, <2>1, Records DEF Take, Handle
  <2> QED
    BY <1>1, <2>1, <2>2 DEF Take, TypeOK, Handlers, electron, history
<1>2. CASE Work
  <2>1. PICK reply \in Replies(handler.command) :
          /\ done' = [done EXCEPT ![handler.call] = reply.does]
          /\ handler' = [handler EXCEPT !.at = "answer", !.says = reply.says]
          /\ signedIn' \in SignedInAfter(handler.command, reply)
          /\ mock' \in (IF handler.command = "set_dev_mode" /\ reply.does
                        THEN BOOLEAN ELSE {mock})
    BY <1>2 DEF Work
  <2>2. reply.does \in BOOLEAN /\ reply.says \in Says
    BY <2>1, RepliesAreReplies DEF ReplySet, Says
  <2>3. handler' \in Handlers
    BY <1>a, <2>1, <2>2, Records
  <2>4. done' \in [Calls -> BOOLEAN]
    BY <2>1, <2>2 DEF TypeOK
  <2>5. signedIn' \in BOOLEAN /\ mock' \in BOOLEAN
    BY <2>1 DEF SignedInAfter, TypeOK
  <2> QED
    BY <1>2, <2>3, <2>4, <2>5 DEF Work, TypeOK, Handlers, electron
<1>3. CASE WriteAnswer
  <2>1. handler' \in Handlers /\ writing' \in Lines
    BY <1>3, <1>a, Records DEF WriteAnswer
  <2> QED
    BY <1>3, <2>1 DEF WriteAnswer, TypeOK, Handlers, electron, history
<1>4. CASE NoAnswer
  BY <1>4, Records DEF NoAnswer, TypeOK, Handlers, electron, history
<1>5. CASE Broadcast
  BY <1>5, Records DEF Broadcast, TypeOK, electron, history
<1>6. CASE LogLine
  <2>1. writing' \in Lines
    BY <1>6, <1>a, Records DEF LogLine
  <2> QED
    BY <1>6, <2>1 DEF LogLine, TypeOK, electron, history
<1>7. CASE EndLine
  <2>1. writing' \in Lines
    BY <1>7, Records DEF EndLine
  <2>2. stdout' \in Seq(Lines)
    <3>1. stdout \in Seq(Lines) /\ writing \in Lines
      BY <1>a DEF TypeOK
    <3>2. stdout' = stdout \/ stdout' = Append(stdout, writing)
      BY <1>7 DEF EndLine
    <3> QED
      BY <3>1, <3>2
  <2>3. handler' \in Handlers
    BY <1>7, <1>a, Records DEF EndLine, AfterAnswer
  <2>4. answered' \in [Calls -> Says \union {None}]
    <3>1. CASE writing.call # None /\ writing.whole /\ answered[writing.call] = None
      <4>1. writing.says \in Says
        BY <3>1 DEF Carried
      <4>2. answered' = [answered EXCEPT ![writing.call] = writing.says]
        BY <1>7, <3>1 DEF EndLine
      <4> QED
        BY <4>1, <4>2 DEF TypeOK
    <3>2. CASE ~(writing.call # None /\ writing.whole /\ answered[writing.call] = None)
      BY <1>7, <3>2 DEF EndLine, TypeOK
    <3> QED
      BY <3>1, <3>2
  <2> QED
    BY <1>7, <2>1, <2>2, <2>3, <2>4 DEF EndLine, TypeOK, Handlers, electron
<1>8. CASE StartSync
  <2>1. asyncSync' \in [at : {"none", "created", "syncing"}, call : Calls \union {None}]
    BY <1>8 DEF StartSync, TypeOK
  <2> QED
    BY <1>8, <2>1, Records DEF StartSync, TypeOK, Handlers, electron, history
<1>9. CASE StartFails
  <2>1. handler' \in Handlers
    BY <1>9, <1>a, Records DEF StartFails, Says
  <2> QED
    BY <1>9, <2>1 DEF StartFails, TypeOK, Handlers, electron, history
<1>10. CASE SyncEnds
  BY <1>10 DEF SyncEnds, NoSync, TypeOK, electron, history
<1>13. CASE SyncBegins
  <2>1. done' \in [Calls -> BOOLEAN]
    BY <1>13 DEF SyncBegins, TypeOK
  <2>2. asyncSync' \in [at : {"none", "created", "syncing"}, call : Calls \union {None}]
    BY <1>13 DEF SyncBegins, TypeOK
  <2> QED
    BY <1>13, <2>1, <2>2 DEF SyncBegins, TypeOK, electron
<1>11. CASE NotifyDevMode
  BY <1>11, Records DEF NotifyDevMode, TypeOK, Handlers, electron, history
<1>12. CASE BackendEnds
  <2>1. stdin' \in Seq(Messages)
    BY <1>12 DEF BackendEnds
  <2> QED
    BY <1>12, <2>1, Records DEF BackendEnds, NoSync, TypeOK, Handlers, electron, history
<1> QED
  BY <1>1, <1>2, <1>3, <1>4, <1>5, <1>6, <1>7, <1>8, <1>9, <1>10, <1>11, <1>12, <1>13
  DEF Backend

-----------------------------------------------------------------------------
(* What travels.                                                             *)

\* Steps that give no call an id change nothing about what is already on its way.
NumbersStay == made' = made /\ id' = id
StdinShrinks == stdin' \in {stdin, <<>>} \/ (stdin # <<>> /\ stdin' = Tail(stdin))
HandlerStays ==
    \/ handler' = handler
    \/ handler'.at = "idle"
    \/ Named(handler')
    \/ handler.at # "idle" /\ handler'.call = handler.call /\ handler'.id = handler.id
WritingStays ==
    \/ writing' = writing
    \/ writing'.call = None
    \/ Named(writing') /\ writing'.says \in Says
    \/ writing'.call = writing.call /\ writing'.id = writing.id /\ writing'.says = writing.says
StdoutMoves ==
    \/ stdout' = stdout
    \/ stdout # <<>> /\ stdout' = Tail(stdout)
    \/ writing.call # None /\ stdout' = Append(stdout, writing)

LEMMA CarriedQuiet ==
  ASSUME TypeOK, Carried, NumbersStay, StdinShrinks, HandlerStays, WritingStays, StdoutMoves
  PROVE  Carried'
<1> USE DEF NumbersStay, StdinShrinks, HandlerStays, WritingStays, StdoutMoves, Named
<1>1. \A i \in 1 .. Len(stdin') : Named(stdin'[i])
  <2>1. CASE stdin # <<>> /\ stdin' = Tail(stdin)
    <3>1. Len(stdin') = Len(stdin) - 1 /\ \A i \in 1 .. Len(stdin') : stdin'[i] = stdin[i + 1]
      BY <2>1 DEF TypeOK
    <3>2. \A i \in 1 .. Len(stdin') : i + 1 \in 1 .. Len(stdin)
      BY <3>1 DEF TypeOK
    <3> QED
      BY <3>1, <3>2 DEF Carried
  <2> QED
    BY <2>1 DEF Carried
<1>2. handler'.at # "idle" => Named(handler')
  BY DEF Carried
<1>3. writing'.call # None => Named(writing') /\ writing'.says \in Says
  BY DEF Carried
<1>4. \A i \in 1 .. Len(stdout') : Named(stdout'[i]) /\ stdout'[i].says \in Says
  <2>1. CASE stdout # <<>> /\ stdout' = Tail(stdout)
    <3>1. Len(stdout') = Len(stdout) - 1
          /\ \A i \in 1 .. Len(stdout') : stdout'[i] = stdout[i + 1]
      BY <2>1 DEF TypeOK
    <3>2. \A i \in 1 .. Len(stdout') : i + 1 \in 1 .. Len(stdout)
      BY <3>1 DEF TypeOK
    <3> QED
      BY <3>1, <3>2 DEF Carried
  <2>2. CASE writing.call # None /\ stdout' = Append(stdout, writing)
    <3>1. Len(stdout') = Len(stdout) + 1 /\ stdout'[Len(stdout) + 1] = writing
          /\ \A i \in 1 .. Len(stdout) : stdout'[i] = stdout[i]
      BY <2>2 DEF TypeOK
    <3>2. \A i \in 1 .. Len(stdout') : i \in 1 .. Len(stdout) \/ i = Len(stdout) + 1
      BY <3>1 DEF TypeOK
    <3>3. Named(writing) /\ writing.says \in Says
      BY <2>2 DEF Carried
    <3> QED
      BY <3>1, <3>2, <3>3 DEF Carried
  <2> QED
    BY <2>1, <2>2 DEF Carried
<1> QED
  BY <1>1, <1>2, <1>3, <1>4 DEF Carried

LEMMA CarriedBackend ==
  ASSUME TypeOK, Carried, Backend
  PROVE  Carried'
<1> USE NoneIsNone
<1>a. handler \in Handlers /\ writing \in Lines
  BY DEF TypeOK, Handlers
<1>1. CASE Take
  <2>1. Head(stdin) = stdin[1] /\ 1 \in 1 .. Len(stdin)
    BY <1>1 DEF Take, TypeOK
  <2>2. Named(handler')
    BY <1>1, <2>1 DEF Take, Handle, Named, Carried
  <2>9. NumbersStay /\ StdinShrinks /\ HandlerStays /\ WritingStays /\ StdoutMoves
    BY <1>1, <2>2 DEF Take, electron, NumbersStay, StdinShrinks, HandlerStays,
       WritingStays, StdoutMoves
  <2> QED
    BY <2>9, CarriedQuiet
<1>2. CASE Work
  <2>9. NumbersStay /\ StdinShrinks /\ HandlerStays /\ WritingStays /\ StdoutMoves
    BY <1>2, <1>a DEF Work, electron, Handlers, NumbersStay, StdinShrinks, HandlerStays,
       WritingStays, StdoutMoves
  <2> QED
    BY <2>9, CarriedQuiet
<1>3. CASE WriteAnswer
  <2>1. Named(writing') /\ writing'.says \in Says
    BY <1>3, <1>a DEF WriteAnswer, Carried, Named, Handlers
  <2>2. handler'.call = handler.call /\ handler'.id = handler.id
    BY <1>3, <1>a DEF WriteAnswer, Handlers
  <2>9. NumbersStay /\ StdinShrinks /\ HandlerStays /\ WritingStays /\ StdoutMoves
    BY <1>3, <2>1, <2>2 DEF WriteAnswer, electron, NumbersStay, StdinShrinks, HandlerStays,
       WritingStays, StdoutMoves
  <2> QED
    BY <2>9, CarriedQuiet
<1>4. CASE NoAnswer
  <2>9. NumbersStay /\ StdinShrinks /\ HandlerStays /\ WritingStays /\ StdoutMoves
    BY <1>4 DEF NoAnswer, electron, Idle, NumbersStay, StdinShrinks, HandlerStays,
       WritingStays, StdoutMoves
  <2> QED
    BY <2>9, CarriedQuiet
<1>5. CASE Broadcast
  <2>1. writing'.call = None
    BY <1>5 DEF Broadcast, NoLine
  <2>9. NumbersStay /\ StdinShrinks /\ HandlerStays /\ WritingStays /\ StdoutMoves
    BY <1>5, <2>1 DEF Broadcast, electron, NumbersStay, StdinShrinks, HandlerStays,
       WritingStays, StdoutMoves
  <2> QED
    BY <2>9, CarriedQuiet
<1>6. CASE LogLine
  <2>1. writing'.call = writing.call /\ writing'.id = writing.id /\ writing'.says = writing.says
    BY <1>6, <1>a DEF LogLine, Lines
  <2>9. NumbersStay /\ StdinShrinks /\ HandlerStays /\ WritingStays /\ StdoutMoves
    BY <1>6, <2>1 DEF LogLine, electron, NumbersStay, StdinShrinks, HandlerStays,
       WritingStays, StdoutMoves
  <2> QED
    BY <2>9, CarriedQuiet
<1>7. CASE EndLine
  <2>1. writing'.call = None
    BY <1>7 DEF EndLine, NoLine
  <2>2. \/ handler' = handler \/ handler'.at = "idle"
        \/ handler.at # "idle" /\ handler'.call = handler.call /\ handler'.id = handler.id
    BY <1>7, <1>a DEF EndLine, Handlers, Idle
  <2>3. \/ stdout' = stdout
        \/ writing.call # None /\ stdout' = Append(stdout, writing)
    BY <1>7 DEF EndLine
  <2>9. NumbersStay /\ StdinShrinks /\ HandlerStays /\ WritingStays /\ StdoutMoves
    BY <1>7, <2>1, <2>2, <2>3 DEF EndLine, electron, NumbersStay, StdinShrinks, HandlerStays,
       WritingStays, StdoutMoves
  <2> QED
    BY <2>9, CarriedQuiet
<1>8. CASE StartSync
  <2>9. NumbersStay /\ StdinShrinks /\ HandlerStays /\ WritingStays /\ StdoutMoves
    BY <1>8 DEF StartSync, electron, Idle, NumbersStay, StdinShrinks, HandlerStays,
       WritingStays, StdoutMoves
  <2> QED
    BY <2>9, CarriedQuiet
<1>9. CASE StartFails
  <2>9. NumbersStay /\ StdinShrinks /\ HandlerStays /\ WritingStays /\ StdoutMoves
    BY <1>9, <1>a DEF StartFails, electron, Handlers, NumbersStay, StdinShrinks, HandlerStays,
       WritingStays, StdoutMoves
  <2> QED
    BY <2>9, CarriedQuiet
<1>13. CASE SyncBegins
  <2>9. NumbersStay /\ StdinShrinks /\ HandlerStays /\ WritingStays /\ StdoutMoves
    BY <1>13 DEF SyncBegins, electron, NumbersStay, StdinShrinks, HandlerStays,
       WritingStays, StdoutMoves
  <2> QED
    BY <2>9, CarriedQuiet
<1>10. CASE SyncEnds
  <2>9. NumbersStay /\ StdinShrinks /\ HandlerStays /\ WritingStays /\ StdoutMoves
    BY <1>10 DEF SyncEnds, electron, NumbersStay, StdinShrinks, HandlerStays,
       WritingStays, StdoutMoves
  <2> QED
    BY <2>9, CarriedQuiet
<1>11. CASE NotifyDevMode
  <2>1. writing'.call = None /\ handler'.at = "idle"
    BY <1>11 DEF NotifyDevMode, NoLine, Idle
  <2>9. NumbersStay /\ StdinShrinks /\ HandlerStays /\ WritingStays /\ StdoutMoves
    BY <1>11, <2>1 DEF NotifyDevMode, electron, NumbersStay, StdinShrinks, HandlerStays,
       WritingStays, StdoutMoves
  <2> QED
    BY <2>9, CarriedQuiet
<1>12. CASE BackendEnds
  <2>1. writing'.call = None /\ handler'.at = "idle"
    BY <1>12 DEF BackendEnds, NoLine, Idle
  <2>9. NumbersStay /\ StdinShrinks /\ HandlerStays /\ WritingStays /\ StdoutMoves
    BY <1>12, <2>1 DEF BackendEnds, electron, NumbersStay, StdinShrinks, HandlerStays,
       WritingStays, StdoutMoves
  <2> QED
    BY <2>9, CarriedQuiet
<1> QED
  BY <1>1, <1>2, <1>3, <1>4, <1>5, <1>6, <1>7, <1>8, <1>9, <1>10, <1>11, <1>12, <1>13
  DEF Backend

LEMMA CarriedElectron ==
  ASSUME TypeOK, Numbered, Carried, Electron
  PROVE  Carried'
<1> USE NoneIsNone
<1>1. ASSUME NEW c \in Commands, Send(c) PROVE Carried'
  <2>1. made \in Calls /\ made' = made + 1
    BY <1>1, IpcAssumption DEF Send, Calls, TypeOK
  <2>2. UNCHANGED <<handler, writing, stdout>>
    BY <1>1 DEF Send, backend
  <2>3. \A k \in Calls : k < made => id'[k] = id[k] /\ k < made'
    BY <1>1, <2>1 DEF Send, TypeOK
  <2>4. \A what : Named(what) =>
           what.call \in Calls /\ what.call < made' /\ what.id = id'[what.call]
    BY <2>3 DEF Named
  <2>5. \A i \in 1 .. Len(stdin') :
           stdin'[i].call \in Calls /\ stdin'[i].call < made'
           /\ stdin'[i].id = id'[stdin'[i].call]
    <3>1. CASE stdin' = stdin
      BY <2>4, <3>1 DEF Carried
    <3>2. CASE stdin' # stdin
      <4> DEFINE message == [call |-> made, id |-> NextId(c), command |-> c]
      <4>1. stdin' = Append(stdin, message) /\ id' = [id EXCEPT ![made] = NextId(c)]
        BY <1>1, <3>2 DEF Send
      <4>2. message.call \in Calls /\ message.call < made' /\ message.id = id'[message.call]
        BY <2>1, <4>1 DEF TypeOK
      <4>3. Len(stdin') = Len(stdin) + 1 /\ stdin'[Len(stdin) + 1] = message
            /\ \A i \in 1 .. Len(stdin) : stdin'[i] = stdin[i]
        BY <4>1 DEF TypeOK
      <4>4. \A i \in 1 .. Len(stdin') : i \in 1 .. Len(stdin) \/ i = Len(stdin) + 1
        BY <4>3 DEF TypeOK
      <4> HIDE DEF message
      <4> QED
        BY <2>4, <4>2, <4>3, <4>4 DEF Carried
    <3> QED
      BY <3>1, <3>2
  <2> QED
    BY <2>2, <2>4, <2>5 DEF Carried, Named
<1>2. ASSUME NEW c \in Calls, TimeOut(c) PROVE Carried'
  <2>9. NumbersStay /\ StdinShrinks /\ HandlerStays /\ WritingStays /\ StdoutMoves
    BY <1>2 DEF TimeOut, backend, NumbersStay, StdinShrinks, HandlerStays,
       WritingStays, StdoutMoves
  <2> QED
    BY <2>9, CarriedQuiet
<1>3. CASE ReadLine
  <2>9. NumbersStay /\ StdinShrinks /\ HandlerStays /\ WritingStays /\ StdoutMoves
    BY <1>3 DEF ReadLine, backend, NumbersStay, StdinShrinks, HandlerStays,
       WritingStays, StdoutMoves
  <2> QED
    BY <2>9, CarriedQuiet
<1>4. CASE Closed
  <2>9. NumbersStay /\ StdinShrinks /\ HandlerStays /\ WritingStays /\ StdoutMoves
    BY <1>4 DEF Closed, backend, NumbersStay, StdinShrinks, HandlerStays,
       WritingStays, StdoutMoves
  <2> QED
    BY <2>9, CarriedQuiet
<1> QED
  BY <1>1, <1>2, <1>3, <1>4 DEF Electron

-----------------------------------------------------------------------------
(* Promises and answers.                                                     *)

Promises == Numbered /\ Tracked /\ Arriving /\ OwnAnswer

LEMMA PromisesQuiet ==
  ASSUME Promises, UNCHANGED <<made, outcome, id, requestId, pending, stdout, answered, settledBy>>
  PROVE  Promises'
<1>1. Numbered'
  BY DEF Promises, Numbered
<1>2. Tracked'
  BY DEF Promises, Tracked
<1>3. Arriving'
  BY DEF Promises, Arriving, AnswerOf
<1>4. OwnAnswer'
  BY DEF Promises, OwnAnswer
<1> QED
  BY <1>1, <1>2, <1>3, <1>4 DEF Promises

LEMMA PromisesSend ==
  ASSUME TypeOK, Promises, NEW c \in Commands, Send(c)
  PROVE  Promises'
<1> USE NoneIsNone
<1>1. made \in Calls /\ made' = made + 1 /\ made \in Nat /\ requestId \in Nat
      /\ requestId \in Ids /\ requestId + 1 <= made'
  BY IpcAssumption DEF Send, Calls, Ids, TypeOK, Promises, Numbered
<1>2. UNCHANGED <<stdout, answered, settledBy>>
  BY DEF Send
<1>3. id[made] = None /\ outcome[made] = "new" /\ answered[made] = None
  BY <1>1 DEF Promises, Numbered
<1>4. CASE ~connected /\ Channel(c) # "settings"
  <2>1. outcome' = [outcome EXCEPT ![made] = "refused"] /\ UNCHANGED <<id, requestId, pending>>
    BY <1>4 DEF Send
  <2>2. \A k \in Calls : k # made => outcome'[k] = outcome[k]
    BY <2>1 DEF TypeOK
  <2>3. outcome'[made] = "refused"
    BY <1>1, <2>1 DEF TypeOK
  <2>4. Numbered'
    BY <1>1, <1>2, <2>1, <2>2 DEF Promises, Numbered
  <2>5. Tracked'
    BY <1>3, <2>1, <2>2, <2>3 DEF Promises, Tracked, TypeOK
  <2>6. Arriving'
    BY <1>2, <2>2, <2>3 DEF Promises, Arriving, AnswerOf
  <2>7. OwnAnswer'
    BY <1>2, <2>2, <2>3 DEF Promises, OwnAnswer, Says
  <2> QED
    BY <2>4, <2>5, <2>6, <2>7 DEF Promises
<1>5. CASE ~(~connected /\ Channel(c) # "settings")
  <2>1. /\ outcome' = [outcome EXCEPT ![made] = "waiting"]
        /\ id' = [id EXCEPT ![made] = requestId]
        /\ requestId' = requestId + 1
        /\ pending' = [pending EXCEPT ![requestId] = made]
    BY <1>5 DEF Send, NextId
  <2>2. \A k \in Calls : k # made => outcome'[k] = outcome[k] /\ id'[k] = id[k]
    BY <2>1 DEF TypeOK
  <2>3. outcome'[made] = "waiting" /\ id'[made] = requestId /\ pending'[requestId] = made
        /\ \A i \in Ids : i # requestId => pending'[i] = pending[i]
    BY <1>1, <2>1 DEF TypeOK
  <2>4. \A k \in Calls : k # made /\ id[k] # None => id[k] \in Nat /\ id[k] < requestId
    BY DEF Promises, Numbered, TypeOK
  <2>5. Numbered'
    <3>1. \A k \in Calls : k >= made' =>
             id'[k] = None /\ outcome'[k] = "new" /\ answered'[k] = None
      BY <1>1, <1>2, <2>2 DEF Promises, Numbered
    <3>2. \A k \in Calls : id'[k] # None => id'[k] < requestId'
      BY <1>1, <2>1, <2>2, <2>3, <2>4
    <3>3. \A k, m \in Calls : id'[k] = id'[m] /\ id'[k] # None => k = m
      BY <1>1, <2>2, <2>3, <2>4 DEF Promises, Numbered
    <3>4. requestId' <= made'
      BY <1>1, <2>1
    <3> QED
      BY <3>1, <3>2, <3>3, <3>4 DEF Numbered
  <2>6. Tracked'
    <3>1. ASSUME NEW k \in Calls, outcome'[k] = "waiting"
          PROVE  id'[k] # None /\ pending'[id'[k]] = k
      <4>1. CASE k = made
        BY <1>1, <2>3, <4>1
      <4>2. CASE k # made
        <5>1. id[k] # None /\ pending[id[k]] = k
          BY <2>2, <3>1, <4>2 DEF Promises, Tracked
        <5>2. id[k] \in Ids /\ id[k] # requestId
          BY <1>1, <2>4, <4>2, <5>1 DEF TypeOK
        <5> QED
          BY <2>2, <2>3, <4>2, <5>1, <5>2
      <4> QED
        BY <4>1, <4>2
    <3>2. ASSUME NEW i \in Ids, pending'[i] # None
          PROVE  id'[pending'[i]] = i /\ outcome'[pending'[i]] = "waiting"
      <4>1. CASE i = requestId
        BY <2>3, <4>1
      <4>2. CASE i # requestId
        <5>1. pending'[i] = pending[i] /\ pending[i] \in Calls
          BY <2>3, <3>2, <4>2 DEF TypeOK
        <5>2. id[pending[i]] = i /\ outcome[pending[i]] = "waiting"
          BY <3>2, <5>1 DEF Promises, Tracked
        <5>3. pending[i] # made
          BY <1>3, <5>2
        <5> QED
          BY <2>2, <5>1, <5>2, <5>3
      <4> QED
        BY <4>1, <4>2
    <3> QED
      BY <3>1, <3>2 DEF Tracked
  <2>7. Arriving'
    BY <1>2, <1>3, <2>2, <2>3 DEF Promises, Arriving, AnswerOf
  <2>8. OwnAnswer'
    BY <1>2, <2>2, <2>3 DEF Promises, OwnAnswer, Says
  <2> QED
    BY <2>5, <2>6, <2>7, <2>8 DEF Promises
<1> QED
  BY <1>4, <1>5

\* The promise of a call is settled, by the timer or by an answer: its id leaves the map.
LEMMA TrackedSettle ==
  ASSUME TypeOK, Promises, NEW c \in Calls, outcome[c] = "waiting",
         NEW how \in Outcomes \ {"waiting", "new"},
         outcome' = [outcome EXCEPT ![c] = how], pending' = [pending EXCEPT ![id[c]] = None],
         UNCHANGED <<made, id, requestId, answered>>
  PROVE  Numbered' /\ Tracked'
<1> USE NoneIsNone
<1>1. id[c] \in Ids /\ pending[id[c]] = c
  BY DEF Promises, Tracked, TypeOK
<1>2. c < made
  BY DEF Promises, Numbered, TypeOK
<1>3. \A k \in Calls : k # c => outcome'[k] = outcome[k]
  BY DEF TypeOK
<1>4. outcome'[c] = how
  BY DEF TypeOK
<1>5. pending'[id[c]] = None /\ \A i \in Ids : i # id[c] => pending'[i] = pending[i]
  BY <1>1 DEF TypeOK
<1>6. Numbered'
  BY <1>2, <1>3 DEF Promises, Numbered, TypeOK
<1>7. ASSUME NEW k \in Calls, outcome'[k] = "waiting"
      PROVE  id'[k] # None /\ pending'[id'[k]] = k
  <2>1. k # c /\ outcome[k] = "waiting"
    BY <1>3, <1>4, <1>7
  <2>2. id[k] # None /\ pending[id[k]] = k
    BY <2>1 DEF Promises, Tracked
  <2>3. id[k] \in Ids /\ id[k] # id[c]
    BY <1>1, <2>1, <2>2 DEF TypeOK
  <2> QED
    BY <1>5, <2>2, <2>3
<1>8. ASSUME NEW i \in Ids, pending'[i] # None
      PROVE  id'[pending'[i]] = i /\ outcome'[pending'[i]] = "waiting"
  <2>1. pending'[i] = pending[i] /\ pending[i] \in Calls /\ i # id[c]
    BY <1>5, <1>8 DEF TypeOK
  <2>2. id[pending[i]] = i /\ outcome[pending[i]] = "waiting"
    BY <1>8, <2>1 DEF Promises, Tracked
  <2> QED
    BY <1>3, <2>1, <2>2
<1> QED
  BY <1>6, <1>7, <1>8 DEF Tracked

LEMMA PromisesTimeOut ==
  ASSUME TypeOK, Promises, NEW c \in Calls, TimeOut(c)
  PROVE  Promises'
<1>1. Numbered' /\ Tracked'
  BY TrackedSettle DEF TimeOut, Outcomes, history
<1>2. \A k \in Calls : k # c => outcome'[k] = outcome[k]
  BY DEF TimeOut, TypeOK
<1>3. outcome'[c] = "timeout" /\ UNCHANGED <<stdout, answered, settledBy>>
  BY DEF TimeOut, TypeOK, history
<1>4. Arriving'
  BY <1>2, <1>3 DEF Promises, Arriving, AnswerOf
<1>5. OwnAnswer'
  BY <1>2, <1>3 DEF Promises, OwnAnswer, Says
<1> QED
  BY <1>1, <1>4, <1>5 DEF Promises

\* When the first line is read and is no answer to a promise that goes on waiting, the
\* lines of the others move up by one.
LEMMA ArrivingShift ==
  ASSUME TypeOK, Promises, stdout # <<>>, stdout' = Tail(stdout), answered' = answered,
         \A k \in Calls : outcome'[k] = "waiting" => outcome[k] = "waiting" /\ ~AnswerOf(k, 1)
  PROVE  Arriving'
<1>1. /\ Len(stdout) \in Nat /\ Len(stdout') = Len(stdout) - 1
      /\ \A i \in 1 .. Len(stdout') : stdout'[i] = stdout[i + 1]
  BY DEF TypeOK
<1>2. ASSUME NEW k \in Calls, answered'[k] = None, NEW n \in 1 .. Len(stdout')
      PROVE  ~(stdout'[n].call = k /\ stdout'[n].whole)
  <2>1. n + 1 \in 1 .. Len(stdout) /\ stdout'[n] = stdout[n + 1]
    BY <1>1
  <2> QED
    BY <1>2, <2>1 DEF Promises, Arriving, AnswerOf
<1>3. ASSUME NEW k \in Calls, outcome'[k] = "waiting", answered'[k] # None
      PROVE  \E n \in 1 .. Len(stdout') :
                /\ (stdout'[n].call = k /\ stdout'[n].whole)
                /\ stdout'[n].says = answered'[k]
                /\ \A m \in 1 .. n - 1 : ~(stdout'[m].call = k /\ stdout'[m].whole)
  <2>1. PICK n \in 1 .. Len(stdout) :
           /\ AnswerOf(k, n) /\ stdout[n].says = answered[k]
           /\ \A m \in 1 .. n - 1 : ~AnswerOf(k, m)
    BY <1>3 DEF Promises, Arriving
  <2>2. n # 1
    BY <1>3, <2>1
  <2>3. n - 1 \in 1 .. Len(stdout') /\ stdout'[n - 1] = stdout[n]
    BY <1>1, <2>2
  <2>4. ASSUME NEW m \in 1 .. (n - 1) - 1
        PROVE  ~(stdout'[m].call = k /\ stdout'[m].whole)
    <3>1. m + 1 \in 1 .. n - 1 /\ m \in 1 .. Len(stdout')
      BY <1>1
    <3> QED
      BY <1>1, <2>1, <3>1 DEF AnswerOf
  <2> QED
    BY <2>1, <2>3, <2>4 DEF AnswerOf
<1> QED
  BY <1>2, <1>3 DEF Arriving, AnswerOf

\* What is read settles the promise of its own call, with the answer written first.
LEMMA PromisesReadLine ==
  ASSUME TypeOK, Promises, Carried, ReadLine
  PROVE  Promises'
<1> DEFINE line == Head(stdout)
           to == IF line.whole /\ line.id # None THEN pending[line.id] ELSE None
<1> USE NoneIsNone
<1>1. /\ line = stdout[1] /\ 1 \in 1 .. Len(stdout) /\ Len(stdout) \in Nat
      /\ Len(stdout') = Len(stdout) - 1
      /\ \A i \in 1 .. Len(stdout') : stdout'[i] = stdout[i + 1]
  BY DEF ReadLine, TypeOK
<1>2. line.call \in Calls /\ line.id = id[line.call] /\ line.says \in Says
  BY <1>1 DEF Carried, Named
<1>3. line.id \in Ids \union {None}
  BY <1>2 DEF TypeOK
<1>4. UNCHANGED <<made, id, requestId, answered>>
  BY DEF ReadLine
<1>5. CASE to # None
  <2>1. line.whole /\ line.id \in Ids /\ pending[line.id] = to /\ to \in Calls
    BY <1>3, <1>5 DEF TypeOK
  <2>2. id[to] = line.id /\ outcome[to] = "waiting"
    BY <1>5, <2>1 DEF Promises, Tracked
  <2>3. line.call = to
    BY <1>2, <2>1, <2>2 DEF Promises, Numbered
  <2>4. AnswerOf(to, 1)
    BY <1>1, <2>1, <2>3 DEF AnswerOf
  <2>5. answered[to] # None
    BY <1>1, <2>1, <2>4 DEF Promises, Arriving
  <2>6. PICK i \in 1 .. Len(stdout) :
           /\ AnswerOf(to, i) /\ stdout[i].says = answered[to]
           /\ \A j \in 1 .. i - 1 : ~AnswerOf(to, j)
    BY <2>1, <2>2, <2>5 DEF Promises, Arriving
  <2>7. i = 1
    BY <1>1, <2>4, <2>6
  <2>8. line.says = answered[to]
    BY <1>1, <2>6, <2>7
  <2>9. /\ outcome' = [outcome EXCEPT ![to] = line.says]
        /\ settledBy' = [settledBy EXCEPT ![to] = line.call]
        /\ pending' = [pending EXCEPT ![line.id] = None]
    BY <1>5 DEF ReadLine
  <2> HIDE DEF line, to
  <2>10. line.says \in Outcomes \ {"waiting", "new"}
    BY <1>2 DEF Says, Outcomes
  <2>11. Numbered' /\ Tracked'
    BY <1>4, <2>1, <2>2, <2>9, <2>10, TrackedSettle
  <2>12. \A k \in Calls : k # to => outcome'[k] = outcome[k] /\ settledBy'[k] = settledBy[k]
    BY <2>9 DEF TypeOK
  <2>13. outcome'[to] = line.says /\ settledBy'[to] = line.call
    BY <2>1, <2>9 DEF TypeOK
  <2>14. OwnAnswer'
    BY <1>4, <2>3, <2>8, <2>12, <2>13 DEF Promises, OwnAnswer
  <2>15. \A k \in Calls : outcome'[k] = "waiting" => outcome[k] = "waiting" /\ ~AnswerOf(k, 1)
    BY <1>1, <2>3, <2>10, <2>12, <2>13 DEF AnswerOf
  <2>16. Arriving'
    BY <1>4, <2>15, ArrivingShift DEF ReadLine
  <2> QED
    BY <2>11, <2>14, <2>16 DEF Promises
<1>6. CASE to = None
  <2>1. UNCHANGED <<outcome, settledBy, pending>>
    BY <1>6 DEF ReadLine
  <2>2. Numbered' /\ Tracked' /\ OwnAnswer'
    BY <1>4, <2>1 DEF Promises, Numbered, Tracked, OwnAnswer
  <2>3. \A k \in Calls : outcome'[k] = "waiting" => outcome[k] = "waiting" /\ ~AnswerOf(k, 1)
    <3>1. SUFFICES ASSUME NEW k \in Calls, outcome[k] = "waiting", AnswerOf(k, 1) PROVE FALSE
      BY <2>1
    <3>2. id[k] # None /\ pending[id[k]] = k
      BY <3>1 DEF Promises, Tracked
    <3> QED
      BY <1>1, <1>2, <1>6, <3>1, <3>2 DEF AnswerOf
  <2>4. Arriving'
    BY <1>4, <2>3, ArrivingShift DEF ReadLine
  <2> QED
    BY <2>2, <2>4 DEF Promises
<1> QED
  BY <1>5, <1>6

\* The first answer of a call that comes out whole is noted; what follows it is behind it.
LEMMA PromisesEndLine ==
  ASSUME TypeOK, Promises, Carried, EndLine
  PROVE  Promises'
<1> USE NoneIsNone
<1>1. UNCHANGED <<made, outcome, id, requestId, pending, settledBy>>
  BY DEF EndLine, electron
<1>2. writing.call # None => writing.call \in Calls /\ writing.call < made
                             /\ writing.says \in Says
  BY DEF Carried, Named
<1>3. \A k \in Calls : answered[k] # None => answered'[k] = answered[k]
  BY DEF EndLine, TypeOK
<1>4. \A k \in Calls : answered[k] = None /\ answered'[k] # None =>
         writing.call = k /\ writing.whole /\ answered'[k] = writing.says
  BY DEF EndLine, TypeOK
<1>5. \A k \in Calls : answered'[k] = None =>
         ~(writing.call = k /\ writing.whole) /\ answered[k] = None
  BY <1>2 DEF EndLine, TypeOK
<1>6. Numbered'
  BY <1>1, <1>2, <1>4 DEF Promises, Numbered, TypeOK, Calls
<1>7. Tracked' /\ OwnAnswer'
  BY <1>1, <1>3 DEF Promises, Tracked, OwnAnswer
<1>8. Arriving'
  <2>1. CASE writing.call = None
    <3>1. stdout' = stdout /\ answered' = answered
      BY <2>1 DEF EndLine
    <3> QED
      BY <1>1, <3>1 DEF Promises, Arriving, AnswerOf
  <2>2. CASE writing.call # None
    <3>1. writing \in Lines /\ stdout \in Seq(Lines) /\ stdout' = Append(stdout, writing)
      BY <2>2 DEF EndLine, TypeOK
    <3>2. /\ Len(stdout) \in Nat /\ Len(stdout') = Len(stdout) + 1
          /\ stdout'[Len(stdout) + 1] = writing
          /\ \A i \in 1 .. Len(stdout) : stdout'[i] = stdout[i]
      BY <3>1
    <3>3. ASSUME NEW k \in Calls, answered'[k] = None, NEW n \in 1 .. Len(stdout')
          PROVE  ~(stdout'[n].call = k /\ stdout'[n].whole)
      <4>1. n \in 1 .. Len(stdout) \/ n = Len(stdout) + 1
        BY <3>2
      <4> QED
        BY <1>5, <3>2, <3>3, <4>1 DEF Promises, Arriving, AnswerOf
    <3>4. ASSUME NEW k \in Calls, outcome'[k] = "waiting", answered'[k] # None
          PROVE  \E n \in 1 .. Len(stdout') :
                    /\ (stdout'[n].call = k /\ stdout'[n].whole)
                    /\ stdout'[n].says = answered'[k]
                    /\ \A m \in 1 .. n - 1 : ~(stdout'[m].call = k /\ stdout'[m].whole)
      <4>1. CASE answered[k] # None
        <5>1. PICK n \in 1 .. Len(stdout) :
                 /\ AnswerOf(k, n) /\ stdout[n].says = answered[k]
                 /\ \A m \in 1 .. n - 1 : ~AnswerOf(k, m)
          BY <1>1, <3>4, <4>1 DEF Promises, Arriving
        <5>2. n \in 1 .. Len(stdout') /\ \A m \in 1 .. n - 1 : m \in 1 .. Len(stdout)
          BY <3>2
        <5> QED
          BY <1>3, <3>2, <4>1, <5>1, <5>2 DEF AnswerOf
      <4>2. CASE answered[k] = None
        <5>1. writing.call = k /\ writing.whole /\ answered'[k] = writing.says
          BY <1>4, <3>4, <4>2
        <5>2. \A m \in 1 .. Len(stdout) : ~(stdout'[m].call = k /\ stdout'[m].whole)
          BY <3>2, <4>2 DEF Promises, Arriving, AnswerOf
        <5>3. Len(stdout) + 1 \in 1 .. Len(stdout')
              /\ \A m \in 1 .. (Len(stdout) + 1) - 1 : m \in 1 .. Len(stdout)
          BY <3>2
        <5> QED
          BY <3>2, <5>1, <5>2, <5>3
      <4> QED
        BY <4>1, <4>2
    <3> QED
      BY <3>3, <3>4 DEF Arriving, AnswerOf
  <2> QED
    BY <2>1, <2>2
<1> QED
  BY <1>6, <1>7, <1>8 DEF Promises

-----------------------------------------------------------------------------
(* The invariant.                                                            *)

LEMMA NextIInv == IInv /\ [Next]_vars => IInv'
<1> SUFFICES ASSUME IInv, [Next]_vars PROVE IInv'
  OBVIOUS
<1> DEFINE Quiet == UNCHANGED <<made, outcome, id, requestId, pending, stdout, answered,
                                settledBy>>
<1>1. TypeOK /\ Numbered /\ Tracked /\ Carried /\ Promises
  BY DEF IInv, Promises
<1>2. CASE UNCHANGED vars
  BY <1>2 DEF IInv, vars, electron, backend, history, TypeOK, Numbered, Tracked, Carried,
              Named, Arriving, AnswerOf, OwnAnswer
<1>3. CASE Electron
  <2>1. TypeOK' /\ Carried'
    BY <1>1, <1>3, TypeElectron, CarriedElectron
  <2>2. Closed => Quiet
    BY DEF Closed, history
  <2>3. Promises'
    BY <1>1, <1>3, <2>2, PromisesSend, PromisesTimeOut, PromisesReadLine, PromisesQuiet
    DEF Electron
  <2> QED
    BY <2>1, <2>3 DEF IInv, Promises
<1>4. CASE Backend
  <2>1. TypeOK' /\ Carried'
    BY <1>1, <1>4, TypeBackend, CarriedBackend
  <2>2. EndLine \/ Quiet
    BY <1>4 DEF Backend, Take, Work, WriteAnswer, NoAnswer, Broadcast, LogLine, StartSync,
                StartFails, SyncBegins, SyncEnds, NotifyDevMode, BackendEnds, electron, history
  <2>3. Promises'
    BY <1>1, <2>2, PromisesEndLine, PromisesQuiet
  <2> QED
    BY <2>1, <2>3 DEF IInv, Promises
<1> QED
  BY <1>2, <1>3, <1>4 DEF Next

\* The invariant of the bridge holds.
THEOREM BridgeInvariant == Spec => []IInv
<1>1. Init => IInv
  BY InitIInv
<1>2. IInv /\ [Next]_vars => IInv'
  BY NextIInv
<1> QED
  BY <1>1, <1>2, PTL DEF Spec

\* Every variable of the bridge keeps its type, whatever is sent and answered.
THEOREM TypeCorrect == Spec => []TypeOK
<1>1. IInv => TypeOK
  BY DEF IInv
<1> QED
  BY <1>1, BridgeInvariant, PTL

\* A promise is settled by the answer to its own command, with what was answered first.
THEOREM AnswersAreOwn == Spec => []OwnAnswer
<1>1. IInv => OwnAnswer
  BY DEF IInv
<1> QED
  BY <1>1, BridgeInvariant, PTL

\* An answer that was written whole is on its way as long as its promise waits.
THEOREM AnswersDoArrive == Spec => []AnswersArrive
<1>1. IInv => AnswersArrive
  BY DEF IInv, Arriving, AnswerOf, AnswersArrive
<1> QED
  BY <1>1, BridgeInvariant, PTL
-----------------------------------------------------------------------------
(* What was answered has been done.  Commands are handled in the order in    *)
(* which they were made (InOrder), and what has an effect or an answer is    *)
(* over (HandledFirst), so nothing takes effect before an answer that was    *)
(* given already.  An answered sign-out took effect (ClaimsDone), it holds   *)
(* until a later sign-in is handled (SignedOutSince), and none of those lies *)
(* between it and a call of afterLogout (Refusal).                           *)

\* The handler is done with this call, or at least has worked on it.
Past(c) ==
    /\ c < made
    /\ \A i \in 1 .. Len(stdin) : c < stdin[i].call
    /\ handler.at # "idle" => c <= handler.call
    /\ handler.at = "work" => c # handler.call

StdinInOrder ==
    /\ \A i, j \in 1 .. Len(stdin) : i < j => stdin[i].call < stdin[j].call
    /\ \A i \in 1 .. Len(stdin) : stdin[i].command = command[stdin[i].call]
HandlerInOrder ==
    handler.at # "idle" =>
        /\ handler.command = command[handler.call] /\ handler.id # None
        /\ \A i \in 1 .. Len(stdin) : handler.call < stdin[i].call
StartIsSync == handler.at = "start" => handler.command = "trigger_sync"
AnswerIsHandlers ==
    writing.call # None =>
        handler.at = "write" /\ handler.call = writing.call /\ handler.says = writing.says
Made ==
    \A c \in Calls :
        /\ c >= made => command[c] = None
        /\ id[c] # None => outcome[c] \notin {"new", "refused"}
InOrder == StdinInOrder /\ HandlerInOrder /\ StartIsSync /\ AnswerIsHandlers /\ Made

HandledFirst == \A c \in Calls : done[c] \/ answered[c] # None => Past(c)

SaysOk(c) == handler.call = c /\ handler.at \in {"answer", "write"} /\ handler.says = "ok"
ClaimsDone ==
    \A c \in Calls : command[c] \in Claiming /\ (answered[c] = "ok" \/ SaysOk(c)) => done[c]

SignedOutSince ==
    \A c \in Calls : command[c] = "logout" /\ done[c] =>
        ~signedIn \/ \E p \in Calls : p > c /\ command[p] = "login" /\ Past(p)

LogoutBefore(c) ==
    \E out \in Calls :
        /\ out < c /\ command[out] = "logout" /\ done[out]
        /\ \A p \in Calls : out < p /\ p <= c => command[p] # "login"
Refusal ==
    \A c \in afterLogout :
        c < made /\ LogoutBefore(c) /\ (command[c] \in FileCommands => ~done[c])

\* The thread's trigger_sync is over, and is the last one for which there was a thread.
SyncInOrder ==
    /\ asyncSync.at # "none" =>
          /\ asyncSync.call \in Calls /\ Past(asyncSync.call)
          /\ command[asyncSync.call] = "trigger_sync" /\ id[asyncSync.call] # None
          /\ handler.at # "idle" => asyncSync.call # handler.call
          /\ \A c \in Calls : command[c] = "trigger_sync" /\ done[c] => c <= asyncSync.call
    /\ asyncSync.at = "created" => ~done[asyncSync.call]
    /\ handler.at # "idle" /\ handler.command = "trigger_sync" => ~done[handler.call]

HandledInv == InOrder /\ HandledFirst /\ SyncInOrder /\ ClaimsDone /\ SignedOutSince /\ Refusal

-----------------------------------------------------------------------------
LEMMA InitHandled == Init => HandledInv
<1> SUFFICES ASSUME Init PROVE HandledInv
  OBVIOUS
<1> USE NoneIsNone
<1>1. InOrder
  BY DEF Init, InOrder, StdinInOrder, HandlerInOrder, StartIsSync, AnswerIsHandlers, Made,
         Idle, NoLine
<1>2. HandledFirst
  BY DEF Init, HandledFirst
<1>3. ClaimsDone
  BY DEF Init, ClaimsDone, SaysOk, Idle, Claiming
<1>4. SignedOutSince /\ Refusal
  BY DEF Init, SignedOutSince, Refusal
<1>5. SyncInOrder
  BY DEF Init, SyncInOrder, NoSync, Idle
<1> QED
  BY <1>1, <1>2, <1>3, <1>4, <1>5 DEF HandledInv

\* Steps of the backend between Take and the end of a command.
HandlerGoesOn ==
    /\ UNCHANGED <<made, command, stdin>>
    /\ \/ handler' = handler
       \/ handler'.at = "idle"
       \/ /\ handler.at # "idle" /\ handler'.at # "work"
          /\ handler'.call = handler.call /\ handler'.id = handler.id
          /\ handler'.command = handler.command
    /\ handler'.at = "work" => handler.at = "work"
Quieter == HandlerGoesOn /\ UNCHANGED <<id, outcome>>

LEMMA PastGoesOn ==
    ASSUME HandlerGoesOn, NEW c \in Calls, Past(c) PROVE Past(c)'
BY DEF HandlerGoesOn, Past

LEMMA InOrderGoesOn ==
    ASSUME InOrder, Quieter, StartIsSync', AnswerIsHandlers' PROVE InOrder'
<1> USE DEF HandlerGoesOn, Quieter
<1>1. StdinInOrder' /\ Made'
  BY DEF InOrder, StdinInOrder, Made
<1>2. HandlerInOrder'
  BY DEF InOrder, HandlerInOrder
<1> QED
  BY <1>1, <1>2 DEF InOrder

\* What is in the pipe after a step of Send, Take or BackendEnds.
LEMMA PastSend ==
    ASSUME TypeOK, Carried, NEW k \in Commands, Send(k), NEW c \in Calls, Past(c)
    PROVE  Past(c)'
<1>1. made' = made + 1 /\ handler' = handler
  BY DEF Send, backend
<1>2. made \in Nat /\ c \in Nat
  BY NoneIsNone DEF TypeOK
<1>3. ASSUME NEW i \in 1 .. Len(stdin') PROVE c < stdin'[i].call
  <2> DEFINE message == [call |-> made, id |-> NextId(k), command |-> k]
  <2>1. stdin' = stdin \/ stdin' = Append(stdin, message)
    BY DEF Send
  <2>2. CASE stdin' = stdin
    BY <2>2, <1>3 DEF Past
  <2>3. CASE stdin' = Append(stdin, message)
    <3> HIDE DEF message
    <3>1. stdin \in Seq(Messages)
      BY DEF TypeOK
    <3>2. Len(stdin') = Len(stdin) + 1 /\ stdin'[Len(stdin) + 1] = message
          /\ \A j \in 1 .. Len(stdin) : stdin'[j] = stdin[j]
      BY <2>3, <3>1
    <3>3. message.call = made
      BY DEF message
    <3>4. i \in 1 .. Len(stdin) \/ i = Len(stdin) + 1
      BY <1>3, <3>1, <3>2
    <3> QED
      BY <3>2, <3>3, <3>4 DEF Past
  <2> QED
    BY <2>1, <2>2, <2>3
<1> QED
  BY <1>1, <1>2, <1>3 DEF Past

LEMMA PastTake ==
    ASSUME TypeOK, InOrder, Take, NEW c \in Calls, Past(c) PROVE Past(c)'
<1>1. stdin \in Seq(Messages) /\ stdin # <<>>
  BY DEF TypeOK, Take
<1>2. handler'.call = stdin[1].call /\ 1 \in 1 .. Len(stdin) /\ made' = made
  BY <1>1 DEF Take, Handle, electron
<1>3. Len(stdin') = Len(stdin) - 1 /\ \A i \in 1 .. Len(stdin') : stdin'[i] = stdin[i + 1]
  BY <1>1 DEF Take
<1>4. \A i \in 1 .. Len(stdin') : i + 1 \in 1 .. Len(stdin)
  BY <1>1, <1>3
<1>5. \A m \in Messages : m.call \in Nat
  BY NoneIsNone DEF Messages
<1>6. stdin[1].call \in Nat /\ c \in Nat
  BY <1>1, <1>2, <1>5, NoneIsNone
<1>7. c < made /\ \A i \in 1 .. Len(stdin) : c < stdin[i].call
  BY DEF Past
<1>8. \A i \in 1 .. Len(stdin') : c < stdin'[i].call
  BY <1>3, <1>4, <1>7
<1>9. c <= handler'.call /\ c # handler'.call
  <2>1. c < stdin[1].call
    BY <1>2, <1>7
  <2> QED
    BY <1>2, <1>6, <2>1
<1> QED
  BY <1>2, <1>7, <1>8, <1>9 DEF Past

LEMMA PastEnds == ASSUME BackendEnds, NEW c \in Calls, Past(c) PROVE Past(c)'
BY DEF BackendEnds, electron, Past, Idle

-----------------------------------------------------------------------------
LEMMA InOrderSend ==
    ASSUME TypeOK, Numbered, Carried, InOrder, NEW k \in Commands, Send(k)
    PROVE  InOrder'
<1> USE NoneIsNone
<1>1. made \in Calls /\ made' = made + 1 /\ made \in Nat /\ UNCHANGED <<handler, writing>>
  BY IpcAssumption DEF Send, Calls, TypeOK, backend
<1>2. command' = [command EXCEPT ![made] = k] /\ command \in [Calls -> Commands \union {None}]
  BY DEF Send, TypeOK
<1>3. \A c \in Calls : c # made => command'[c] = command[c]
  BY <1>1, <1>2
<1>a. \A c \in Calls : c < made => command'[c] = command[c]
  <2>1. \A c \in Calls : c \in Nat
    OBVIOUS
  <2>2. \A c \in Calls : c < made => c # made
    BY <1>1, <2>1
  <2> QED
    BY <1>3, <2>2
<1>4. Made'
  <2>1. \A c \in Calls : c >= made' => command'[c] = None
    BY <1>1, <1>3 DEF InOrder, Made
  <2>2. \A c \in Calls : c # made => id'[c] = id[c] /\ outcome'[c] = outcome[c]
    BY <1>1 DEF Send, TypeOK
  <2>3. id'[made] # None => outcome'[made] \notin {"new", "refused"}
    BY <1>1 DEF Send, TypeOK, Numbered
  <2> QED
    BY <2>1, <2>2, <2>3 DEF InOrder, Made
<1> DEFINE message == [call |-> made, id |-> NextId(k), command |-> k]
<1>5. stdin' = stdin \/ stdin' = Append(stdin, message)
  BY DEF Send
<1>6. message.call = made /\ message.command = k
  OBVIOUS
<1>7. stdin \in Seq(Messages)
  BY DEF TypeOK
<1> HIDE DEF message
<1>8. \A i \in 1 .. Len(stdin) : stdin[i].call \in Calls /\ stdin[i].call < made
  BY DEF Carried, Named
<1>9. CASE stdin' = stdin
  <2>1. StdinInOrder'
    BY <1>a, <1>8, <1>9 DEF InOrder, StdinInOrder
  <2>2. HandlerInOrder'
    BY <1>1, <1>a, <1>9 DEF InOrder, HandlerInOrder, Carried, Named
  <2> QED
    BY <1>1, <1>4, <2>1, <2>2 DEF InOrder, StartIsSync, AnswerIsHandlers
<1>10. CASE stdin' = Append(stdin, message)
  <2>1. Len(stdin') = Len(stdin) + 1 /\ stdin'[Len(stdin) + 1] = message
        /\ \A j \in 1 .. Len(stdin) : stdin'[j] = stdin[j]
    BY <1>7, <1>10
  <2>2. \A i \in 1 .. Len(stdin') : i \in 1 .. Len(stdin) \/ i = Len(stdin) + 1
    BY <1>7, <2>1
  <2>3. \A i, j \in 1 .. Len(stdin') : i < j => stdin'[i].call < stdin'[j].call
    <3> SUFFICES ASSUME NEW i \in 1 .. Len(stdin'), NEW j \in 1 .. Len(stdin'), i < j
                 PROVE  stdin'[i].call < stdin'[j].call
      OBVIOUS
    <3>1. i \in 1 .. Len(stdin)
      BY <1>7, <2>1
    <3>2. CASE j \in 1 .. Len(stdin)
      BY <2>1, <3>1, <3>2 DEF InOrder, StdinInOrder
    <3>3. CASE j = Len(stdin) + 1
      BY <1>6, <1>8, <2>1, <3>1, <3>3
    <3> QED
      BY <2>2, <3>2, <3>3
  <2>4. command'[made] = k
    BY <1>1, <1>2
  <2>5. \A i \in 1 .. Len(stdin') : stdin'[i].command = command'[stdin'[i].call]
    <3>1. \A i \in 1 .. Len(stdin) : stdin[i].command = command'[stdin[i].call]
      BY <1>a, <1>8 DEF InOrder, StdinInOrder
    <3> QED
      BY <1>6, <2>1, <2>2, <2>4, <3>1
  <2>6. HandlerInOrder'
    BY <1>1, <1>a, <1>6, <2>1, <2>2 DEF InOrder, HandlerInOrder, Carried, Named
  <2> QED
    BY <1>1, <1>4, <2>3, <2>5, <2>6
    DEF InOrder, StdinInOrder, StartIsSync, AnswerIsHandlers
<1> QED
  BY <1>5, <1>9, <1>10

LEMMA InOrderTake ==
    ASSUME TypeOK, Carried, InOrder, Take PROVE InOrder'
<1>1. stdin \in Seq(Messages) /\ stdin # <<>> /\ UNCHANGED <<made, command, id, outcome, writing>>
  BY DEF TypeOK, Take, electron
<1>2. /\ handler'.call = stdin[1].call /\ handler'.command = stdin[1].command
      /\ handler'.at = "work" /\ 1 \in 1 .. Len(stdin)
  BY <1>1 DEF Take, Handle
<1>3. Len(stdin') = Len(stdin) - 1 /\ \A i \in 1 .. Len(stdin') : stdin'[i] = stdin[i + 1]
  BY <1>1 DEF Take
<1>4. \A i \in 1 .. Len(stdin') : i + 1 \in 1 .. Len(stdin) /\ 1 < i + 1
  BY <1>1, <1>3
<1>5. StdinInOrder'
  <2>1. \A i, j \in 1 .. Len(stdin') : i < j => i + 1 < j + 1
    BY <1>1, <1>3
  <2> QED
    BY <1>1, <1>3, <1>4, <2>1 DEF InOrder, StdinInOrder
<1>6. HandlerInOrder'
  <2>1. handler'.id = stdin[1].id /\ stdin[1] \in Messages
    BY <1>1, <1>2 DEF Take, Handle
  <2>2. handler'.id # None
    BY <2>1, NoneIsNone DEF Messages
  <2> QED
    BY <1>1, <1>2, <1>3, <1>4, <2>2 DEF InOrder, StdinInOrder, HandlerInOrder
<1>7. AnswerIsHandlers' /\ StartIsSync' /\ Made'
  BY <1>1, <1>2 DEF Take, InOrder, AnswerIsHandlers, StartIsSync, Made
<1> QED
  BY <1>5, <1>6, <1>7 DEF InOrder

LEMMA InOrderEnds ==
    ASSUME InOrder, BackendEnds PROVE InOrder'
BY DEF BackendEnds, electron, InOrder, StdinInOrder, HandlerInOrder, StartIsSync,
       AnswerIsHandlers, Made, Idle, NoLine

LEMMA BackendGoesOn ==
    ASSUME TypeOK, Backend, ~Take, ~BackendEnds PROVE Quieter
<1>a. handler \in Handlers
  BY DEF TypeOK, Handlers
<1>1. CASE Work
  BY <1>a, <1>1 DEF Work, electron, Handlers, HandlerGoesOn, Quieter
<1>2. CASE WriteAnswer \/ StartFails
  BY <1>a, <1>2 DEF WriteAnswer, StartFails, electron, Handlers, HandlerGoesOn, Quieter
<1>3. CASE NoAnswer \/ Broadcast \/ LogLine \/ StartSync \/ SyncBegins \/ SyncEnds \/ NotifyDevMode
  BY <1>3 DEF NoAnswer, Broadcast, LogLine, StartSync, SyncBegins, SyncEnds, NotifyDevMode,
              electron, Idle, HandlerGoesOn, Quieter
<1>4. CASE EndLine
  BY <1>a, <1>4 DEF EndLine, AfterAnswer, electron, Idle, Handlers, HandlerGoesOn, Quieter
<1> QED
  BY <1>1, <1>2, <1>3, <1>4 DEF Backend

LEMMA ElectronGoesOn ==
    ASSUME Electron PROVE (\E k \in Commands : Send(k)) \/ HandlerGoesOn
BY DEF Electron, TimeOut, ReadLine, Closed, backend, HandlerGoesOn

LEMMA PastStays ==
    ASSUME TypeOK, Carried, InOrder, Next, NEW c \in Calls, Past(c) PROVE Past(c)'
BY BackendGoesOn, ElectronGoesOn, PastGoesOn, PastSend, PastTake, PastEnds
DEF Next, Quieter

\* What follows the answer, and the writer of a line.
LEMMA SaysInOrder ==
    ASSUME TypeOK, InOrder, Backend, ~Take, ~BackendEnds
    PROVE  StartIsSync' /\ AnswerIsHandlers'
<1> USE NoneIsNone DEF InOrder, StartIsSync, AnswerIsHandlers
<1>a. handler \in Handlers /\ writing \in Lines
  BY DEF TypeOK, Handlers
<1>1. CASE Work
  BY <1>a, <1>1 DEF Work, Handlers
<1>2. CASE WriteAnswer
  BY <1>a, <1>2 DEF WriteAnswer, Handlers
<1>3. CASE StartFails
  BY <1>a, <1>3 DEF StartFails, Handlers
<1>4. CASE NoAnswer \/ StartSync \/ SyncBegins \/ SyncEnds
  BY <1>4 DEF NoAnswer, StartSync, SyncBegins, SyncEnds, Idle
<1>5. CASE Broadcast \/ NotifyDevMode
  BY <1>5 DEF Broadcast, NotifyDevMode, NoLine, Idle
<1>6. CASE LogLine
  BY <1>a, <1>6 DEF LogLine, Lines
<1>7. CASE EndLine
  BY <1>a, <1>7 DEF EndLine, AfterAnswer, NoLine, Idle, Handlers
<1> QED
  BY <1>1, <1>2, <1>3, <1>4, <1>5, <1>6, <1>7 DEF Backend

LEMMA InOrderStep ==
    ASSUME TypeOK, Numbered, Carried, InOrder, Next PROVE InOrder'
<1>1. ASSUME NEW k \in Commands, Send(k) PROVE InOrder'
  BY <1>1, InOrderSend
<1>2. CASE (\E c \in Calls : TimeOut(c)) \/ ReadLine \/ Closed
  <2>1. UNCHANGED <<made, command, id, stdin, handler, writing>>
    BY <1>2 DEF TimeOut, ReadLine, Closed, backend
  <2>2. \A c \in Calls : outcome'[c] \in {outcome[c], "timeout", "ok", "error"}
    <3>1. CASE ReadLine
      <4>1. Head(stdout) = stdout[1] /\ 1 \in 1 .. Len(stdout)
        BY <3>1 DEF ReadLine, TypeOK
      <4>2. Head(stdout).says \in Says
        BY <4>1 DEF Carried
      <4> QED
        BY <3>1, <4>2 DEF ReadLine, TypeOK, Says
    <3>2. CASE ~ReadLine
      BY <1>2, <3>2 DEF TimeOut, Closed, TypeOK
    <3> QED
      BY <3>1, <3>2
  <2> QED
    BY <2>1, <2>2 DEF InOrder, StdinInOrder, HandlerInOrder, StartIsSync, AnswerIsHandlers,
                      Made
<1>3. CASE Backend
  BY <1>3, InOrderTake, InOrderEnds, InOrderGoesOn, BackendGoesOn, SaysInOrder
<1> QED
  BY <1>1, <1>2, <1>3 DEF Next, Electron

-----------------------------------------------------------------------------
\* The command under way is past once the handler has worked on it.
LEMMA PastHandler ==
    ASSUME TypeOK, Carried, InOrder, handler.at \notin {"idle", "work"}
    PROVE  handler.call \in Calls /\ Past(handler.call)
<1>1. handler.call \in Calls /\ handler.call < made /\ handler.call \in Nat
  BY NoneIsNone DEF Carried, Named
<1> QED
  BY <1>1 DEF InOrder, HandlerInOrder, Past

LEMMA HandlerAtWork ==
    ASSUME TypeOK, Carried, InOrder, HandledFirst, handler.at = "work"
    PROVE  /\ handler.call \in Calls /\ handler.command = command[handler.call]
           /\ ~done[handler.call] /\ answered[handler.call] = None
BY DEF Carried, Named, InOrder, HandlerInOrder, HandledFirst, Past

\* Effects and answers are those of the command under way, or of the thread of the last
\* trigger_sync.
Effect(c) == (c = handler.call /\ (Work \/ EndLine)) \/ (c = asyncSync.call /\ SyncBegins)

LEMMA EffectsInOrder ==
    ASSUME TypeOK, Carried, InOrder, HandledFirst, Next, NEW c \in Calls,
           done'[c] # done[c] \/ answered'[c] # answered[c]
    PROVE  Effect(c)
<1> USE DEF Effect
<1>1. Work \/ SyncBegins \/ EndLine
  BY DEF Next, Electron, Send, TimeOut, ReadLine, Closed, Backend, Take, WriteAnswer,
         NoAnswer, Broadcast, LogLine, StartSync, StartFails, SyncEnds, NotifyDevMode,
         BackendEnds, history
<1>2. CASE Work
  <2>1. PICK d : done' = [done EXCEPT ![handler.call] = d]
    BY <1>2 DEF Work
  <2>2. answered' = answered
    BY <1>2 DEF Work
  <2>3. c = handler.call
    BY <2>1, <2>2 DEF TypeOK
  <2> QED
    BY <1>2, <2>3
<1>3. CASE SyncBegins
  BY <1>3 DEF SyncBegins, TypeOK
<1>4. CASE EndLine
  <2>1. c = writing.call /\ writing.call # None
    BY <1>4 DEF EndLine, TypeOK
  <2> QED
    BY <1>4, <2>1 DEF InOrder, AnswerIsHandlers
<1> QED
  BY <1>1, <1>2, <1>3, <1>4

LEMMA HandledFirstStep ==
    ASSUME TypeOK, TypeOK', Carried, Carried', InOrder, InOrder', HandledFirst, SyncInOrder, Next
    PROVE  HandledFirst'
<1> SUFFICES ASSUME NEW c \in Calls, done'[c] \/ answered'[c] # None
             PROVE  Past(c)'
  BY DEF HandledFirst
<1>1. CASE done[c] \/ answered[c] # None
  BY <1>1, PastStays DEF HandledFirst
<1>2. CASE ~done[c] /\ answered[c] = None
  <2>1. Effect(c)
    BY <1>2, EffectsInOrder
  <2>2. CASE c = handler.call /\ Work
    <3>1. handler'.at = "answer" /\ handler'.call = handler.call
      BY <2>2 DEF Work, TypeOK
    <3>2. c < made' /\ c \in Nat /\ \A i \in 1 .. Len(stdin') : c < stdin'[i].call
      BY <2>2, <3>1, NoneIsNone DEF Carried, Named, InOrder, HandlerInOrder
    <3> QED
      BY <2>2, <3>1, <3>2 DEF Past
  <2>3. CASE c = asyncSync.call /\ SyncBegins
    <3>1. Past(c)
      BY <2>3 DEF SyncInOrder, SyncBegins
    <3> QED
      BY <3>1, PastStays
  <2>4. CASE c = handler.call /\ EndLine
    <3>1. writing.call # None
      BY <1>2, <2>4 DEF EndLine, TypeOK
    <3>2. handler.at = "write"
      BY <3>1 DEF InOrder, AnswerIsHandlers
    <3> QED
      BY <2>4, <3>2, PastHandler, PastStays
  <2> QED
    BY <2>1, <2>2, <2>3, <2>4 DEF Effect
<1> QED
  BY <1>1, <1>2

\* What took effect stays so, and so does what was sent.
LEMMA Kept ==
    ASSUME TypeOK, Carried, InOrder, HandledFirst, Next, NEW c \in Calls
    PROVE  /\ done[c] => done'[c]
           /\ c < made => command'[c] = command[c]
<1>1. ASSUME done[c] PROVE done'[c]
  <2>1. CASE Work
    <3>1. c # handler.call
      BY <1>1, <2>1, HandlerAtWork DEF Work
    <3> QED
      BY <1>1, <2>1, <3>1 DEF Work, TypeOK
  <2>2. CASE ~Work
    <3>1. CASE SyncBegins
      BY <1>1, <3>1 DEF SyncBegins, TypeOK
    <3>2. CASE ~SyncBegins
      BY <1>1, <2>2, <3>2
      DEF Next, Electron, Send, TimeOut, ReadLine, Closed, Backend, Take, WriteAnswer,
          NoAnswer, Broadcast, LogLine, EndLine, StartSync, StartFails, SyncEnds,
          NotifyDevMode, BackendEnds, history
    <3> QED
      BY <3>1, <3>2
  <2> QED
    BY <2>1, <2>2
<1>2. ASSUME c < made PROVE command'[c] = command[c]
  <2>1. CASE Backend
    <3>1. Take \/ BackendEnds => command' = command
      BY DEF Take, BackendEnds, electron
    <3> QED
      BY <2>1, <3>1, BackendGoesOn DEF Quieter, HandlerGoesOn
  <2>2. CASE Electron
    <3>1. c # made
      BY <1>2, NoneIsNone DEF TypeOK
    <3>2. \A k \in Commands : Send(k) => command'[c] = command[c]
      BY <3>1 DEF Send, TypeOK
    <3>3. (\E d \in Calls : TimeOut(d)) \/ ReadLine \/ Closed => command' = command
      BY DEF TimeOut, ReadLine, Closed
    <3> QED
      BY <2>2, <3>2, <3>3 DEF Electron
  <2> QED
    BY <2>1, <2>2 DEF Next
<1> QED
  BY <1>1, <1>2

-----------------------------------------------------------------------------
\* Success of a command that claims an effect comes with it.
LEMMA ClaimsAreTrue ==
    ASSUME NEW c \in Claiming, NEW reply \in Replies(c), reply.says = "ok" PROVE reply.does
<1>1. Reply(TRUE, "ok").does /\ Reply(TRUE, "error").does
      /\ Reply(FALSE, "error").says = "error"
  BY DEF Reply
<1>2. \A r \in Reports \union Refused : r.says = "ok" => r.does
  BY <1>1 DEF Reports, Refused
<1>3. \A r \in {Reply(TRUE, "ok")} \union Refused : r.says = "ok" => r.does
  BY <1>1 DEF Refused
<1> QED
  BY <1>2, <1>3
  DEF Claiming, Replies, Login, Logout, FolderChange, FolderSettings, ChangeFiles,
      TransferFile, Permissions, Settings, ChangeServerProfile, RemoteServer, ChangeVPNProfile,
      DevMode, IfSignedIn

\* Signed out, files are not changed.
LEMMA FilesNeedSignIn ==
    ASSUME NEW c \in FileCommands, ~signedIn, NEW reply \in Replies(c) PROVE ~reply.does
<1>1. ~Reply(FALSE, "error").does
  BY DEF Reply
<1>2. Replies(c) = Refused
  BY DEF FileCommands, Replies, ChangeFiles, TransferFile, Permissions, IfSignedIn
<1> QED
  BY <1>1, <1>2 DEF Refused

\* Work with one of the replies of the command.
WorkWith(reply) ==
    /\ reply \in Replies(handler.command)
    /\ done' = [done EXCEPT ![handler.call] = reply.does]
    /\ handler' = [handler EXCEPT !.at = "answer", !.says = reply.says]
    /\ signedIn' \in SignedInAfter(handler.command, reply)

LEMMA WorkReplies ==
    ASSUME Work
    PROVE  /\ \E reply : WorkWith(reply)
           /\ handler.at = "work"
           /\ UNCHANGED <<made, command, outcome, stdin, answered, afterLogout>>
<1>1. \E reply : WorkWith(reply)
  BY Zenon DEF Work, WorkWith
<1>2. handler.at = "work" /\ UNCHANGED electron
      /\ UNCHANGED <<stdin, answered, afterLogout>>
  BY DEF Work
<1> QED
  BY <1>1, <1>2 DEF electron

LEMMA ClaimsDoneStep ==
    ASSUME TypeOK, TypeOK', Numbered, Carried, InOrder, HandledFirst, ClaimsDone, Next
    PROVE  ClaimsDone'
<1> SUFFICES ASSUME NEW c \in Calls, command'[c] \in Claiming,
                    answered'[c] = "ok" \/ SaysOk(c)'
             PROVE  done'[c]
  BY DEF ClaimsDone
<1>a. handler \in Handlers
  BY DEF TypeOK, Handlers
<1>1. CASE done[c]
  BY <1>1, Kept
<1>2. CASE ~done[c]
  <2>1. c < made
    <3>1. CASE answered'[c] = answered[c]
      <4>1. CASE answered[c] = "ok"
        BY <4>1, NoneIsNone DEF HandledFirst, Past, Says
      <4>2. CASE SaysOk(c)'
        <5>1. handler'.at \in {"answer", "write"} /\ handler'.call = c
          BY <4>2 DEF SaysOk
        <5>2. ~Take /\ ~BackendEnds
          BY <5>1 DEF Take, Handle, BackendEnds, Idle
        <5>3. handler.at # "idle" /\ handler.call = c
          BY <5>1, <5>2, BackendGoesOn DEF Next, Electron, Send, TimeOut, ReadLine, Closed,
             backend, Quieter, HandlerGoesOn
        <5> QED
          BY <5>3 DEF Carried, Named
      <4> QED
        BY <3>1, <4>1, <4>2
    <3>2. CASE answered'[c] # answered[c]
      <4>1. c = handler.call /\ EndLine
        <5>1. Effect(c)
          BY <3>2, EffectsInOrder
        <5>2. (Work => answered' = answered) /\ (SyncBegins => answered' = answered)
          BY WorkReplies DEF SyncBegins
        <5> QED
          BY <3>2, <5>1, <5>2 DEF Effect
      <4>2. writing.call # None
        BY <3>2, <4>1 DEF EndLine, TypeOK
      <4> QED
        BY <4>1, <4>2 DEF InOrder, AnswerIsHandlers, Carried, Named
    <3> QED
      BY <3>1, <3>2
  <2>2. command[c] \in Claiming
    BY <2>1, Kept
  <2>3. answered[c] # "ok" /\ ~SaysOk(c)
    BY <1>2, <2>2 DEF ClaimsDone
  <2>4. CASE Work
    <3>1. PICK reply : WorkWith(reply)
      BY <2>4, WorkReplies
    <3>2. answered' = answered
      BY <2>4, WorkReplies
    <3>3. handler.call = c /\ reply.says = "ok"
      BY <1>a, <2>3, <3>1, <3>2 DEF SaysOk, Handlers, WorkWith
    <3>4. handler.command = command[c]
      BY <2>4, <3>3, HandlerAtWork, WorkReplies
    <3>5. reply.does
      BY <2>2, <3>1, <3>3, <3>4, ClaimsAreTrue DEF WorkWith
    <3> QED
      BY <3>1, <3>3, <3>5 DEF TypeOK, WorkWith
  <2>5. CASE EndLine
    <3>1. ~SaysOk(c)'
      BY <1>a, <2>3, <2>5 DEF SaysOk, EndLine, AfterAnswer, Idle, Handlers
    <3>2. c = writing.call /\ writing.call # None /\ writing.says = "ok"
      BY <2>3, <2>5, <3>1 DEF EndLine, TypeOK
    <3>3. SaysOk(c)
      BY <3>2 DEF InOrder, AnswerIsHandlers, SaysOk
    <3> QED
      BY <2>3, <3>3
  <2>6. CASE ~Work /\ ~EndLine
    <3>1. answered'[c] = answered[c]
      BY <2>6, EffectsInOrder DEF Effect, SyncBegins
    <3>2. SaysOk(c)'
      BY <2>3, <3>1
    <3>3. CASE Electron
      BY <2>3, <3>2, <3>3 DEF Electron, Send, TimeOut, ReadLine, Closed, backend, SaysOk
    <3>4. CASE Take \/ BackendEnds \/ NoAnswer \/ StartSync \/ NotifyDevMode
      BY <3>2, <3>4 DEF Take, Handle, BackendEnds, NoAnswer, StartSync, NotifyDevMode, Idle,
                        SaysOk
    <3>5. CASE Broadcast \/ LogLine \/ SyncBegins \/ SyncEnds
      BY <2>3, <3>2, <3>5 DEF Broadcast, LogLine, SyncBegins, SyncEnds, SaysOk
    <3>6. CASE WriteAnswer \/ StartFails
      BY <1>a, <2>3, <3>2, <3>6 DEF WriteAnswer, StartFails, SaysOk, Handlers
    <3> QED
      BY <2>6, <3>3, <3>4, <3>5, <3>6 DEF Next, Backend
  <2> QED
    BY <2>4, <2>5, <2>6
<1> QED
  BY <1>1, <1>2

-----------------------------------------------------------------------------
\* What a trigger_sync does is left to the thread.
LEMMA SyncIsDeferred == ASSUME NEW reply \in Replies("trigger_sync") PROVE ~reply.does
BY DEF Replies, TriggerSync, Refused, Reply

\* The steps that leave the thread and what was done alone.
LEMMA SyncInOrderGoesOn ==
    ASSUME TypeOK, Carried, InOrder, HandledFirst, SyncInOrder, Next,
           UNCHANGED <<asyncSync, done>>,
           \A c \in Calls : id[c] # None => id'[c] = id[c] /\ c < made
    PROVE  SyncInOrder'
<1>1. \A c \in Calls : c < made => command'[c] = command[c]
  BY Kept
<1>2. \A c \in Calls : done[c] => c < made
  BY DEF HandledFirst, Past
<1>3. ASSUME asyncSync.at # "none", handler'.at # "idle" PROVE asyncSync.call # handler'.call
  <2>1. Past(asyncSync.call) /\ asyncSync.call \in Calls
    BY <1>3 DEF SyncInOrder
  <2>2. CASE Take
    BY <2>1, <2>2, PastStays DEF Past, Take, Handle
  <2>3. CASE ~Take
    <3>1. ~BackendEnds
      BY <1>3 DEF BackendEnds, Idle
    <3>2. handler.at # "idle" /\ handler'.call = handler.call
      BY <1>3, <2>3, <3>1, BackendGoesOn
      DEF Next, Electron, Send, TimeOut, ReadLine, Closed, backend, Quieter, HandlerGoesOn
    <3> QED
      BY <1>3, <3>2 DEF SyncInOrder
  <2> QED
    BY <2>2, <2>3
<1>4. ASSUME handler'.at # "idle", handler'.command = "trigger_sync" PROVE ~done[handler'.call]
  <2>1. CASE Take
    <3>1. handler'.call = stdin[1].call /\ 1 \in 1 .. Len(stdin)
      BY <2>1 DEF Take, Handle, TypeOK
    <3>2. PICK c \in Calls : c = stdin[1].call
      BY <3>1 DEF Carried, Named
    <3>3. c \in Nat /\ ~(c < c)
      BY NoneIsNone
    <3>4. ~Past(c)
      BY <3>1, <3>2, <3>3 DEF Past
    <3>5. ~done[c]
      BY <3>4 DEF HandledFirst
    <3> QED
      BY <3>1, <3>2, <3>5
  <2>2. CASE ~Take
    <3>1. ~BackendEnds
      BY <1>4 DEF BackendEnds, Idle
    <3>2. /\ handler.at # "idle" /\ handler'.call = handler.call
          /\ handler'.command = handler.command
      BY <1>4, <2>2, <3>1, BackendGoesOn
      DEF Next, Electron, Send, TimeOut, ReadLine, Closed, backend, Quieter, HandlerGoesOn
    <3> QED
      BY <1>4, <3>2 DEF SyncInOrder
  <2> QED
    BY <2>1, <2>2
<1>5. ASSUME NEW c \in Calls, Past(c) PROVE Past(c)'
  BY <1>5, PastStays
<1>6. asyncSync.at # "none" => Past(asyncSync.call)'
  <2> SUFFICES ASSUME asyncSync.at # "none" PROVE Past(asyncSync.call)'
    OBVIOUS
  <2>1. PICK c \in Calls : c = asyncSync.call /\ Past(c)
    BY DEF SyncInOrder
  <2>2. Past(c)'
    BY <1>5, <2>1
  <2> QED
    BY <2>1, <2>2
<1> QED
  BY <1>1, <1>2, <1>3, <1>4, <1>6 DEF SyncInOrder

LEMMA SyncInOrderStep ==
    ASSUME TypeOK, TypeOK', Numbered, Carried, InOrder, HandledFirst, SyncInOrder, Next
    PROVE  SyncInOrder'
<1>a. handler \in Handlers
  BY DEF TypeOK, Handlers
<1>0. \A c \in Calls : id[c] # None => c < made
  BY NoneIsNone DEF Numbered, TypeOK
<1>1. CASE Work
  <2>1. PICK reply : WorkWith(reply)
    BY <1>1, WorkReplies
  <2>2. handler.at = "work" /\ handler.call \in Calls /\ handler.command = command[handler.call]
    BY <1>1, WorkReplies, HandlerAtWork
  <2>3. /\ handler'.at = "answer" /\ handler'.call = handler.call
        /\ handler'.command = handler.command
    BY <1>a, <2>1 DEF WorkWith, Handlers
  <2>4. UNCHANGED <<made, command, id, stdin, asyncSync>>
    BY <1>1 DEF Work, electron
  <2>5. \A c \in Calls : command[c] = "trigger_sync" => (done'[c] => done[c])
    <3>1. handler.command = "trigger_sync" => ~reply.does
      BY <2>1, SyncIsDeferred DEF WorkWith
    <3> QED
      BY <2>1, <2>2, <3>1 DEF WorkWith, TypeOK
  <2>6. asyncSync.at # "none" =>
            /\ asyncSync'.call \in Calls /\ Past(asyncSync.call)'
            /\ command'[asyncSync'.call] = "trigger_sync" /\ id'[asyncSync'.call] # None
    <3> SUFFICES ASSUME asyncSync.at # "none" PROVE Past(asyncSync.call)'
      BY <2>4 DEF SyncInOrder
    <3>1. PICK c \in Calls : c = asyncSync.call /\ Past(c)
      BY DEF SyncInOrder
    <3>2. Past(c)'
      BY <3>1, PastStays
    <3> QED
      BY <2>4, <3>1, <3>2
  <2> QED
    BY <2>2, <2>3, <2>4, <2>5, <2>6 DEF SyncInOrder
<1>2. CASE StartSync
  <2>1. /\ asyncSync' = [at |-> "created", call |-> handler.call] /\ handler.at = "start"
        /\ handler'.at = "idle" /\ UNCHANGED <<made, command, id, stdin, done>>
    BY <1>2 DEF StartSync, electron, history, Idle
  <2>2. handler.command = "trigger_sync" /\ handler.call \in Calls /\ Past(handler.call)
        /\ handler.command = command[handler.call] /\ id[handler.call] # None
    BY <2>1, PastHandler DEF InOrder, StartIsSync, HandlerInOrder, Carried, Named
  <2>3. ~done[handler.call] /\ \A c \in Calls : done[c] => c <= handler.call
    BY <2>1, <2>2 DEF SyncInOrder, HandledFirst, Past
  <2>4. PICK c \in Calls : c = handler.call /\ Past(c)
    BY <2>2
  <2>5. Past(c)'
    BY <2>4, PastStays
  <2> QED
    BY <2>1, <2>2, <2>3, <2>4, <2>5 DEF SyncInOrder
<1>3. CASE SyncBegins
  <2>1. /\ asyncSync.at = "created" /\ asyncSync'.at = "syncing"
        /\ asyncSync'.call = asyncSync.call
        /\ done' = [done EXCEPT ![asyncSync.call] = TRUE]
        /\ UNCHANGED <<made, command, id, stdin, handler>>
    BY <1>3 DEF SyncBegins, electron, TypeOK
  <2>2. Past(asyncSync.call)' /\ asyncSync.call \in Calls /\ asyncSync.call \in Nat
    BY <2>1, PastStays, NoneIsNone DEF SyncInOrder
  <2>3. handler.at # "idle" => asyncSync.call # handler.call
    BY <2>1 DEF SyncInOrder
  <2>4. \A c \in Calls : command[c] = "trigger_sync" /\ done'[c] => c <= asyncSync.call
    BY <2>1, <2>2 DEF SyncInOrder, TypeOK
  <2>5. handler.at # "idle" /\ handler.command = "trigger_sync" => ~done'[handler.call]
    BY <2>1, <2>3 DEF SyncInOrder, TypeOK, Carried, Named
  <2> QED
    BY <2>1, <2>2, <2>3, <2>4, <2>5 DEF SyncInOrder
<1>4. CASE SyncEnds \/ BackendEnds
  <2>1. asyncSync'.at = "none" /\ done' = done
        /\ (handler' = handler \/ handler'.at = "idle")
    BY <1>4 DEF SyncEnds, BackendEnds, NoSync, Idle, history
  <2> QED
    BY <2>1 DEF SyncInOrder
<1>5. CASE ~Work /\ ~StartSync /\ ~SyncBegins /\ ~SyncEnds /\ ~BackendEnds
  <2>1. UNCHANGED <<asyncSync, done>>
    BY <1>5 DEF Next, Electron, Send, TimeOut, ReadLine, Closed, backend, Backend, Take,
       WriteAnswer, NoAnswer, Broadcast, LogLine, EndLine, StartFails, NotifyDevMode, history
  <2>2. ASSUME NEW c \in Calls, id[c] # None PROVE id'[c] = id[c]
    <3>1. c < made
      BY <1>0, <2>2
    <3>2. \A k \in Commands : Send(k) => id'[c] = id[c]
      BY <3>1, NoneIsNone DEF Send, TypeOK
    <3> QED
      BY <1>5, <3>2 DEF Next, Electron, TimeOut, ReadLine, Closed, Backend, Take,
         WriteAnswer, NoAnswer, Broadcast, LogLine, EndLine, StartFails, NotifyDevMode, electron
  <2> QED
    BY <1>0, <2>1, <2>2, SyncInOrderGoesOn
<1> QED
  BY <1>1, <1>2, <1>3, <1>4, <1>5

-----------------------------------------------------------------------------
\* Whether someone is signed in changes in Work only.
LEMMA SignedInStays ==
    ASSUME Next, ~Work PROVE signedIn' = signedIn
BY DEF Next, Electron, Send, TimeOut, ReadLine, Closed, backend, Backend, Take, WriteAnswer,
       NoAnswer, Broadcast, LogLine, EndLine, StartSync, StartFails, SyncBegins, SyncEnds,
       NotifyDevMode, BackendEnds

LEMMA SignedOutSinceStep ==
    ASSUME TypeOK, TypeOK', Numbered, Carried, InOrder, InOrder', HandledFirst, HandledFirst',
           SyncInOrder, SignedOutSince, Next
    PROVE  SignedOutSince'
<1> SUFFICES ASSUME NEW c \in Calls, command'[c] = "logout", done'[c]
             PROVE  \/ ~signedIn'
                    \/ \E p \in Calls : p > c /\ command'[p] = "login" /\ Past(p)'
  BY DEF SignedOutSince
<1>1. ASSUME command[c] = "logout", done[c],
             NEW p \in Calls, p > c, command[p] = "login", Past(p)
      PROVE  p > c /\ command'[p] = "login" /\ Past(p)'
  BY <1>1, PastStays, Kept DEF Past
<1>2. CASE Work
  <2>1. PICK reply : WorkWith(reply)
    BY <1>2, WorkReplies
  <2>2. PICK h \in Calls : h = handler.call /\ handler.command = command[h]
    BY <1>2, HandlerAtWork, WorkReplies
  <2>3. handler.at = "work" /\ UNCHANGED <<made, command, stdin>>
    BY <1>2, WorkReplies
  <2>4. CASE c = h
    <3>1. reply.does /\ handler.command = "logout"
      BY <2>1, <2>2, <2>3, <2>4 DEF TypeOK, WorkWith
    <3> QED
      BY <2>1, <3>1 DEF SignedInAfter, WorkWith
  <2>5. CASE c # h
    <3>1. command[c] = "logout" /\ done[c]
      BY <2>1, <2>2, <2>3, <2>5 DEF TypeOK, WorkWith
    <3>2. c <= h
      BY <2>2, <2>3, <3>1 DEF HandledFirst, Past
    <3>3. c < h
      BY <2>5, <3>2, NoneIsNone
    <3>4. CASE handler.command = "login"
      <4>1. Past(h)'
        <5>1. handler'.at = "answer" /\ handler'.call = h
          BY <2>1, <2>2 DEF WorkWith, TypeOK
        <5>2. h < made /\ h \in Nat /\ \A i \in 1 .. Len(stdin) : h < stdin[i].call
          BY <2>2, <2>3, NoneIsNone DEF Carried, Named, InOrder, HandlerInOrder
        <5> QED
          BY <2>3, <5>1, <5>2 DEF Past
      <4> QED
        BY <2>2, <2>3, <3>3, <3>4, <4>1
    <3>5. CASE handler.command # "login"
      <4>1. signedIn' \in {FALSE, signedIn}
        BY <2>1, <3>5 DEF SignedInAfter, WorkWith
      <4> QED
        BY <1>1, <3>1, <4>1 DEF SignedOutSince
    <3> QED
      BY <3>4, <3>5
  <2> QED
    BY <2>4, <2>5
<1>3. CASE ~Work
  <2>1. done[c]
    <3>1. CASE done'[c] # done[c]
      <4>1. c = asyncSync.call /\ SyncBegins
        BY <1>3, <3>1, EffectsInOrder DEF Effect, EndLine
      <4>2. command[c] = "trigger_sync"
        BY <4>1 DEF SyncBegins, SyncInOrder
      <4>3. command'[c] = command[c]
        BY <4>1 DEF SyncBegins, electron
      <4> QED
        BY <4>2, <4>3
    <3> QED
      BY <3>1
  <2>2. command[c] = "logout"
    BY <2>1, Kept DEF HandledFirst, Past
  <2>3. signedIn' = signedIn
    BY <1>3, SignedInStays
  <2> QED
    BY <1>1, <2>1, <2>2, <2>3 DEF SignedOutSince
<1> QED
  BY <1>2, <1>3

\* Calls are marked when they are made.
LEMMA SendMarks ==
    ASSUME Next, afterLogout' # afterLogout PROVE \E k \in Commands : Send(k)
<1>1. ~Work /\ ~SyncBegins /\ ~EndLine
  BY WorkReplies DEF SyncBegins, EndLine
<1> QED
  BY <1>1 DEF Next, Electron, TimeOut, ReadLine, Closed, Backend, Take, WriteAnswer, NoAnswer,
              Broadcast, LogLine, StartSync, StartFails, SyncEnds, NotifyDevMode, BackendEnds,
              history

LEMMA RefusalStep ==
    ASSUME TypeOK, TypeOK', Numbered, OwnAnswer, Carried, InOrder, InOrder', HandledFirst,
           HandledFirst', SyncInOrder, ClaimsDone, SignedOutSince, Refusal, Next
    PROVE  Refusal'
<1> SUFFICES ASSUME NEW c \in afterLogout'
             PROVE  /\ c < made' /\ LogoutBefore(c)'
                    /\ command'[c] \in FileCommands => ~done'[c]
  BY DEF Refusal
<1>0. c \in Calls /\ c \in Nat
  BY NoneIsNone DEF TypeOK
<1>1. CASE c \in afterLogout
  <2>1. c < made
    BY <1>1 DEF Refusal
  <2>2. made \in Nat /\ made' \in Nat /\ made <= made'
    <3>1. made' = made \/ made' = made + 1
      <4>1. \A k \in Commands : Send(k) => made' = made + 1
        BY DEF Send
      <4>2. CASE Electron
        BY <4>1, <4>2, ElectronGoesOn DEF HandlerGoesOn
      <4>3. Take \/ BackendEnds => made' = made
        BY DEF Take, BackendEnds, electron
      <4>4. CASE Backend
        BY <4>3, <4>4, BackendGoesOn DEF Quieter, HandlerGoesOn
      <4> QED
        BY <4>2, <4>4 DEF Next
    <3>2. made \in Nat
      BY NoneIsNone, IpcAssumption DEF TypeOK
    <3> QED
      BY <3>1, <3>2
  <2>3. PICK out \in Calls :
          /\ out < c /\ command[out] = "logout" /\ done[out]
          /\ \A p \in Calls : out < p /\ p <= c => command[p] # "login"
    BY <1>1 DEF Refusal, LogoutBefore
  <2>4. ASSUME NEW p \in Calls, p <= c PROVE command'[p] = command[p]
    <3>1. p \in Nat
      BY NoneIsNone
    <3>2. p < made
      BY <1>0, <2>1, <2>2, <2>4, <3>1
    <3> QED
      BY <3>2, Kept
  <2>5. done'[out] /\ command'[out] = "logout"
    BY <1>0, <2>3, <2>4, Kept, NoneIsNone
  <2>6. LogoutBefore(c)'
    BY <2>3, <2>4, <2>5 DEF LogoutBefore
  <2>7. ASSUME command'[c] \in FileCommands PROVE ~done'[c]
    <3>1. command[c] \in FileCommands /\ ~done[c]
      BY <1>0, <1>1, <2>4, <2>7 DEF Refusal
    <3>2. SUFFICES ASSUME done'[c] PROVE FALSE
      OBVIOUS
    <3>3. Effect(c)
      BY <1>0, <3>1, <3>2, EffectsInOrder
    <3>4. CASE c = handler.call /\ Work
      <4>1. PICK reply : WorkWith(reply)
        BY <3>4, WorkReplies
      <4>2. reply.does /\ handler.command = command[c] /\ handler.at = "work"
        <5>1. done' = [done EXCEPT ![c] = reply.does]
          BY Zenon, <3>4, <4>1 DEF WorkWith
        <5>2. reply.does
          BY <1>0, <3>2, <5>1 DEF TypeOK
        <5> QED
          BY <3>4, <5>2, HandlerAtWork, WorkReplies
      <4>3. signedIn
        BY <3>1, <4>1, <4>2, FilesNeedSignIn DEF WorkWith
      <4>4. PICK p \in Calls : p > out /\ command[p] = "login" /\ Past(p)
        BY <2>3, <4>3 DEF SignedOutSince
      <4>5. p <= c
        BY <3>4, <4>2, <4>4 DEF Past
      <4> QED
        BY <2>3, <4>4, <4>5, NoneIsNone
    <3>5. CASE c = asyncSync.call /\ SyncBegins
      BY <3>1, <3>5 DEF SyncBegins, SyncInOrder, FileCommands
    <3>6. CASE EndLine
      BY <3>1, <3>2, <3>6 DEF EndLine
    <3> QED
      BY <3>3, <3>4, <3>5, <3>6 DEF Effect
  <2> QED
    BY <1>0, <2>1, <2>2, <2>6, <2>7
<1>2. CASE c \notin afterLogout
  <2>1. PICK k \in Commands : Send(k)
    BY <1>2, SendMarks
  <2>2. c = made /\ AfterLogout(k) /\ made' = made + 1 /\ UNCHANGED <<done, answered>>
    BY <1>2, <2>1 DEF Send
  <2>3. PICK out \in Calls :
          /\ command[out] = "logout" /\ outcome[out] = "ok"
          /\ k # "login" /\ \A p \in Calls : p > out => command[p] # "login"
    BY <2>2 DEF AfterLogout
  <2>4. done[out]
    BY <2>3 DEF OwnAnswer, ClaimsDone, Says, Claiming
  <2>5. out < c /\ out \in Nat
    BY <2>2, <2>4, NoneIsNone DEF HandledFirst, Past
  <2>6. command' = [command EXCEPT ![c] = k]
    BY <2>1, <2>2 DEF Send
  <2>7. ~done[c]
    BY <1>0, <2>2 DEF HandledFirst, Past
  <2>8. \A p \in Calls : out < p => command'[p] # "login"
    BY <2>3, <2>5, <2>6, NoneIsNone DEF TypeOK
  <2>9. command'[out] = "logout" /\ done'[out] /\ ~done'[c]
    BY <2>2, <2>3, <2>4, <2>5, <2>6, <2>7 DEF TypeOK
  <2> QED
    BY <1>0, <2>2, <2>5, <2>8, <2>9 DEF LogoutBefore
<1> QED
  BY <1>1, <1>2

LEMMA HandledStep == IInv /\ IInv' /\ HandledInv /\ [Next]_vars => HandledInv'
<1> SUFFICES ASSUME IInv, IInv', HandledInv, [Next]_vars PROVE HandledInv'
  OBVIOUS
<1>1. CASE UNCHANGED vars
  BY <1>1 DEF vars, electron, backend, history, HandledInv, InOrder, StdinInOrder,
     HandlerInOrder, StartIsSync, AnswerIsHandlers, Made, HandledFirst, Past, ClaimsDone,
     SaysOk, SyncInOrder, SignedOutSince, Refusal, LogoutBefore
<1>2. CASE Next
  <2>1. TypeOK /\ TypeOK' /\ Numbered /\ Carried /\ Carried' /\ OwnAnswer
    BY DEF IInv
  <2>2. InOrder /\ HandledFirst /\ SyncInOrder /\ ClaimsDone /\ SignedOutSince /\ Refusal
    BY DEF HandledInv
  <2>3. InOrder'
    BY <1>2, <2>1, <2>2, InOrderStep
  <2>4. HandledFirst'
    BY <1>2, <2>1, <2>2, <2>3, HandledFirstStep
  <2>5. ClaimsDone' /\ SignedOutSince' /\ Refusal'
    BY <1>2, <2>1, <2>2, <2>3, <2>4, ClaimsDoneStep, SignedOutSinceStep, RefusalStep
  <2>6. SyncInOrder'
    BY <1>2, <2>1, <2>2, SyncInOrderStep DEF IInv
  <2> QED
    BY <2>3, <2>4, <2>5, <2>6 DEF HandledInv
<1> QED
  BY <1>1, <1>2

\* Whatever is sent, times out or is answered late: commands are handled in the order in
\* which they were made, and an answer tells what was done.
THEOREM HandledInvariant == Spec => []HandledInv
<1>1. Init => HandledInv
  BY InitHandled
<1>2. IInv /\ IInv' /\ HandledInv /\ [Next]_vars => HandledInv'
  BY HandledStep
<1> QED
  BY <1>1, <1>2, BridgeInvariant, PTL DEF Spec

\* After a sign-out was answered, no command that is sent later changes a file of the
\* server, until there is a new sign-in.
THEOREM SignOutIsHeeded == Spec => []SignedOutIsRefused
<1>1. HandledInv => SignedOutIsRefused
  BY DEF HandledInv, Refusal, SignedOutIsRefused
<1> QED
  BY <1>1, HandledInvariant, PTL

-----------------------------------------------------------------------------
(* The bridge implements RequestService.                                     *)

Claims == {c \in Calls : command[c] \in Claiming}
Deferred == {c \in Calls : command[c] = "trigger_sync"}

LEMMA InitRefines == Init => Service!Init
BY NoneIsNone, IpcAssumption DEF Init, Service!Init, Claiming, AllCommands

\* A command takes effect while it is under way: its promise may have timed out, but no
\* later one has been answered.
LEMMA EffectRefines ==
    ASSUME IInv, HandledInv, handler.at # "idle", ~done[handler.call],
           handler.command # "trigger_sync",
           done' = [done EXCEPT ![handler.call] = TRUE], UNCHANGED <<outcome, command>>
    PROVE  Service!Next
<1>1. PICK c \in Calls : c = handler.call /\ id[c] # None
  BY DEF IInv, Carried, Named, HandledInv, InOrder, HandlerInOrder
<1>2. outcome[c] \in {"waiting", "ok", "error", "timeout"}
  BY <1>1 DEF IInv, TypeOK, Outcomes, Says, HandledInv, InOrder, Made
<1>3. ASSUME NEW later \in Calls, later > c PROVE ~Service!Answered(later)
  <2>1. SUFFICES ASSUME outcome[later] \in Says PROVE FALSE
    BY DEF Service!Answered, Says
  <2>2. answered[later] # None
    BY <2>1, NoneIsNone DEF IInv, OwnAnswer
  <2>3. later <= c
    BY <1>1, <2>2 DEF HandledInv, HandledFirst, Past
  <2> QED
    BY <1>3, <2>3, NoneIsNone
<1>4. c \notin Deferred
  BY <1>1 DEF Deferred, HandledInv, InOrder, HandlerInOrder
<1>5. Service!InTime(c)
  BY <1>3, <1>4 DEF Service!InTime, Deferred
<1>6. Service!TakeEffect(c)
  BY <1>1, <1>2, <1>5 DEF Service!TakeEffect
<1> QED
  BY <1>6 DEF Service!Next

\* The run of a trigger_sync begins, whatever was answered meanwhile, and before that of
\* any later one.
LEMMA SyncRefines ==
    ASSUME IInv, HandledInv, SyncBegins
    PROVE  Service!Next
<1>1. PICK c \in Calls : c = asyncSync.call /\ id[c] # None /\ asyncSync.at = "created"
  BY DEF HandledInv, SyncInOrder, SyncBegins
<1>2. ~done[c] /\ outcome[c] \in {"waiting", "ok", "error", "timeout"}
  BY <1>1 DEF IInv, TypeOK, Outcomes, Says, HandledInv, InOrder, Made, SyncInOrder
<1>3. c \in Deferred /\ c \in Nat
  BY <1>1, NoneIsNone DEF Deferred, HandledInv, SyncInOrder
<1>4. ASSUME NEW later \in Calls, later > c, later \in Deferred PROVE ~done[later]
  <2>1. later \in Nat
    BY NoneIsNone
  <2> QED
    BY <1>1, <1>3, <1>4, <2>1 DEF Deferred, HandledInv, SyncInOrder
<1>5. Service!InTime(c)
  BY <1>3, <1>4 DEF Service!InTime, Deferred
<1>6. done' = [done EXCEPT ![c] = TRUE] /\ UNCHANGED <<outcome, command>>
  BY <1>1 DEF SyncBegins, electron
<1>7. Service!TakeEffect(c)
  BY <1>2, <1>5, <1>6 DEF Service!TakeEffect
<1> QED
  BY <1>7 DEF Service!Next

LEMMA StepRefines ==
    IInv /\ IInv' /\ HandledInv /\ [Next]_vars => [Service!Next]_(Service!vars)
<1> SUFFICES ASSUME IInv, IInv', HandledInv, [Next]_vars
             PROVE  [Service!Next]_(Service!vars)
  OBVIOUS
<1>a. TypeOK
  BY DEF IInv
<1> DEFINE Stutter == UNCHANGED <<outcome, done, command>>
<1>b. Stutter => UNCHANGED Service!vars
  BY DEF Service!vars
<1>1. CASE UNCHANGED vars
  BY <1>1, <1>b DEF vars, electron, history
<1>2. ASSUME NEW k \in Commands, Send(k) PROVE Service!Next
  <2>1. PICK c \in Calls : c = made
    BY <1>2, <1>a, IpcAssumption DEF Send, TypeOK, Calls
  <2>2. outcome[c] = "new"
    BY <1>a, <2>1, NoneIsNone DEF IInv, Numbered
  <2>3. \E o \in {"waiting", "refused"} : outcome' = [outcome EXCEPT ![c] = o]
    BY <1>2, <2>1 DEF Send
  <2>4. /\ \/ Claims' \in {Claims, Claims \union {c}} /\ Deferred' = Deferred
           \/ Deferred' = Deferred \union {c} /\ Claims' = Claims
        /\ done' = done
    <3>1. command' = [command EXCEPT ![c] = k] /\ done' = done
      BY <1>2, <2>1 DEF Send
    <3>2. command[c] \notin Claiming /\ command[c] # "trigger_sync"
      BY <1>a, <2>1, NoneIsNone, IpcAssumption
      DEF HandledInv, InOrder, Made, Claiming, AllCommands, TypeOK
    <3>3. CASE k = "trigger_sync"
      <4>1. k \notin Claiming
        BY <3>3 DEF Claiming
      <4> QED
        BY <1>a, <2>1, <3>1, <3>2, <3>3, <4>1 DEF Claims, Deferred, TypeOK
    <3>4. CASE k # "trigger_sync"
      BY <1>a, <2>1, <3>1, <3>2, <3>4 DEF Claims, Deferred, TypeOK
    <3> QED
      BY <3>1, <3>3, <3>4
  <2>5. Service!Make(c)
    BY <2>2, <2>3, <2>4 DEF Service!Make, Claims, Deferred
  <2> QED
    BY <2>5 DEF Service!Next
<1>3. ASSUME NEW c \in Calls, TimeOut(c) PROVE Service!Next
  <2>1. Service!TimeOut(c)
    BY <1>3 DEF TimeOut, history, Service!TimeOut
  <2> QED
    BY <2>1 DEF Service!Next
<1>4. CASE ReadLine
  <2> DEFINE line == Head(stdout)
             to == IF line.whole /\ line.id # None THEN pending[line.id] ELSE None
  <2>1. UNCHANGED <<done, command, answered>>
    BY <1>4 DEF ReadLine
  <2>2. CASE to = None
    BY <1>4, <1>b, <2>1, <2>2 DEF ReadLine
  <2>3. CASE to # None
    <3>1. outcome' = [outcome EXCEPT ![to] = line.says]
      BY <1>4, <2>3 DEF ReadLine
    <3>2. line = stdout[1] /\ 1 \in 1 .. Len(stdout) /\ line \in Lines
      BY <1>4, <1>a DEF ReadLine, TypeOK
    <3>3. line.says \in Says /\ line.id \in Ids \union {None}
      BY <3>2 DEF IInv, Carried, Lines
    <3>4. to \in Calls /\ outcome[to] = "waiting"
      BY <1>a, <2>3, <3>3 DEF TypeOK, IInv, Tracked
    <3> HIDE DEF line, to
    <3>5. PICK c \in Calls : c = to /\ outcome[c] = "waiting"
      BY <3>4
    <3>6. outcome' = [outcome EXCEPT ![c] = line.says] /\ outcome'[c] = line.says
      BY <1>a, <3>1, <3>5 DEF TypeOK
    <3>7. answered[c] = line.says
      BY <2>1, <3>3, <3>6 DEF IInv, OwnAnswer
    <3>8. line.says = "ok" => (command[c] \in Claiming => done[c])
      BY <3>7 DEF HandledInv, ClaimsDone
    <3>9. Service!Answer(c)
      BY <2>1, <3>3, <3>5, <3>6, <3>8 DEF Service!Answer, Says
    <3> QED
      BY <3>9 DEF Service!Next
  <2> QED
    BY <2>2, <2>3
<1>5. CASE Closed
  BY <1>5, <1>b DEF Closed, history
<1>6. CASE Work
  <2>1. PICK reply : WorkWith(reply)
    BY <1>6, WorkReplies
  <2>2. reply.does \in BOOLEAN
    BY <2>1, RepliesAreReplies DEF WorkWith, ReplySet
  <2>3. UNCHANGED <<outcome, command>> /\ handler.at = "work"
    BY <1>6, WorkReplies
  <2>4. ~done[handler.call] /\ done' = [done EXCEPT ![handler.call] = reply.does]
    <3>1. ~done[handler.call]
      BY <2>3, HandlerAtWork DEF IInv, HandledInv
    <3>2. done' = [done EXCEPT ![handler.call] = reply.does]
      BY Zenon, <2>1 DEF WorkWith
    <3> QED
      BY <3>1, <3>2
  <2>5. CASE reply.does = TRUE
    <3>1. done' = [done EXCEPT ![handler.call] = TRUE]
      BY <2>4, <2>5
    <3>2. handler.command # "trigger_sync"
      BY <2>1, <2>5, SyncIsDeferred DEF WorkWith
    <3> QED
      BY <2>3, <2>4, <3>1, <3>2, EffectRefines
  <2>6. CASE reply.does = FALSE
    <3>1. done' = done
      BY <1>a, <2>4, <2>6 DEF TypeOK
    <3> QED
      BY <1>b, <2>3, <3>1
  <2> QED
    BY <2>2, <2>5, <2>6
<1>7. CASE SyncBegins
  BY <1>7, SyncRefines
<1>8. CASE Take \/ WriteAnswer \/ NoAnswer \/ Broadcast \/ LogLine \/ StartSync \/ StartFails
           \/ SyncEnds \/ NotifyDevMode \/ BackendEnds
  BY <1>8, <1>b DEF Take, WriteAnswer, NoAnswer, Broadcast, LogLine, StartSync, StartFails,
                    SyncEnds, NotifyDevMode, BackendEnds, electron, history
<1>9. CASE EndLine
  BY <1>9, <1>b DEF EndLine, electron
<1> QED
  BY <1>1, <1>2, <1>3, <1>4, <1>5, <1>6, <1>7, <1>8, <1>9 DEF Next, Electron, Backend

\* The bridge keeps what RequestService promises: success means done, nothing that was sent
\* earlier takes effect once a later command is answered, except the run of a trigger_sync,
\* and those begin in the order in which they were asked for; answers are final.
THEOREM BridgeImplementsRequests == Spec => ImplementsRequests
<1>1. Init => Service!Init
  BY InitRefines
<1>2. IInv /\ IInv' /\ HandledInv /\ [Next]_vars => [Service!Next]_(Service!vars)
  BY StepRefines
<1> QED
  BY <1>1, <1>2, BridgeInvariant, HandledInvariant, PTL
  DEF Spec, ImplementsRequests, Service!Spec
=============================================================================
