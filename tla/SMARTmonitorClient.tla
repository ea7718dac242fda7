------------------------- MODULE SMARTmonitorClient --------------------------
(***************************************************************************)
(* The client side of the connection to the service (src/src/client and    *)
(* the wxWidgets user interface of src/src/wxWidgets), debug build.        *)
(*                                                                         *)
(* The user interface (UI) thread runs an event loop. It dials (each       *)
(* attempt in a connect thread of its own), and when a connect thread      *)
(* reports success it greets the server itself: GetSMARTvaluesAndUpdateUI  *)
(* reads the supported IDs and the first values in the UI thread and then  *)
(* starts an update thread that reads the following values. The update     *)
(* thread reports to the UI thread with posted events. All of them use the *)
(* one member m_socketFileDesc, which is never locked; the member          *)
(* GetSMARTvalsAndUpd8UIthreadID is meant to keep a second reader away.    *)
(***************************************************************************)
EXTENDS Naturals, Sequences

CONSTANTS
  MaxFd,       \* descriptors the client can have open
  Threads,     \* update threads that can exist at the same time
  PostedFirst  \* the event loop of wxWidgets handles posted events before it
               \* looks at user input and timers (so under MS Windows; under
               \* GTK posted events wait until the loop is idle)

ASSUME ClientAssumption ==
  /\ MaxFd \in Nat \ {0}
  /\ Threads # {} /\ "ui" \notin Threads
  /\ PostedFirst \in BOOLEAN

Fds == 1..MaxFd
None == 0                \* no descriptor
Orphan == MaxFd + 1      \* a connection whose descriptor is closed while a
                         \* read() of it goes on
LostOrphan == MaxFd + 2  \* such a connection, lost
Readers == Threads \cup {"ui"}
(* The thread m_updateSMARTparameterValuesThread stands for; when another  *)
(* is started, it takes this name and the one that still runs gets a new   *)
(* one.                                                                    *)
cur == CHOOSE t \in Threads : TRUE

VARIABLES
  sUpdate,  \* s_updateSMARTvalues
  thrID,    \* GetSMARTvalsAndUpd8UIthreadID # 0
  state,    \* m_srvrCnnctnState
  dialog,   \* the "connect to server" dialog is shown
  dlgFd,    \* its m_connectToServerSocketFileDescriptor
  timer,    \* m_cnnctnAttmptTimer; "stopped" is off too: by the user, or as the
            \* attempt it was for failed before a thread was started
  sock,     \* m_socketFileDesc
  conn,     \* what each descriptor is: see ConnStates
  inbuf,    \* a whole message waits to be read from the descriptor
  dialing,  \* a connect thread waits for the connection of this descriptor
  closing,  \* a failed connect thread will close this descriptor once more
  events,   \* events posted to the UI thread
  ui,       \* where the UI thread is
  upd,      \* where each update thread is
  rd        \* what each thread that is in read() reads from

vars == <<sUpdate, thrID, state, dialog, dlgFd, timer, sock, conn, inbuf, dialing,
          closing, events, ui, upd, rd>>
dlg == <<dialog, dlgFd, timer>>

(* "lost": the server is gone and a read does not return. A comment of     *)
(* ReadNumFollowingBytes reports it of a server PC that was shut down and  *)
(* of a service process killed with SIGKILL.                               *)
ConnStates == {"free", "syn", "up", "eof", "lost"}
States == {"uncnnctdToSrv", "cnnctdToSrv", "valUpd8"}
Events == {"connected", "valUpd8", "uncnnctdToSrv", "attempt"}
UpdPcs == {"none", "get", "read", "wait", "failed", "after"}

(* Every variable stays in its range; in particular the members that hold  *)
(* a descriptor (m_socketFileDesc, the dialog's copy) hold one of the      *)
(* process or none.                                                        *)
TypeOK ==
  /\ sUpdate \in BOOLEAN /\ thrID \in BOOLEAN
  /\ state \in States
  /\ dialog \in BOOLEAN /\ timer \in {"off", "on", "stopped"}
  /\ dlgFd \in Fds \cup {None} /\ sock \in Fds \cup {None}
  /\ conn \in [Fds -> ConnStates]
  /\ inbuf \in [Fds -> BOOLEAN]
  /\ dialing \in [Fds -> BOOLEAN] /\ closing \in [Fds -> BOOLEAN]
  /\ events \in Seq(Events)
  /\ ui \in {"loop", "supp", "vals", "join"}
  /\ upd \in [Threads -> UpdPcs]
  /\ rd \in [Readers -> Fds \cup {None, Orphan, LostOrphan}]

Init ==
  /\ sUpdate = TRUE /\ thrID = FALSE
  /\ state = "uncnnctdToSrv"
  /\ dialog = FALSE /\ dlgFd = None /\ timer = "off"
  /\ sock = None
  /\ conn = [f \in Fds |-> "free"]
  /\ inbuf = [f \in Fds |-> FALSE]
  /\ dialing = [f \in Fds |-> FALSE]
  /\ closing = [f \in Fds |-> FALSE]
  /\ events = <<>>
  /\ ui = "loop"
  /\ upd = [t \in Threads |-> "none"]
  /\ rd = [x \in Readers |-> None]

-----------------------------------------------------------------------------
(* wxPostEvent. Posting the same event twice in a row is the same as       *)
(* posting it once, save for "connected".                                  *)
Post(q, e) ==
  IF e # "connected" /\ q # <<>> /\ q[Len(q)] = e THEN q ELSE Append(q, e)

(* A read() of another thread goes on when its descriptor is closed, on    *)
(* the connection that no number stands for any more, ...                  *)
Abandoned(f) ==
  IF conn[f] = "up" \/ inbuf[f] THEN Orphan
  ELSE IF conn[f] = "lost" THEN LostOrphan ELSE None
(* ... unless the thread had not entered it yet. r: the reads before.      *)
Abandon(f, r) ==
  \E S \in SUBSET {x \in Readers : f # None /\ r[x] = f} :
    rd' = [x \in Readers |-> IF x \in S THEN Abandoned(f) ELSE r[x]]

(* close(): the number is free again, whoever it belonged to.              *)
CloseAfter(f, r) ==
  /\ conn' = [g \in Fds |-> IF g = f THEN "free" ELSE conn[g]]
  /\ inbuf' = [g \in Fds |-> IF g = f THEN FALSE ELSE inbuf[g]]
  /\ Abandon(f, r)
Close(f) == CloseAfter(f, rd)

IsRunning == upd[cur] # "none"

(* readFromSocket2 on a blocking socket: a whole message, ...              *)
ReadSucceeds(x) == rd[x] = Orphan \/ (rd[x] \in Fds /\ inbuf[rd[x]])
Taken(x) == inbuf' = [f \in Fds |-> inbuf[f] /\ f # rd[x]]
(* ... or the end of the stream, EBADF or ENOTCONN. Else it blocks.        *)
ReadFails(x) ==
  \/ rd[x] \in {None, Orphan}
  \/ /\ rd[x] \in Fds
     /\ \/ conn[rd[x]] \in {"free", "syn"}
        \/ conn[rd[x]] = "eof" /\ ~ inbuf[rd[x]]

-----------------------------------------------------------------------------
(* The network and the server.                                             *)

ServerSends(f) ==
  /\ conn[f] = "up" /\ ~ inbuf[f]
  /\ inbuf' = [inbuf EXCEPT ![f] = TRUE]
  /\ UNCHANGED <<sUpdate, thrID, state, dlg, sock, conn, dialing, closing, events, ui, upd, rd>>

ServerCloses(f) ==
  /\ conn[f] = "up"
  /\ conn' = [conn EXCEPT ![f] = "eof"]
  /\ UNCHANGED <<sUpdate, thrID, state, dlg, sock, inbuf, dialing, closing, events, ui, upd, rd>>

(* The server's PC is shut down or its process killed, and the client does *)
(* not get to know.                                                        *)
ServerLost(f) ==
  /\ conn[f] = "up"
  /\ conn' = [conn EXCEPT ![f] = "lost"]
  /\ UNCHANGED <<sUpdate, thrID, state, dlg, sock, inbuf, dialing, closing, events, ui, upd, rd>>

ServerOfOrphanLost(x) ==
  /\ rd[x] = Orphan
  /\ rd' = [rd EXCEPT ![x] = LostOrphan]
  /\ UNCHANGED <<sUpdate, thrID, state, dlg, sock, conn, inbuf, dialing, closing, events, ui, upd>>

-----------------------------------------------------------------------------
(* Dialing. ConnectToServer stores the new descriptor in m_socketFileDesc  *)
(* at once, without waiting for a thread that still uses the old one.      *)

LowestFree(f) == conn[f] = "free" /\ \A g \in Fds : conn[g] = "free" => f <= g

Dial(f) ==
  /\ sock' = f
  /\ conn' = [conn EXCEPT ![f] = "syn"]
  /\ dialing' = [dialing EXCEPT ![f] = TRUE]

(* prepCnnctToSrv fails when the host name is not found (at any attempt:   *)
(* the name service may be away as the server is) or no descriptor is left.*)
ConnectToServerFails == UNCHANGED <<sock, conn, dialing>>

(* SocketConnectThreadFunc, select() succeeded: AfterConnectToServer posts *)
(* its event.                                                              *)
SocketConnected(f) ==
  /\ dialing[f] /\ conn[f] = "syn"
  /\ dialing' = [dialing EXCEPT ![f] = FALSE]
  /\ conn' = [conn EXCEPT ![f] = "up"]
  /\ events' = Post(events, "connected")
  /\ UNCHANGED <<sUpdate, thrID, state, dlg, sock, inbuf, closing, ui, upd, rd>>

(* Timeout or error: ConnectToSocketNonBlocking closes the socket, ...     *)
SocketConnectFails(f) ==
  /\ dialing[f]
  /\ dialing' = [dialing EXCEPT ![f] = FALSE]
  /\ closing' = [closing EXCEPT ![f] = TRUE]
  /\ Close(f)
  /\ UNCHANGED <<sUpdate, thrID, state, dlg, sock, events, ui, upd>>

(* ... and so does SocketConnectThreadFunc.                                *)
SocketConnectThreadFuncCloses(f) ==
  /\ closing[f]
  /\ closing' = [closing EXCEPT ![f] = FALSE]
  /\ Close(f)
  /\ UNCHANGED <<sUpdate, thrID, state, dlg, sock, dialing, events, ui, upd>>

-----------------------------------------------------------------------------
(* The UI thread: what the user and the timer do.                          *)

(* The loop is ready for input or a timer.                                 *)
Dispatching == ui = "loop" /\ (PostedFirst => events = <<>>)

(* The button "Connect..." of the main dialog.                             *)
ShwCnnctToSrvrDlg ==
  /\ Dispatching /\ ~ dialog
  /\ state = "uncnnctdToSrv"
  /\ dialog' = TRUE /\ dlgFd' = sock
  /\ UNCHANGED <<sUpdate, thrID, state, timer, sock, conn, inbuf, dialing, closing, events, ui, upd, rd>>

(* cancelCnnctnOrCnnctnAttmpt: closes the descriptor the dialog was made   *)
(* with, stops the timers.                                                 *)
CancelCnnctn ==
  /\ Dispatching /\ dialog
  /\ timer' = "stopped"
  /\ Close(dlgFd)
  /\ UNCHANGED <<sUpdate, thrID, state, dialog, dlgFd, sock, dialing, closing, events, ui, upd>>

(* OnConnect: the cancellation, then a new attempt with the number that is *)
(* free now, if the host name is found.                                    *)
OnConnect ==
  /\ Dispatching /\ dialog
  /\ \/ /\ timer' = "off"
        /\ \E f \in Fds :
             /\ f = dlgFd \/ conn[f] = "free"
             /\ \A g \in Fds : g = dlgFd \/ conn[g] = "free" => f <= g
             /\ sock' = f
             /\ conn' = [g \in Fds |-> IF g = f THEN "syn" ELSE IF g = dlgFd THEN "free" ELSE conn[g]]
             /\ inbuf' = [g \in Fds |-> IF g \in {f, dlgFd} THEN FALSE ELSE inbuf[g]]
             /\ dialing' = [dialing EXCEPT ![f] = TRUE]
        /\ Abandon(dlgFd, rd)
     \/ /\ timer' = "stopped"
        /\ Close(dlgFd)
        /\ UNCHANGED <<sock, dialing>>
  /\ UNCHANGED <<sUpdate, thrID, state, dialog, dlgFd, closing, events, ui, upd>>

(* OnCloseWindow: End() stops both timers; a connect thread goes on.       *)
OnCloseWindow ==
  /\ Dispatching /\ dialog
  /\ dialog' = FALSE /\ timer' = "stopped" /\ dlgFd' = None
  /\ UNCHANGED <<sUpdate, thrID, state, sock, conn, inbuf, dialing, closing, events, ui, upd, rd>>

(* Mutant: the timer stops without another attempt.                        *)
OnCnnctnAttmptTimerNoDial ==
  /\ Dispatching /\ timer = "on"
  /\ timer' = "off"
  /\ UNCHANGED <<sUpdate, thrID, state, dialog, dlgFd, sock, conn, inbuf, dialing, closing,
                 events, ui, upd, rd>>

OnCnnctnAttmptTimer ==
  /\ Dispatching /\ timer = "on"
  /\ \/ timer' = "off" /\ \E f \in Fds : LowestFree(f) /\ Dial(f)
     \/ timer' = "stopped" /\ ConnectToServerFails
  /\ UNCHANGED <<sUpdate, thrID, state, dialog, dlgFd, inbuf, closing, events, ui, upd, rd>>

(* Mutant: the thread is only woken, its loop condition is not reset.      *)
EndUpdateUIthreadNoReset ==
  /\ Dispatching
  /\ state # "uncnnctdToSrv" /\ IsRunning
  /\ ui' = "join"
  /\ UNCHANGED <<sUpdate, thrID, state, dlg, sock, conn, inbuf, dialing, closing, events, upd, rd>>

(* The button "Disconnect": EndUpdateUIthread. The broadcast that precedes *)
(* the reset of the flag only shortens the wait of the update thread.      *)
EndUpdateUIthread ==
  /\ Dispatching
  /\ state # "uncnnctdToSrv" /\ IsRunning
  /\ sUpdate' = FALSE
  /\ ui' = "join"
  /\ UNCHANGED <<thrID, state, dlg, sock, conn, inbuf, dialing, closing, events, upd, rd>>

WaitForTermination ==
  /\ ui = "join" /\ ~ IsRunning
  /\ sUpdate' = TRUE
  /\ thrID' = FALSE
  /\ state' = "uncnnctdToSrv"
  /\ ui' = "loop"
  /\ UNCHANGED <<dlg, sock, conn, inbuf, dialing, closing, events, upd, rd>>

-----------------------------------------------------------------------------
(* The UI thread: posted events.                                           *)

Handle(e) ==
  /\ ui = "loop"
  /\ events # <<>> /\ Head(events) = e
  /\ events' = Tail(events)

(* Mutant: the guard is set but not tested.                                *)
OnAfterConnectToServerNoGuard ==
  /\ Handle("connected")
  /\ dialog' = FALSE /\ timer' = "off" /\ dlgFd' = None
  /\ thrID' = TRUE /\ state' = "cnnctdToSrv" /\ ui' = "supp"
  /\ rd' = [rd EXCEPT !["ui"] = sock]
  /\ UNCHANGED <<sUpdate, sock, conn, inbuf, dialing, closing, upd>>

(* The connect dialog ends, then GetSMARTvaluesAndUpdateUI: it refuses to  *)
(* run while the guard is set.                                             *)
OnAfterConnectToServer ==
  /\ Handle("connected")
  /\ dialog' = FALSE /\ timer' = "off" /\ dlgFd' = None
  /\ \/ thrID /\ UNCHANGED <<thrID, state, ui, rd>>
     \/ /\ ~ thrID
        /\ thrID' = TRUE /\ state' = "cnnctdToSrv" /\ ui' = "supp"
        /\ rd' = [rd EXCEPT !["ui"] = sock]
  /\ UNCHANGED <<sUpdate, sock, conn, inbuf, dialing, closing, upd>>

(* Mutant: the state is set whether or not an update thread runs.          *)
UpdateInGUIAlways ==
  /\ Handle("valUpd8")
  /\ state' = "valUpd8"
  /\ UNCHANGED <<sUpdate, thrID, dlg, sock, conn, inbuf, dialing, closing, ui, upd, rd>>

(* UpdateSMARTvaluesUI: "Only if not cancelled".                           *)
OnUpdateSMARTparameterValuesInGUI ==
  /\ Handle("valUpd8")
  /\ state' = IF IsRunning THEN "valUpd8" ELSE state
  /\ UNCHANGED <<sUpdate, thrID, dlg, sock, conn, inbuf, dialing, closing, ui, upd, rd>>

(* SetState: also resets the guard.                                        *)
OnChangeState ==
  /\ Handle("uncnnctdToSrv")
  /\ state' = "uncnnctdToSrv"
  /\ thrID' = FALSE
  /\ UNCHANGED <<sUpdate, dlg, sock, conn, inbuf, dialing, closing, ui, upd, rd>>

(* StartSrvCnnctnAttmptCntDown: in the dialog, which is shown if needed.   *)
OnStartServiceConnectionCountDown ==
  /\ Handle("attempt")
  /\ dialog' = TRUE /\ timer' = "on"
  /\ dlgFd' = IF dialog THEN dlgFd ELSE sock
  /\ UNCHANGED <<sUpdate, thrID, state, sock, conn, inbuf, dialing, closing, ui, upd, rd>>

-----------------------------------------------------------------------------
(* The UI thread inside GetSMARTvaluesAndUpdateUI.                         *)

GetSupportedSMARTidsFromSrv ==
  /\ ui = "supp" /\ ReadSucceeds("ui")
  /\ Taken("ui")
  /\ ui' = "vals"
  /\ rd' = [rd EXCEPT !["ui"] = sock]
  /\ UNCHANGED <<sUpdate, thrID, state, dlg, sock, conn, dialing, closing, events, upd>>

(* The first values: UpdateSMARTvaluesUI, then StartAsyncUpdateThread when *)
(* there are attributes to observe.                                        *)
GetFirstSMARTvalues ==
  /\ ui = "vals" /\ ReadSucceeds("ui")
  /\ Taken("ui")
  /\ state' = IF IsRunning THEN "valUpd8" ELSE state
  /\ ui' = "loop"
  /\ \/ /\ ~ IsRunning
        /\ upd' = [upd EXCEPT ![cur] = "get"]
        /\ rd' = [rd EXCEPT !["ui"] = None]
     \/ \E t \in Threads :
          /\ IsRunning /\ upd[t] = "none"
          /\ upd' = [upd EXCEPT ![t] = upd[cur], ![cur] = "get"]
          /\ rd' = [rd EXCEPT !["ui"] = None, ![t] = rd[cur], ![cur] = None]
     \/ rd' = [rd EXCEPT !["ui"] = None] /\ UNCHANGED upd
  /\ UNCHANGED <<sUpdate, thrID, dlg, sock, conn, dialing, closing, events>>

(* HandleTransmissionError in the UI thread, close() and the countdown.    *)
GreetingFails ==
  /\ ui \in {"supp", "vals"} /\ ReadFails("ui")
  /\ state' = "uncnnctdToSrv" /\ thrID' = FALSE
  /\ events' = Post(events, "attempt")
  /\ CloseAfter(sock, [rd EXCEPT !["ui"] = None])
  /\ ui' = "loop"
  /\ UNCHANGED <<sUpdate, dlg, sock, dialing, closing, upd>>

-----------------------------------------------------------------------------
(* The update threads: UpdateSMARTattrValsThreadFunc.                      *)

UpdUnchanged == UNCHANGED <<thrID, state, dlg, sUpdate, sock, dialing, closing, ui>>

(* GetSMARTattrValsFromSrv: m_socketFileDesc is evaluated, then the thread *)
(* is in read() on that descriptor.                                        *)
GetSMARTattrValsFromSrv(t) ==
  /\ upd[t] = "get"
  /\ upd' = [upd EXCEPT ![t] = "read"]
  /\ rd' = [rd EXCEPT ![t] = sock]
  /\ UpdUnchanged /\ UNCHANGED <<conn, inbuf, events>>

(* A message is read in two steps, its length and then its text, for which *)
(* m_socketFileDesc is evaluated anew: it may be another one by now.       *)
GotLengthOnly(t) ==
  /\ upd[t] = "read" /\ ReadSucceeds(t) /\ rd[t] # sock
  /\ Taken(t)
  /\ rd' = [rd EXCEPT ![t] = sock]
  /\ UpdUnchanged /\ UNCHANGED <<conn, events, upd>>

(* Success: BeforeWait posts the update of the table.                      *)
GotSMARTattrVals(t) ==
  /\ upd[t] = "read" /\ ReadSucceeds(t)
  /\ Taken(t)
  /\ events' = Post(events, "valUpd8")
  /\ upd' = [upd EXCEPT ![t] = "wait"]
  /\ rd' = [rd EXCEPT ![t] = None]
  /\ UpdUnchanged /\ UNCHANGED conn

(* HandleTransmissionError posts the new state and a countdown.            *)
HandleTransmissionError(t) ==
  /\ upd[t] = "read" /\ ReadFails(t)
  /\ events' = Post(Post(events, "uncnnctdToSrv"), "attempt")
  /\ upd' = [upd EXCEPT ![t] = "failed"]
  /\ rd' = [rd EXCEPT ![t] = None]
  /\ UpdUnchanged /\ UNCHANGED <<conn, inbuf>>

WaitForSignalOrTimeout(t) ==
  /\ upd[t] = "wait"
  /\ upd' = [upd EXCEPT ![t] = IF sUpdate THEN "get" ELSE "after"]
  /\ UpdUnchanged /\ UNCHANGED <<conn, inbuf, events, rd>>

(* AfterGetSMARTvaluesLoop closes whatever m_socketFileDesc is by now and, *)
(* after a failure, asks for one more countdown; the thread ends.          *)
AfterGetSMARTvaluesLoop(t) ==
  /\ upd[t] \in {"failed", "after"}
  /\ Close(sock)
  /\ events' = IF upd[t] = "failed" THEN Post(events, "attempt") ELSE events
  /\ upd' = [upd EXCEPT ![t] = "none"]
  /\ UpdUnchanged

-----------------------------------------------------------------------------
NetStep ==
  \/ \E f \in Fds : ServerSends(f) \/ ServerCloses(f) \/ ServerLost(f)
  \/ \E x \in Readers : ServerOfOrphanLost(x)
DialStep ==
  \E f \in Fds :
    SocketConnected(f) \/ SocketConnectFails(f) \/ SocketConnectThreadFuncCloses(f)
UserStep ==
  ShwCnnctToSrvrDlg \/ CancelCnnctn \/ OnConnect \/ OnCloseWindow \/ EndUpdateUIthread
UIStep ==
  \/ OnCnnctnAttmptTimer
  \/ WaitForTermination
  \/ OnAfterConnectToServer \/ OnUpdateSMARTparameterValuesInGUI
  \/ OnChangeState \/ OnStartServiceConnectionCountDown
  \/ GetSupportedSMARTidsFromSrv \/ GetFirstSMARTvalues \/ GreetingFails
UpdStep(t) ==
  \/ GetSMARTattrValsFromSrv(t) \/ GotLengthOnly(t) \/ GotSMARTattrVals(t)
  \/ HandleTransmissionError(t)
  \/ WaitForSignalOrTimeout(t) \/ AfterGetSMARTvaluesLoop(t)

Next ==
  \/ NetStep \/ DialStep \/ UserStep \/ UIStep
  \/ \E t \in Threads : UpdStep(t)

Spec == Init /\ [][Next]_vars

-----------------------------------------------------------------------------
(* The event loop, the timer, the threads and the network stack run on;    *)
(* servers that are up send values.                                        *)
Fairness ==
  /\ WF_vars(UIStep)
  /\ \A t \in Threads : WF_vars(UpdStep(t))
  /\ WF_vars(DialStep)
  /\ WF_vars(\E f \in Fds : ServerSends(f))

FairSpec == Spec /\ Fairness

-----------------------------------------------------------------------------
(* Properties.                                                             *)

Reading == {"get", "read", "wait"}
UIreads == ui \in {"supp", "vals"}

(* At most one thread reads from the connection: while an update thread is *)
(* in its loop neither the UI thread is in GetSMARTvaluesAndUpdateUI nor   *)
(* another update thread in its loop. "Prevent the update thread from      *)
(* running more than once (this brings socket problems--read the wrong     *)
(* size of bytes to receive)" (comment of GetSMARTvaluesAndUpdateUI). And  *)
(* the members that hold a descriptor hold one of the process, or none.    *)
OneReader ==
  /\ \A t \in Threads : upd[t] \in Reading => ~ UIreads
  /\ \A s, t \in Threads : upd[s] \in Reading /\ upd[t] \in Reading => s = t
ClientInv == TypeOK /\ OneReader

(* An update of values that arrives late does not turn the state of a      *)
(* client that shows "unconnected" (UpdateSMARTvaluesUI: "let the state at *)
(* "disconnected" to be able to connect again").                           *)
DisconnectedStays ==
  [][state = "uncnnctdToSrv" => state' # "valUpd8"]_vars

(* A thread is in a read that does not return: "Did not continue [...]     *)
(* after PC with S.M.A.R.T. server shut down/service process killed with   *)
(* "-SIGKILL". Disconnecting via "Disconnect" button was impossible."      *)
(* (comment of ReadNumFollowingBytes).                                     *)
Stuck ==
  \E x \in Readers :
    \/ rd[x] = LostOrphan
    \/ rd[x] \in Fds /\ conn[rd[x]] = "lost" /\ ~ inbuf[rd[x]]

(* "Disconnect" comes to its end, the update thread terminates and the UI  *)
(* thread leaves EndUpdateUIthread, unless a thread reads from a server    *)
(* that was lost: the case of the comment is the only one.                 *)
DisconnectEndsUnlessLost == (ui = "join") ~> (ui = "loop" \/ Stuck)

(* "Try to connect again after timeout elapses" (HandleTransmissionError): *)
(* after a failed read there is another attempt, unless the user stops it  *)
(* in the connect dialog (cancels or closes it), a thread is stuck, or the *)
(* attempt fails before it dials (the host name is not found): then there  *)
(* is no further one.                                                      *)
AnotherAttempt ==
  (\E t \in Threads : upd[t] = "failed") ~>
    (timer = "stopped" \/ Stuck \/ \E f \in Fds : dialing[f])
==============================================================================
