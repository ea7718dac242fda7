------------------------- MODULE SMARTmonitorService -------------------------
(***************************************************************************)
(* The S.M.A.R.T. monitor service (src/src/service, with the update thread *)
(* of src/src/SMARTmonitorBase.cpp and the device reads of                 *)
(* src/src/libATA_SMART).                                                  *)
(*                                                                         *)
(* Two threads and a signal handler share one process:                     *)
(*  - the main thread accepts clients (ClientConnThreadFunc), sends each   *)
(*    one the supported S.M.A.R.T. IDs and registers it;                   *)
(*  - the update thread reads the drives, sends the values of every drive  *)
(*    to every registered client and waits (UpdateSMARTattrValsThreadFunc);*)
(*  - SIGTERM / SIGINT resets s_updateSMARTvalues (End).                   *)
(* They meet in the set of client file descriptors, guarded by             *)
(* m_clientsCriticalSection, in the flag s_updateSMARTvalues, and in the   *)
(* descriptor table of the process, where a number that was closed is      *)
(* handed out again for the next socket or device.                         *)
(***************************************************************************)
EXTENDS Integers

CONSTANTS
  Clients,    \* connections that clients open, one socket each
  MaxFd,      \* size of the descriptor table (RLIMIT_NOFILE)
  NDrives,    \* drives found by InitializeSMART
  BufCap,     \* messages that fit in the socket buffers of a connection
  UpdStarted, \* m_IDsOfSMARTattrsToObserve is not empty: the thread is started
  Free, Listener, DevMain, DevUpd  \* other contents of a descriptor

Fds == 1..MaxFd
Devices == {DevMain, DevUpd}

ASSUME ServiceAssumption ==
  /\ MaxFd \in Nat \ {0}
  /\ NDrives \in Nat \ {0}
  /\ BufCap \in Nat \ {0}
  /\ UpdStarted \in BOOLEAN
  /\ Free # Listener /\ Free # DevMain /\ Free # DevUpd
  /\ Listener # DevMain /\ Listener # DevUpd /\ DevMain # DevUpd
  /\ Clients \cap {Free, Listener, DevMain, DevUpd} = {}

VARIABLES
  sUpdate,    \* s_updateSMARTvalues
  fdTable,    \* what each descriptor of the process refers to
  listening,  \* the listening socket has not been shut down
  backlog,    \* connections the kernel holds for accept
  peer,       \* the client's end of a connection: "idle", "open", "closed"
  unread,     \* messages sent to a client that it has not read
  last,       \* the last message sent to a client
  clientSet,  \* m_clientSocketFileDescSet
  critSect,   \* owner of m_clientsCriticalSection
  main,       \* main thread: where it is and its locals
  upd         \* update thread: where it is and its locals

net == <<backlog, peer, unread, last>>
vars == <<sUpdate, fdTable, listening, net, clientSet, critSect, main, upd>>

(***************************************************************************)
(* A message is one XML string. The output stream it is taken from is      *)
(* never emptied between drives, so the string for the n-th drive holds    *)
(* the documents of n drives: "docs" counts them.                          *)
(***************************************************************************)
Messages == [kind : {"none", "supp", "val"}, docs : 0..NDrives]
NoMessage == [kind |-> "none", docs |-> 0]
SuppMessage(n) == [kind |-> "supp", docs |-> n]
ValMessage(n) == [kind |-> "val", docs |-> n]

MainPcs == {"accept", "supp", "suppDev", "suppSend", "addEnter", "add", "test",
            "closeEnter", "close", "returning", "ended"}
UpdPcs == {"notStarted", "get", "getDev", "enter", "send", "leave", "wait",
           "shutdown", "closeListener", "done"}
RetCodes == {"noSingleSMARTdevice", "success", "accessDenied"}

MainLocals == [pc : MainPcs, fd : Fds, dev : Fds, drv : 1..NDrives + 1,
               docs : 0..NDrives, todo : SUBSET Fds]
UpdLocals == [pc : UpdPcs, dev : Fds, drv : 1..NDrives + 1, ret : RetCodes,
              todo : SUBSET Fds, broken : SUBSET Fds]
FdContents == Clients \cup {Free, Listener, DevMain, DevUpd}

TypeOK ==
  /\ sUpdate \in BOOLEAN
  /\ fdTable \in [Fds -> FdContents]
  /\ listening \in BOOLEAN
  /\ backlog \in SUBSET Clients
  /\ peer \in [Clients -> {"idle", "open", "closed"}]
  /\ unread \in [Clients -> 0..BufCap]
  /\ last \in [Clients -> Messages]
  /\ clientSet \in SUBSET Fds
  /\ critSect \in {"none", "main", "upd"}
  /\ main \in MainLocals
  /\ upd \in UpdLocals

-----------------------------------------------------------------------------
(* The descriptor table: open(), accept() and socket() return the lowest   *)
(* number that is free, close() frees it.                                  *)

FreeFds == {f \in Fds : fdTable[f] = Free}
LowestFree(f) == f \in FreeFds /\ \A g \in FreeFds : f <= g

Running == main.pc # "ended"

(* A thread at a place where its locals are dead.                          *)
MainAt(pc) == [pc |-> pc, fd |-> 1, dev |-> 1, drv |-> 1, docs |-> 0, todo |-> {}]
UpdAt(pc) == [pc |-> pc, dev |-> 1, drv |-> 1, ret |-> "noSingleSMARTdevice",
              todo |-> {}, broken |-> {}]

(* BindAndListenToSocket succeeded, InitializeSMART found the drives and   *)
(* StartAsyncUpdateThread started the update thread, or only said "No      *)
(* S.M.A.R.T. attributes to observe".                                      *)
Init ==
  /\ sUpdate = TRUE
  /\ fdTable = [f \in Fds |-> IF f = 1 THEN Listener ELSE Free]
  /\ listening = TRUE
  /\ backlog = {}
  /\ peer = [c \in Clients |-> "idle"]
  /\ unread = [c \in Clients |-> 0]
  /\ last = [c \in Clients |-> NoMessage]
  /\ clientSet = {}
  /\ critSect = "none"
  /\ main = MainAt("accept")
  /\ upd = UpdAt(IF UpdStarted THEN "get" ELSE "notStarted")

-----------------------------------------------------------------------------
(* The clients: they connect while the server listens, read what was sent  *)
(* and may close the connection at any time.                               *)

Connect(c) ==
  /\ Running /\ listening
  /\ peer[c] = "idle"
  /\ peer' = [peer EXCEPT ![c] = "open"]
  /\ backlog' = backlog \cup {c}
  /\ UNCHANGED <<sUpdate, fdTable, listening, unread, last, clientSet, critSect, main, upd>>

ClientRead(c) ==
  /\ peer[c] = "open"
  /\ unread[c] > 0
  /\ unread' = [unread EXCEPT ![c] = @ - 1]
  /\ UNCHANGED <<sUpdate, fdTable, listening, backlog, peer, last, clientSet, critSect, main, upd>>

ClientClose(c) ==
  /\ peer[c] = "open"
  /\ peer' = [peer EXCEPT ![c] = "closed"]
  /\ UNCHANGED <<sUpdate, fdTable, listening, backlog, unread, last, clientSet, critSect, main, upd>>

-----------------------------------------------------------------------------
(* SendBytesTo1Client: a blocking write() of the whole message. It waits   *)
(* while the buffers of an open connection are full, succeeds or fails     *)
(* (EPIPE) once the client has closed its end, and fails (EBADF, ENOTCONN) *)
(* on a number that is no connection. A write to a device would be an      *)
(* ordinary write.                                                         *)
SendBytesTo1Client(fd, m, ok) ==
  LET c == fdTable[fd] IN
  \/ /\ c \in Clients /\ peer[c] = "open"
     /\ unread[c] < BufCap
     /\ unread' = [unread EXCEPT ![c] = @ + 1]
     /\ last' = [last EXCEPT ![c] = m]
     /\ ok = TRUE
  \/ /\ c \in Clients => peer[c] = "closed"
     /\ c \in {Free, Listener} => ok = FALSE
     /\ UNCHANGED <<unread, last>>

-----------------------------------------------------------------------------
(* The main thread: ClientConnThreadFunc.                                  *)

MainUnchanged == UNCHANGED <<sUpdate, listening, upd>>

(* Mutant: the client is registered before it got the supported IDs.       *)
AcceptAndAddClient(c) ==
  /\ main.pc = "accept"
  /\ fdTable[1] = Listener /\ listening
  /\ c \in backlog
  /\ \E f \in Fds :
       /\ LowestFree(f)
       /\ fdTable' = [fdTable EXCEPT ![f] = c]
       /\ clientSet' = clientSet \cup {f}
       /\ main' = [MainAt("supp") EXCEPT !.fd = f]
  /\ backlog' = backlog \ {c}
  /\ MainUnchanged /\ UNCHANGED <<peer, unread, last, critSect>>

AcceptClient(c) ==
  /\ main.pc = "accept"
  /\ fdTable[1] = Listener /\ listening
  /\ c \in backlog
  /\ \E f \in Fds :
       /\ LowestFree(f)
       /\ fdTable' = [fdTable EXCEPT ![f] = c]
       /\ main' = [MainAt("supp") EXCEPT !.fd = f]
  /\ backlog' = backlog \ {c}
  /\ MainUnchanged /\ UNCHANGED <<peer, unread, last, clientSet, critSect>>

(* accept() returns -1: EINVAL after shutdown(), EBADF after the close()   *)
(* that follows it, EMFILE when the descriptor table is full.              *)
AcceptFails ==
  /\ main.pc = "accept"
  /\ \/ ~ listening
     \/ backlog # {} /\ FreeFds = {}
  /\ main' = [main EXCEPT !.pc = "test"]
  /\ MainUnchanged /\ UNCHANGED <<fdTable, net, clientSet, critSect>>

(* SendSupportedSMART_IDsToClient, for the next drive: GetSupportedSMART_IDs*)
(* opens its device ...                                                    *)
OpenDeviceForSupportedIDs ==
  /\ main.pc = "supp" /\ main.drv <= NDrives
  /\ \E f \in Fds :
       /\ LowestFree(f)
       /\ fdTable' = [fdTable EXCEPT ![f] = DevMain]
       /\ main' = [main EXCEPT !.pc = "suppDev", !.dev = f]
  /\ MainUnchanged /\ UNCHANGED <<net, clientSet, critSect>>

(* ... or cannot open it: no IDs, nothing is sent for this drive ...       *)
OpenDeviceFails ==
  /\ main.pc = "supp" /\ main.drv <= NDrives
  /\ main' = [main EXCEPT !.drv = @ + 1]
  /\ MainUnchanged /\ UNCHANGED <<fdTable, net, clientSet, critSect>>

(* Mutant: the device stays open when there is no supported ID.            *)
GotSupportedIDsNoClose ==
  /\ main.pc = "suppDev"
  /\ \/ /\ fdTable' = [fdTable EXCEPT ![main.dev] = Free]
        /\ main' = [main EXCEPT !.pc = "suppSend", !.dev = 1, !.docs = @ + 1]
     \/ /\ main' = [main EXCEPT !.pc = "supp", !.dev = 1, !.drv = @ + 1]
        /\ UNCHANGED fdTable
  /\ MainUnchanged /\ UNCHANGED <<net, clientSet, critSect>>

(* ... and closes it again, with at least one supported ID or with none.   *)
GotSupportedIDs ==
  /\ main.pc = "suppDev"
  /\ fdTable' = [fdTable EXCEPT ![main.dev] = Free]
  /\ \/ main' = [main EXCEPT !.pc = "suppSend", !.dev = 1, !.docs = @ + 1]
     \/ main' = [main EXCEPT !.pc = "supp", !.dev = 1, !.drv = @ + 1]
  /\ MainUnchanged /\ UNCHANGED <<net, clientSet, critSect>>

(* The result of the send is ignored.                                      *)
SendSupportedSMART_IDsToClient ==
  /\ main.pc = "suppSend"
  /\ \E ok \in BOOLEAN : SendBytesTo1Client(main.fd, SuppMessage(main.docs), ok)
  /\ main' = [main EXCEPT !.pc = "supp", !.drv = @ + 1]
  /\ MainUnchanged /\ UNCHANGED <<fdTable, backlog, peer, clientSet, critSect>>

(* Mutant: the accepted client is never added to the set.                  *)
SupportedIDsSentNoAdd ==
  /\ main.pc = "supp" /\ main.drv > NDrives
  /\ main' = MainAt("test")
  /\ MainUnchanged /\ UNCHANGED <<fdTable, net, clientSet, critSect>>

SupportedIDsSent ==
  /\ main.pc = "supp" /\ main.drv > NDrives
  /\ main' = [MainAt("addEnter") EXCEPT !.fd = main.fd]
  /\ MainUnchanged /\ UNCHANGED <<fdTable, net, clientSet, critSect>>

(* Mutant: the insertion does not wait for the critical section.           *)
AddClientNoEnter ==
  /\ main.pc = "addEnter"
  /\ main' = [main EXCEPT !.pc = "add"]
  /\ MainUnchanged /\ UNCHANGED <<fdTable, net, clientSet, critSect>>

AddClientEnter ==
  /\ main.pc = "addEnter"
  /\ critSect = "none" /\ critSect' = "main"
  /\ main' = [main EXCEPT !.pc = "add"]
  /\ MainUnchanged /\ UNCHANGED <<fdTable, net, clientSet>>

AddClient ==
  /\ main.pc = "add"
  /\ clientSet' = clientSet \cup {main.fd}
  /\ critSect' = "none"
  /\ main' = MainAt("test")
  /\ MainUnchanged /\ UNCHANGED <<fdTable, net>>

(* while(s_updateSMARTvalues)                                              *)
AcceptLoopTest ==
  /\ main.pc = "test"
  /\ main' = [main EXCEPT !.pc = IF sUpdate THEN "accept" ELSE "closeEnter"]
  /\ MainUnchanged /\ UNCHANGED <<fdTable, net, clientSet, critSect>>

CloseAllEnter ==
  /\ main.pc = "closeEnter"
  /\ critSect = "none" /\ critSect' = "main"
  /\ main' = [main EXCEPT !.pc = "close", !.todo = clientSet]
  /\ MainUnchanged /\ UNCHANGED <<fdTable, net, clientSet>>

(* The descriptors are closed and stay in the set.                         *)
CloseAllClientSockets ==
  /\ main.pc = "close"
  /\ \E f \in main.todo :
       /\ \A g \in main.todo : f <= g
       /\ fdTable' = [fdTable EXCEPT ![f] = Free]
       /\ main' = [main EXCEPT !.todo = @ \ {f}]
  /\ MainUnchanged /\ UNCHANGED <<net, clientSet, critSect>>

CloseAllLeave ==
  /\ main.pc = "close" /\ main.todo = {}
  /\ critSect' = "none"
  /\ main' = [main EXCEPT !.pc = "returning"]
  /\ MainUnchanged /\ UNCHANGED <<fdTable, net, clientSet>>

(* main() returns without joining the update thread: the process ends with *)
(* all its threads.                                                        *)
MainReturns ==
  /\ main.pc = "returning"
  /\ main' = [main EXCEPT !.pc = "ended"]
  /\ MainUnchanged /\ UNCHANGED <<fdTable, net, clientSet, critSect>>

MainStep ==
  \/ \E c \in Clients : AcceptClient(c)
  \/ AcceptFails
  \/ OpenDeviceForSupportedIDs \/ OpenDeviceFails \/ GotSupportedIDs
  \/ SendSupportedSMART_IDsToClient \/ SupportedIDsSent
  \/ AddClientEnter \/ AddClient
  \/ AcceptLoopTest
  \/ CloseAllEnter \/ CloseAllClientSockets \/ CloseAllLeave
  \/ MainReturns

-----------------------------------------------------------------------------
(* The update thread: UpdateSMARTattrValsThreadFunc.                       *)

UpdUnchanged == UNCHANGED <<sUpdate, backlog, peer, main>>

(* ReadSMARTValuesForAllDrives opens one device after the other; a device  *)
(* that cannot be opened leaves the return code as it is unless access was *)
(* denied, the last device that says "success" or "accessDenied" decides.  *)
OpenDeviceToRead ==
  /\ Running
  /\ upd.pc = "get" /\ upd.drv <= NDrives
  /\ \E f \in Fds :
       /\ LowestFree(f)
       /\ fdTable' = [fdTable EXCEPT ![f] = DevUpd]
       /\ upd' = [upd EXCEPT !.pc = "getDev", !.dev = f]
  /\ UpdUnchanged /\ UNCHANGED <<listening, unread, last, clientSet, critSect>>

OpenDeviceToReadFails ==
  /\ Running
  /\ upd.pc = "get" /\ upd.drv <= NDrives
  /\ \E r \in {upd.ret, "accessDenied"} : upd' = [upd EXCEPT !.drv = @ + 1, !.ret = r]
  /\ UpdUnchanged /\ UNCHANGED <<fdTable, listening, unread, last, clientSet, critSect>>

DeviceRead ==
  /\ Running
  /\ upd.pc = "getDev"
  /\ fdTable' = [fdTable EXCEPT ![upd.dev] = Free]
  /\ \E r \in {upd.ret, "success", "accessDenied"} :
       upd' = [upd EXCEPT !.pc = "get", !.dev = 1, !.drv = @ + 1, !.ret = r]
  /\ UpdUnchanged /\ UNCHANGED <<listening, unread, last, clientSet, critSect>>

(* The values function returned: BeforeWait for success, else break.       *)
GotSMARTvalues ==
  /\ Running
  /\ upd.pc = "get" /\ upd.drv > NDrives
  /\ upd' = UpdAt(IF upd.ret = "success" THEN "enter" ELSE "shutdown")
  /\ UpdUnchanged /\ UNCHANGED <<fdTable, listening, unread, last, clientSet, critSect>>

(* BeforeWait: SendBytesToAllClients once per drive.                       *)
SendEnter ==
  /\ Running
  /\ upd.pc = "enter" /\ upd.drv <= NDrives
  /\ critSect = "none" /\ critSect' = "upd"
  /\ upd' = [upd EXCEPT !.pc = "send", !.todo = clientSet, !.broken = {}]
  /\ UpdUnchanged /\ UNCHANGED <<fdTable, listening, unread, last, clientSet>>

(* Mutant: the result of the write is tested the wrong way round.          *)
SendBytesToAllClientsInverted ==
  /\ Running
  /\ upd.pc = "send"
  /\ \E f \in upd.todo, ok \in BOOLEAN :
       /\ \A g \in upd.todo : f <= g
       /\ SendBytesTo1Client(f, ValMessage(upd.drv), ok)
       /\ upd' = [upd EXCEPT !.todo = @ \ {f},
                             !.broken = IF ok THEN @ \cup {f} ELSE @]
  /\ UpdUnchanged /\ UNCHANGED <<fdTable, listening, clientSet, critSect>>

SendBytesToAllClients ==
  /\ Running
  /\ upd.pc = "send"
  /\ \E f \in upd.todo, ok \in BOOLEAN :
       /\ \A g \in upd.todo : f <= g
       /\ SendBytesTo1Client(f, ValMessage(upd.drv), ok)
       /\ upd' = [upd EXCEPT !.todo = @ \ {f},
                             !.broken = IF ok THEN @ ELSE @ \cup {f}]
  /\ UpdUnchanged /\ UNCHANGED <<fdTable, listening, clientSet, critSect>>

(* Mutant: the broken descriptors are closed and stay in the set.          *)
BrokenClosedNotErased ==
  /\ Running
  /\ upd.pc = "send" /\ upd.todo = {}
  /\ fdTable' = [f \in Fds |-> IF f \in upd.broken THEN Free ELSE fdTable[f]]
  /\ upd' = [upd EXCEPT !.pc = "leave", !.broken = {}]
  /\ UpdUnchanged /\ UNCHANGED <<listening, unread, last, clientSet, critSect>>

(* The broken descriptors leave the set; they are not closed.              *)
RemoveFileDescsOfBrokenSocketConns ==
  /\ Running
  /\ upd.pc = "send" /\ upd.todo = {}
  /\ clientSet' = clientSet \ upd.broken
  /\ upd' = [upd EXCEPT !.pc = "leave", !.broken = {}]
  /\ UpdUnchanged /\ UNCHANGED <<fdTable, listening, unread, last, critSect>>

SendLeave ==
  /\ Running
  /\ upd.pc = "leave"
  /\ critSect' = "none"
  /\ upd' = [upd EXCEPT !.pc = "enter", !.drv = @ + 1]
  /\ UpdUnchanged /\ UNCHANGED <<fdTable, listening, unread, last, clientSet>>

BeforeWaitEnds ==
  /\ Running
  /\ upd.pc = "enter" /\ upd.drv > NDrives
  /\ upd' = UpdAt("wait")
  /\ UpdUnchanged /\ UNCHANGED <<fdTable, listening, unread, last, clientSet, critSect>>

(* Mutant: the loop condition is not tested after the wait.                *)
WaitAndGoOn ==
  /\ Running
  /\ upd.pc = "wait"
  /\ upd' = UpdAt("get")
  /\ UpdUnchanged /\ UNCHANGED <<fdTable, listening, unread, last, clientSet, critSect>>

(* WaitForSignalOrTimeout: nobody signals waitOrSignalEvt in the service,  *)
(* so the interval always elapses; then while(s_updateSMARTvalues).        *)
WaitForSignalOrTimeout ==
  /\ Running
  /\ upd.pc = "wait"
  /\ upd' = UpdAt(IF sUpdate THEN "get" ELSE "shutdown")
  /\ UpdUnchanged /\ UNCHANGED <<fdTable, listening, unread, last, clientSet, critSect>>

(* AfterGetSMARTvaluesLoop: shutdown() wakes accept(), then close(). The   *)
(* condition variable signalled last has no waiter.                        *)
ShutdownListener ==
  /\ Running
  /\ upd.pc = "shutdown"
  /\ listening' = FALSE
  /\ upd' = [upd EXCEPT !.pc = "closeListener"]
  /\ UpdUnchanged /\ UNCHANGED <<fdTable, unread, last, clientSet, critSect>>

AfterGetSMARTvaluesLoop ==
  /\ Running
  /\ upd.pc = "closeListener"
  /\ fdTable' = [fdTable EXCEPT ![1] = Free]
  /\ upd' = [upd EXCEPT !.pc = "done"]
  /\ UpdUnchanged /\ UNCHANGED <<listening, unread, last, clientSet, critSect>>

UpdStep ==
  \/ OpenDeviceToRead \/ OpenDeviceToReadFails \/ DeviceRead
  \/ GotSMARTvalues
  \/ SendEnter \/ SendBytesToAllClients
  \/ RemoveFileDescsOfBrokenSocketConns \/ SendLeave \/ BeforeWaitEnds
  \/ WaitForSignalOrTimeout
  \/ ShutdownListener \/ AfterGetSMARTvaluesLoop

-----------------------------------------------------------------------------
(* The signal handler: End. Its pthread_cond_signal has no waiter either;  *)
(* accept() and write() are restarted after the handler (SA_RESTART).      *)
EndUpdateSMARTvaluesThread ==
  /\ Running
  /\ sUpdate
  /\ sUpdate' = FALSE
  /\ UNCHANGED <<fdTable, listening, net, clientSet, critSect, main, upd>>

(* The process has ended.                                                  *)
Terminated ==
  /\ ~ Running
  /\ UNCHANGED vars

Next ==
  \/ \E c \in Clients : Connect(c) \/ ClientRead(c) \/ ClientClose(c)
  \/ MainStep
  \/ UpdStep
  \/ EndUpdateSMARTvaluesThread
  \/ Terminated

Spec == Init /\ [][Next]_vars

(* Both threads are scheduled, timeouts elapse, and a thread that waits for *)
(* the critical section gets it: the holder leaves it after its loop and   *)
(* the update thread stays out of it for the whole interval.               *)
ServerFairness ==
  /\ WF_vars(MainStep) /\ WF_vars(UpdStep)
  /\ SF_vars(AddClientEnter) /\ SF_vars(CloseAllEnter) /\ SF_vars(SendEnter)

(* Clients read what they are sent until they close.                       *)
ClientFairness == \A c \in Clients : WF_vars(ClientRead(c))

FairSpec == Spec /\ ServerFairness /\ ClientFairness
ServerFairSpec == Spec /\ ServerFairness

-----------------------------------------------------------------------------
(* Properties.                                                             *)

(* No values are ever written to a drive: whatever the update thread still *)
(* has to write to is a client connection or a dead number, never a device *)
(* that main or the update thread has open, although close() gives numbers *)
(* back and both threads open devices (SendBytesToAllClients,              *)
(* GetSupportedSMART_IDs, CloseAllClientSockets).                          *)
WritesReachNoDevice ==
  upd.pc = "send" => \A f \in upd.todo : fdTable[f] \notin Devices

(* While one thread iterates over m_clientSocketFileDescSet (the sends of  *)
(* SendBytesToAllClients, the closes of CloseAllClientSockets) the other   *)
(* one does not modify it: an erase would leave a dangling iterator.       *)
SetStableWhileIterated ==
  [][/\ main.pc = "close" => clientSet' = clientSet
     /\ upd.pc = "send" /\ clientSet' # clientSet =>
          upd.todo = {} /\ upd'.pc = "leave"]_vars

(* A connection the service forgets (accepted, but neither in the set nor  *)
(* in the hands of the accept loop) is one whose client has closed it: no  *)
(* live client stops being served before the shutdown closes the sockets.  *)
Closing == {"close", "returning", "ended"}
Greeting == {"supp", "suppDev", "suppSend", "addEnter", "add"}
NoLiveClientLost ==
  main.pc \notin Closing =>
    \A f \in Fds :
      /\ fdTable[f] \in Clients
      /\ f \notin clientSet
      /\ ~ (main.pc \in Greeting /\ f = main.fd)
      => peer[fdTable[f]] = "closed"

(* The stream a client reads: first the supported IDs, one more document   *)
(* in each message, then values, drive after drive without a gap or a      *)
(* repetition (it may join between two drives), never again supported IDs. *)
(* Two threads write to the sockets (the TODO in ClientConnThreadFunc asks *)
(* whether that makes problems).                                           *)
Follows(m, n) ==
  \/ n.kind = "supp" /\ m.kind \in {"none", "supp"} /\ n.docs = m.docs + 1
  \/ n.kind = "val" /\ m.kind \in {"none", "supp"}
  \/ n.kind = "val" /\ m.kind = "val" /\ n.docs = (m.docs % NDrives) + 1
StreamOrder ==
  [][\A c \in Clients : last'[c] # last[c] => Follows(last[c], last'[c])]_last

(* What makes the two invariants above inductive. The critical section is   *)
(* held exactly in the two iterations and in the insertion; ...            *)
LockInv ==
  /\ critSect = "main" <=> main.pc \in {"add", "close"}
  /\ critSect = "upd" <=> upd.pc \in {"send", "leave"}

(* ... no more documents are in the stream than drives were visited; ...   *)
CountInv ==
  /\ \/ main.docs < main.drv
     \/ main.pc = "suppSend" /\ main.docs = main.drv
  /\ main.pc \in {"suppDev", "suppSend"} => main.drv <= NDrives
  /\ upd.pc \in {"getDev", "send", "leave"} => upd.drv <= NDrives

(* ... each descriptor number is used by one owner at a time: the listening *)
(* socket, the device main has open, the device the update thread has open,*)
(* the sockets the closing loop still has to close; ...                    *)
OwnerInv ==
  /\ upd.pc # "done" => fdTable[1] = Listener
  /\ \A f \in Fds :
       /\ fdTable[f] = Listener => f = 1
       /\ fdTable[f] = DevMain <=> main.pc = "suppDev" /\ f = main.dev
       /\ fdTable[f] = DevUpd <=> upd.pc = "getDev" /\ f = upd.dev
  /\ main.pc = "close" => \A f \in main.todo : fdTable[f] \in Clients

(* ... a registered number is a connection until the sockets are closed,   *)
(* and a number found broken is one whose client has closed.               *)
RegisteredInv ==
  /\ main.pc \notin Closing => \A f \in clientSet : fdTable[f] \in Clients
  /\ main.pc \in Greeting => fdTable[main.fd] \in Clients
  /\ upd.pc = "send" => upd.todo \subseteq clientSet /\ upd.broken \subseteq clientSet
  /\ upd.pc = "send" /\ main.pc \notin Closing =>
       \A f \in upd.broken : peer[fdTable[f]] = "closed"
  /\ \A c \in backlog : peer[c] # "idle"
  /\ \A f \in Fds : fdTable[f] \in Clients => peer[fdTable[f]] # "idle"

ServiceInv ==
  TypeOK /\ CountInv /\ LockInv /\ OwnerInv /\ RegisteredInv /\ NoLiveClientLost

(* SIGTERM ends the service once the update thread runs and clients read:  *)
(* the update thread leaves its loop, shuts the listening socket down and  *)
(* thereby releases accept().                                              *)
SignalEndsService == (~ sUpdate) ~> (main.pc = "ended")

(* A client in the backlog is registered, unless it closes, the service is *)
(* told to end, reading the drives fails, or no descriptor is free while   *)
(* it waits: connections of clients that have gone are not closed          *)
(* (RemoveFileDescsOfBrokenSocketConns), so that it can be left waiting.   *)
ClientIsRegistered ==
  \A c \in Clients :
    (c \in backlog) ~> \/ \E f \in clientSet : fdTable[f] = c
                       \/ peer[c] = "closed" \/ ~ sUpdate \/ ~ listening
                       \/ c \in backlog /\ \A f \in Fds : fdTable[f] # Free

(* "Send to all clients non-blocking" (comment of BeforeWait): a round of  *)
(* sends that was begun comes to its end whatever the clients do.          *)
SendRoundEnds == (upd.pc = "send") ~> (upd.pc # "send" \/ ~ Running)
=============================================================================
