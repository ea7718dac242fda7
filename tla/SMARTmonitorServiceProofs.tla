---------------------- MODULE SMARTmonitorServiceProofs ----------------------
(* Proofs about SMARTmonitorService, for any number of clients, drives and *)
(* descriptors.                                                            *)
EXTENDS SMARTmonitorService, TLAPS

(* Every step of the main thread leaves the update thread's locals, the    *)
(* flag and the listening socket alone; every step of the update thread    *)
(* leaves the main thread's locals, the flag and the backlog alone.        *)
USE ServiceAssumption DEF MainUnchanged, UpdUnchanged, net, MainAt, UpdAt, Fds, Devices,
    Running, Greeting, Closing

(* The initial state satisfies the inductive invariant.                    *)
LEMMA ServiceInit == Init => ServiceInv
  <1> SUFFICES ASSUME Init PROVE ServiceInv
    OBVIOUS
  <1>1. main \in MainLocals /\ upd \in UpdLocals
    BY DEF Init, MainLocals, UpdLocals, MainPcs, UpdPcs, RetCodes
  <1>2. TypeOK
    BY <1>1 DEF Init, TypeOK, Messages, NoMessage, FdContents
  <1>. QED
    <2>1. CountInv
      <3>1. /\ main.pc = "accept" /\ main.docs = 0 /\ main.drv = 1
            /\ upd.pc \in {"get", "notStarted"}
        BY DEF Init
      <3>. QED
        BY <3>1 DEF CountInv
    <2>2. LockInv
      BY DEF Init, LockInv
    <2>3. OwnerInv
      BY DEF Init, OwnerInv
    <2>4. RegisteredInv
      BY DEF Init, RegisteredInv
    <2>5. NoLiveClientLost
      BY DEF Init, NoLiveClientLost
    <2>. QED
      BY <1>2, <2>1, <2>2, <2>3, <2>4, <2>5 DEF ServiceInv

(* A send leaves the number of unread messages and the last message well   *)
(* typed.                                                                  *)
LEMMA SendType ==
  ASSUME TypeOK, NEW fd \in Fds, NEW m \in Messages, NEW ok \in BOOLEAN,
         SendBytesTo1Client(fd, m, ok)
  PROVE  unread' \in [Clients -> 0..BufCap] /\ last' \in [Clients -> Messages]
  BY DEF SendBytesTo1Client, TypeOK

(* What GotSupportedIDs does to the main thread's locals: either it goes on *)
(* to send what it has, or to the next drive.                              *)
LEMMA LocalsOfGot ==
  ASSUME NEW m \in MainLocals, NEW n,
         \/ n = [m EXCEPT !.pc = "suppSend", !.dev = 1, !.docs = @ + 1]
         \/ n = [m EXCEPT !.pc = "supp", !.dev = 1, !.drv = @ + 1]
  PROVE  /\ n.pc \in {"suppSend", "supp"} /\ n.fd = m.fd /\ n.todo = m.todo
         /\ m.drv + 1 \in 1..NDrives + 1 /\ m.docs + 1 \in 0..NDrives => n \in MainLocals
  <1> HIDE ServiceAssumption DEF MainUnchanged, UpdUnchanged, net, MainAt, UpdAt, Devices,
           Running, Greeting, Closing
  <1>1. 1 \in Fds
    BY ServiceAssumption DEF Fds
  <1> HIDE DEF Fds
  <1>2. CASE n = [m EXCEPT !.pc = "suppSend", !.dev = 1, !.docs = @ + 1]
    BY <1>1, <1>2 DEF MainLocals, MainPcs
  <1>3. CASE n = [m EXCEPT !.pc = "supp", !.dev = 1, !.drv = @ + 1]
    BY <1>1, <1>3 DEF MainLocals, MainPcs
  <1>. QED
    BY <1>2, <1>3

LEMMA GotStep ==
  ASSUME TypeOK, GotSupportedIDs
  PROVE  /\ main.pc = "suppDev" /\ fdTable' = [fdTable EXCEPT ![main.dev] = Free]
         /\ main'.pc \in {"suppSend", "supp"} /\ main'.fd = main.fd
         /\ main'.todo = main.todo
         /\ main.drv + 1 \in 1..NDrives + 1 /\ main.docs + 1 \in 0..NDrives => main' \in MainLocals
  <1>1. main \in MainLocals
    BY DEF TypeOK
  <1>2. \/ main' = [main EXCEPT !.pc = "suppSend", !.dev = 1, !.docs = @ + 1]
        \/ main' = [main EXCEPT !.pc = "supp", !.dev = 1, !.drv = @ + 1]
    BY DEF GotSupportedIDs
  <1>3. main.pc = "suppDev" /\ fdTable' = [fdTable EXCEPT ![main.dev] = Free]
    BY DEF GotSupportedIDs
  <1>. QED
    BY <1>1, <1>2, <1>3, LocalsOfGot

(* Every step of the service preserves the types.                          *)
LEMMA TypeOKStep == ServiceInv /\ [Next]_vars => TypeOK'
  <1> SUFFICES ASSUME ServiceInv, [Next]_vars PROVE TypeOK'
    OBVIOUS
  <1> USE DEF ServiceInv, TypeOK
  <1>1. ASSUME NEW c \in Clients, Connect(c) PROVE TypeOK'
    BY <1>1 DEF Connect
  <1>2. ASSUME NEW c \in Clients, ClientRead(c) PROVE TypeOK'
    BY <1>2 DEF ClientRead
  <1>3. ASSUME NEW c \in Clients, ClientClose(c) PROVE TypeOK'
    BY <1>3 DEF ClientClose
  <1>4. ASSUME NEW c \in Clients, AcceptClient(c) PROVE TypeOK'
    <2>1. main' \in MainLocals
      <3>1. PICK f \in Fds : main' = [MainAt("supp") EXCEPT !.fd = f]
        BY <1>4 DEF AcceptClient
      <3>. QED
        BY <3>1 DEF MainLocals, MainPcs
    <2>2. fdTable' \in [Fds -> FdContents]
      BY <1>4 DEF AcceptClient, LowestFree, FreeFds, FdContents
    <2>. QED
      BY <1>4, <2>1, <2>2 DEF AcceptClient
  <1>5. CASE AcceptFails
    <2>1. main' \in MainLocals
      BY <1>5 DEF AcceptFails, MainLocals, MainPcs, CountInv
    <2>. QED
      BY <1>5, <2>1 DEF AcceptFails
  <1>6. CASE OpenDeviceForSupportedIDs
    <2>1. main' \in MainLocals
      BY <1>6 DEF OpenDeviceForSupportedIDs, LowestFree, FreeFds, MainLocals, MainPcs, CountInv
    <2>2. fdTable' \in [Fds -> FdContents]
      BY <1>6 DEF OpenDeviceForSupportedIDs, LowestFree, FreeFds, FdContents
    <2>. QED
      BY <1>6, <2>1, <2>2 DEF OpenDeviceForSupportedIDs
  <1>7. CASE OpenDeviceFails
    <2>1. main' \in MainLocals
      <3>1. main.drv + 1 \in 1..NDrives + 1
        BY <1>7 DEF OpenDeviceFails, MainLocals
      <3>. QED
        BY <1>7, <3>1 DEF OpenDeviceFails, MainLocals
    <2>. QED
      BY <1>7, <2>1 DEF OpenDeviceFails
  <1>8. CASE GotSupportedIDs
    <2>1. main' \in MainLocals
      <3>1. /\ main.drv + 1 \in 1..NDrives + 1
            /\ main.docs + 1 \in 0..NDrives
        BY <1>8 DEF GotSupportedIDs, MainLocals, CountInv
      <3> HIDE DEF TypeOK
      <3>2. TypeOK
        BY DEF ServiceInv
      <3>. QED
        BY <1>8, <3>1, <3>2, GotStep
    <2>2. fdTable' \in [Fds -> FdContents]
      BY <1>8 DEF GotSupportedIDs, FdContents
    <2>. QED
      BY <1>8, <2>1, <2>2 DEF GotSupportedIDs
  <1>9. CASE SendSupportedSMART_IDsToClient
    <2>1. main' \in MainLocals
      <3>1. main.pc = "suppSend" /\ main' = [main EXCEPT !.pc = "supp", !.drv = @ + 1]
        BY <1>9 DEF SendSupportedSMART_IDsToClient
      <3>2. main.drv + 1 \in 1..NDrives + 1
        BY <3>1 DEF MainLocals, CountInv
      <3>. QED
        BY <3>1, <3>2 DEF MainLocals, MainPcs
    <2>f. main.fd \in Fds
      BY DEF MainLocals
    <2>m. SuppMessage(main.docs) \in Messages
      BY DEF SuppMessage, Messages, MainLocals
    <2>2. unread' \in [Clients -> 0..BufCap] /\ last' \in [Clients -> Messages]
      BY <1>9, <2>f, <2>m, SendType DEF SendSupportedSMART_IDsToClient
    <2>. QED
      BY <1>9, <2>1, <2>2 DEF SendSupportedSMART_IDsToClient
  <1>10. CASE SupportedIDsSent
    <2>1. main' \in MainLocals
      BY <1>10, SMTT(60) DEF SupportedIDsSent, MainLocals, MainPcs, CountInv
    <2>. QED
      BY <1>10, <2>1 DEF SupportedIDsSent
  <1>11. CASE AddClientEnter
    <2>1. main' \in MainLocals
      BY <1>11 DEF AddClientEnter, MainLocals, MainPcs, CountInv
    <2>. QED
      BY <1>11, <2>1 DEF AddClientEnter
  <1>12. CASE AddClient
    <2>1. main' \in MainLocals
      BY <1>12 DEF AddClient, MainLocals, MainPcs, CountInv
    <2>2. clientSet' \in SUBSET Fds
      BY <1>12 DEF AddClient, MainLocals
    <2>. QED
      BY <1>12, <2>1, <2>2 DEF AddClient
  <1>13. CASE AcceptLoopTest
    <2>1. main' \in MainLocals
      BY <1>13 DEF AcceptLoopTest, MainLocals, MainPcs, CountInv
    <2>. QED
      BY <1>13, <2>1 DEF AcceptLoopTest
  <1>14. CASE CloseAllEnter
    <2>1. main' \in MainLocals
      BY <1>14 DEF CloseAllEnter, MainLocals, MainPcs, CountInv
    <2>. QED
      BY <1>14, <2>1 DEF CloseAllEnter
  <1>15. CASE CloseAllClientSockets
    <2>1. main' \in MainLocals
      <3>1. PICK t \in SUBSET Fds : main' = [main EXCEPT !.todo = t]
        BY <1>15 DEF CloseAllClientSockets, MainLocals
      <3>. QED
        BY <3>1 DEF MainLocals
    <2>2. fdTable' \in [Fds -> FdContents]
      BY <1>15 DEF CloseAllClientSockets, FdContents
    <2>. QED
      BY <1>15, <2>1, <2>2 DEF CloseAllClientSockets
  <1>16. CASE CloseAllLeave
    <2>1. main' \in MainLocals
      BY <1>16 DEF CloseAllLeave, MainLocals, MainPcs, CountInv
    <2>. QED
      BY <1>16, <2>1 DEF CloseAllLeave
  <1>17. CASE MainReturns
    <2>1. main' \in MainLocals
      BY <1>17 DEF MainReturns, MainLocals, MainPcs, CountInv
    <2>. QED
      BY <1>17, <2>1 DEF MainReturns
  <1>18. CASE OpenDeviceToRead
    <2>1. upd' \in UpdLocals
      BY <1>18 DEF OpenDeviceToRead, LowestFree, FreeFds, UpdLocals, UpdPcs, RetCodes, CountInv
    <2>2. fdTable' \in [Fds -> FdContents]
      BY <1>18 DEF OpenDeviceToRead, LowestFree, FreeFds, FdContents
    <2>. QED
      BY <1>18, <2>1, <2>2 DEF OpenDeviceToRead
  <1>19. CASE OpenDeviceToReadFails
    <2>1. upd' \in UpdLocals
      <3>1. /\ upd.drv <= NDrives
            /\ \E r \in RetCodes : upd' = [upd EXCEPT !.drv = @ + 1, !.ret = r]
        BY <1>19 DEF OpenDeviceToReadFails, RetCodes, UpdLocals
      <3>2. upd.drv + 1 \in 1..NDrives + 1
        BY <3>1 DEF UpdLocals
      <3>. QED
        BY <3>1, <3>2 DEF UpdLocals
    <2>. QED
      BY <1>19, <2>1 DEF OpenDeviceToReadFails
  <1>20. CASE DeviceRead
    <2>1. upd' \in UpdLocals
      <3>1. upd.drv <= NDrives
        BY <1>20 DEF DeviceRead, CountInv
      <3>2. PICK r \in RetCodes :
              upd' = [upd EXCEPT !.pc = "get", !.dev = 1, !.drv = @ + 1, !.ret = r]
        BY <1>20 DEF DeviceRead, RetCodes, UpdLocals
      <3>3. upd.drv + 1 \in 1..NDrives + 1
        BY <3>1 DEF UpdLocals
      <3>4. 1 \in Fds
        OBVIOUS
      <3> HIDE DEF Fds
      <3>. QED
        BY <3>2, <3>3, <3>4 DEF UpdLocals, UpdPcs
    <2>2. fdTable' \in [Fds -> FdContents]
      BY <1>20 DEF DeviceRead, FdContents
    <2>. QED
      BY <1>20, <2>1, <2>2 DEF DeviceRead
  <1>21. CASE GotSMARTvalues
    <2>1. upd' \in UpdLocals
      BY <1>21 DEF GotSMARTvalues, UpdLocals, UpdPcs, RetCodes, CountInv
    <2>. QED
      BY <1>21, <2>1 DEF GotSMARTvalues
  <1>22. CASE SendEnter
    <2>1. upd' \in UpdLocals
      BY <1>22 DEF SendEnter, UpdLocals, UpdPcs, RetCodes, CountInv
    <2>. QED
      BY <1>22, <2>1 DEF SendEnter
  <1>23. CASE SendBytesToAllClients
    <2>0. PICK f \in upd.todo, ok \in BOOLEAN :
               /\ SendBytesTo1Client(f, ValMessage(upd.drv), ok)
               /\ upd' = [upd EXCEPT !.todo = @ \ {f},
                                     !.broken = IF ok THEN @ ELSE @ \cup {f}]
      BY <1>23 DEF SendBytesToAllClients
    <2>f. f \in Fds
      BY DEF UpdLocals
    <2>m. ValMessage(upd.drv) \in Messages
      BY <1>23 DEF SendBytesToAllClients, ValMessage, Messages, CountInv, UpdLocals
    <2>1. upd' \in UpdLocals
      <3>1. PICK b \in SUBSET Fds : upd' = [upd EXCEPT !.todo = @ \ {f}, !.broken = b]
        BY <2>0, <2>f DEF UpdLocals
      <3>. QED
        BY <3>1 DEF UpdLocals
    <2>2. unread' \in [Clients -> 0..BufCap] /\ last' \in [Clients -> Messages]
      BY <2>0, <2>f, <2>m, SendType
    <2>. QED
      BY <1>23, <2>1, <2>2 DEF SendBytesToAllClients
  <1>24. CASE RemoveFileDescsOfBrokenSocketConns
    <2>1. upd' \in UpdLocals
      BY <1>24 DEF RemoveFileDescsOfBrokenSocketConns, UpdLocals, UpdPcs, RetCodes, CountInv
    <2>. QED
      BY <1>24, <2>1 DEF RemoveFileDescsOfBrokenSocketConns
  <1>25. CASE SendLeave
    <2>1. upd' \in UpdLocals
      <3>1. upd.drv <= NDrives /\ upd' = [upd EXCEPT !.pc = "enter", !.drv = @ + 1]
        BY <1>25 DEF SendLeave, CountInv
      <3>2. upd.drv + 1 \in 1..NDrives + 1
        BY <3>1 DEF UpdLocals
      <3>. QED
        BY <3>1, <3>2 DEF UpdLocals, UpdPcs
    <2>. QED
      BY <1>25, <2>1 DEF SendLeave
  <1>26. CASE BeforeWaitEnds
    <2>1. upd' \in UpdLocals
      BY <1>26 DEF BeforeWaitEnds, UpdLocals, UpdPcs, RetCodes, CountInv
    <2>. QED
      BY <1>26, <2>1 DEF BeforeWaitEnds
  <1>27. CASE WaitForSignalOrTimeout
    <2>1. upd' \in UpdLocals
      BY <1>27 DEF WaitForSignalOrTimeout, UpdLocals, UpdPcs, RetCodes, CountInv
    <2>. QED
      BY <1>27, <2>1 DEF WaitForSignalOrTimeout
  <1>28. CASE ShutdownListener
    <2>1. upd' \in UpdLocals
      BY <1>28 DEF ShutdownListener, UpdLocals, UpdPcs, RetCodes, CountInv
    <2>. QED
      BY <1>28, <2>1 DEF ShutdownListener
  <1>29. CASE AfterGetSMARTvaluesLoop
    <2>1. upd' \in UpdLocals
      BY <1>29 DEF AfterGetSMARTvaluesLoop, UpdLocals, UpdPcs, RetCodes, CountInv
    <2>2. fdTable' \in [Fds -> FdContents]
      BY <1>29 DEF AfterGetSMARTvaluesLoop, FdContents
    <2>. QED
      BY <1>29, <2>1, <2>2 DEF AfterGetSMARTvaluesLoop
  <1>30. CASE EndUpdateSMARTvaluesThread
    BY <1>30 DEF EndUpdateSMARTvaluesThread
  <1>31. CASE UNCHANGED vars
    BY <1>31 DEF vars
  <1>. QED
    BY <1>1, <1>2, <1>3, <1>4, <1>5, <1>6, <1>7, <1>8, <1>9, <1>10, <1>11, <1>12, <1>13, <1>14, <1>15, <1>16, <1>17, <1>18, <1>19, <1>20, <1>21, <1>22, <1>23, <1>24, <1>25, <1>26, <1>27, <1>28, <1>29, <1>30, <1>31
       DEF Next, MainStep, UpdStep, Terminated

(* Every step preserves the bounds of the loop counters.                   *)
LEMMA CountInvStep == ServiceInv /\ [Next]_vars => CountInv'
  <1> SUFFICES ASSUME ServiceInv, [Next]_vars PROVE CountInv'
    OBVIOUS
  <1> USE DEF ServiceInv, TypeOK, MainLocals, UpdLocals, CountInv, MainPcs, UpdPcs
  <1>1. ASSUME NEW c \in Clients, Connect(c) PROVE CountInv'
    BY <1>1 DEF Connect
  <1>2. ASSUME NEW c \in Clients, ClientRead(c) PROVE CountInv'
    BY <1>2 DEF ClientRead
  <1>3. ASSUME NEW c \in Clients, ClientClose(c) PROVE CountInv'
    BY <1>3 DEF ClientClose
  <1>4. ASSUME NEW c \in Clients, AcceptClient(c) PROVE CountInv'
    BY <1>4 DEF AcceptClient, LowestFree, FreeFds
  <1>5. CASE AcceptFails
    BY <1>5 DEF AcceptFails
  <1>6. CASE OpenDeviceForSupportedIDs
    BY <1>6 DEF OpenDeviceForSupportedIDs, LowestFree, FreeFds
  <1>7. CASE OpenDeviceFails
    BY <1>7 DEF OpenDeviceFails
  <1>8. CASE GotSupportedIDs
    <2>1. main.pc = "suppDev" /\ UNCHANGED upd
      BY <1>8 DEF GotSupportedIDs
    <2>2. main.docs < main.drv /\ main.drv <= NDrives
      BY <2>1
    <2>3. CASE main' = [main EXCEPT !.pc = "suppSend", !.dev = 1, !.docs = @ + 1]
      <3>1. main'.pc = "suppSend" /\ main'.docs = main.docs + 1 /\ main'.drv = main.drv
        BY <2>3
      <3>. QED
        BY <2>1, <2>2, <3>1
    <2>4. CASE main' = [main EXCEPT !.pc = "supp", !.dev = 1, !.drv = @ + 1]
      <3>1. main'.pc = "supp" /\ main'.docs = main.docs /\ main'.drv = main.drv + 1
        BY <2>4
      <3>. QED
        BY <2>1, <2>2, <3>1
    <2>. QED
      BY <1>8, <2>3, <2>4 DEF GotSupportedIDs
  <1>9. CASE SendSupportedSMART_IDsToClient
    <2>1. /\ main.pc = "suppSend" /\ UNCHANGED upd
          /\ main' = [main EXCEPT !.pc = "supp", !.drv = @ + 1]
      BY <1>9 DEF SendSupportedSMART_IDsToClient
    <2>2. main.docs <= main.drv /\ main.docs \in Int /\ main.drv \in Int
      OBVIOUS
    <2>3. main'.docs = main.docs /\ main'.drv = main.drv + 1 /\ main'.pc = "supp"
      BY <2>1
    <2>4. main'.docs < main'.drv
      BY <2>2, <2>3
    <2>. QED
      BY <2>1, <2>3, <2>4
  <1>10. CASE SupportedIDsSent
    BY <1>10 DEF SupportedIDsSent
  <1>11. CASE AddClientEnter
    BY <1>11 DEF AddClientEnter
  <1>12. CASE AddClient
    BY <1>12 DEF AddClient
  <1>13. CASE AcceptLoopTest
    BY <1>13 DEF AcceptLoopTest
  <1>14. CASE CloseAllEnter
    BY <1>14 DEF CloseAllEnter
  <1>15. CASE CloseAllClientSockets
    BY <1>15 DEF CloseAllClientSockets
  <1>16. CASE CloseAllLeave
    BY <1>16 DEF CloseAllLeave
  <1>17. CASE MainReturns
    BY <1>17 DEF MainReturns
  <1>18. CASE OpenDeviceToRead
    BY <1>18 DEF OpenDeviceToRead, LowestFree, FreeFds
  <1>19. CASE OpenDeviceToReadFails
    BY <1>19 DEF OpenDeviceToReadFails
  <1>20. CASE DeviceRead
    BY <1>20 DEF DeviceRead
  <1>21. CASE GotSMARTvalues
    BY <1>21 DEF GotSMARTvalues
  <1>22. CASE SendEnter
    BY <1>22 DEF SendEnter
  <1>23. CASE SendBytesToAllClients
    BY <1>23 DEF SendBytesToAllClients
  <1>24. CASE RemoveFileDescsOfBrokenSocketConns
    BY <1>24 DEF RemoveFileDescsOfBrokenSocketConns
  <1>25. CASE SendLeave
    BY <1>25 DEF SendLeave
  <1>26. CASE BeforeWaitEnds
    BY <1>26 DEF BeforeWaitEnds
  <1>27. CASE WaitForSignalOrTimeout
    BY <1>27 DEF WaitForSignalOrTimeout
  <1>28. CASE ShutdownListener
    BY <1>28 DEF ShutdownListener
  <1>29. CASE AfterGetSMARTvaluesLoop
    BY <1>29 DEF AfterGetSMARTvaluesLoop
  <1>30. CASE EndUpdateSMARTvaluesThread
    BY <1>30 DEF EndUpdateSMARTvaluesThread
  <1>31. CASE UNCHANGED vars
    BY <1>31 DEF vars
  <1>. QED
    BY <1>1, <1>2, <1>3, <1>4, <1>5, <1>6, <1>7, <1>8, <1>9, <1>10, <1>11, <1>12, <1>13, <1>14, <1>15, <1>16, <1>17, <1>18, <1>19, <1>20, <1>21, <1>22, <1>23, <1>24, <1>25, <1>26, <1>27, <1>28, <1>29, <1>30, <1>31
       DEF Next, MainStep, UpdStep, Terminated

(* Every step preserves the ownership of the critical section.             *)
LEMMA LockInvStep == ServiceInv /\ [Next]_vars => LockInv'
  <1> SUFFICES ASSUME ServiceInv, [Next]_vars PROVE LockInv'
    OBVIOUS
  <1> USE DEF ServiceInv, TypeOK, MainLocals, UpdLocals, LockInv
  <1>1. ASSUME NEW c \in Clients, Connect(c) PROVE LockInv'
    BY <1>1 DEF Connect
  <1>2. ASSUME NEW c \in Clients, ClientRead(c) PROVE LockInv'
    BY <1>2 DEF ClientRead
  <1>3. ASSUME NEW c \in Clients, ClientClose(c) PROVE LockInv'
    BY <1>3 DEF ClientClose
  <1>4. ASSUME NEW c \in Clients, AcceptClient(c) PROVE LockInv'
    BY <1>4 DEF AcceptClient, LowestFree, FreeFds
  <1>5. CASE AcceptFails
    BY <1>5 DEF AcceptFails
  <1>6. CASE OpenDeviceForSupportedIDs
    BY <1>6 DEF OpenDeviceForSupportedIDs, LowestFree, FreeFds
  <1>7. CASE OpenDeviceFails
    BY <1>7 DEF OpenDeviceFails
  <1>8. CASE GotSupportedIDs
    BY <1>8 DEF GotSupportedIDs
  <1>9. CASE SendSupportedSMART_IDsToClient
    BY <1>9 DEF SendSupportedSMART_IDsToClient
  <1>10. CASE SupportedIDsSent
    BY <1>10 DEF SupportedIDsSent
  <1>11. CASE AddClientEnter
    BY <1>11 DEF AddClientEnter
  <1>12. CASE AddClient
    BY <1>12 DEF AddClient
  <1>13. CASE AcceptLoopTest
    BY <1>13 DEF AcceptLoopTest
  <1>14. CASE CloseAllEnter
    BY <1>14 DEF CloseAllEnter
  <1>15. CASE CloseAllClientSockets
    BY <1>15 DEF CloseAllClientSockets
  <1>16. CASE CloseAllLeave
    BY <1>16 DEF CloseAllLeave
  <1>17. CASE MainReturns
    BY <1>17 DEF MainReturns
  <1>18. CASE OpenDeviceToRead
    BY <1>18 DEF OpenDeviceToRead, LowestFree, FreeFds
  <1>19. CASE OpenDeviceToReadFails
    BY <1>19 DEF OpenDeviceToReadFails
  <1>20. CASE DeviceRead
    BY <1>20 DEF DeviceRead
  <1>21. CASE GotSMARTvalues
    BY <1>21 DEF GotSMARTvalues
  <1>22. CASE SendEnter
    BY <1>22 DEF SendEnter
  <1>23. CASE SendBytesToAllClients
    BY <1>23 DEF SendBytesToAllClients
  <1>24. CASE RemoveFileDescsOfBrokenSocketConns
    BY <1>24 DEF RemoveFileDescsOfBrokenSocketConns
  <1>25. CASE SendLeave
    BY <1>25 DEF SendLeave
  <1>26. CASE BeforeWaitEnds
    BY <1>26 DEF BeforeWaitEnds
  <1>27. CASE WaitForSignalOrTimeout
    BY <1>27 DEF WaitForSignalOrTimeout
  <1>28. CASE ShutdownListener
    BY <1>28 DEF ShutdownListener
  <1>29. CASE AfterGetSMARTvaluesLoop
    BY <1>29 DEF AfterGetSMARTvaluesLoop
  <1>30. CASE EndUpdateSMARTvaluesThread
    BY <1>30 DEF EndUpdateSMARTvaluesThread
  <1>31. CASE UNCHANGED vars
    BY <1>31 DEF vars
  <1>. QED
    BY <1>1, <1>2, <1>3, <1>4, <1>5, <1>6, <1>7, <1>8, <1>9, <1>10, <1>11, <1>12, <1>13, <1>14, <1>15, <1>16, <1>17, <1>18, <1>19, <1>20, <1>21, <1>22, <1>23, <1>24, <1>25, <1>26, <1>27, <1>28, <1>29, <1>30, <1>31
       DEF Next, MainStep, UpdStep, Terminated

(* Every step preserves the ownership of the descriptor numbers.           *)
LEMMA OwnerInvStep == ServiceInv /\ [Next]_vars => OwnerInv'
  <1> SUFFICES ASSUME ServiceInv, [Next]_vars PROVE OwnerInv'
    OBVIOUS
  <1> USE DEF ServiceInv, TypeOK, MainLocals, UpdLocals, OwnerInv, FdContents
  <1>1. ASSUME NEW c \in Clients, Connect(c) PROVE OwnerInv'
    BY <1>1 DEF Connect
  <1>2. ASSUME NEW c \in Clients, ClientRead(c) PROVE OwnerInv'
    BY <1>2 DEF ClientRead
  <1>3. ASSUME NEW c \in Clients, ClientClose(c) PROVE OwnerInv'
    BY <1>3 DEF ClientClose
  <1>4. ASSUME NEW c \in Clients, AcceptClient(c) PROVE OwnerInv'
    BY <1>4 DEF AcceptClient, LowestFree, FreeFds
  <1>5. CASE AcceptFails
    BY <1>5 DEF AcceptFails
  <1>6. CASE OpenDeviceForSupportedIDs
    BY <1>6 DEF OpenDeviceForSupportedIDs, LowestFree, FreeFds
  <1>7. CASE OpenDeviceFails
    BY <1>7 DEF OpenDeviceFails
  <1>8. CASE GotSupportedIDs
    <2>1. /\ main.pc = "suppDev" /\ fdTable' = [fdTable EXCEPT ![main.dev] = Free]
          /\ main'.pc \in {"suppSend", "supp"} /\ main'.fd = main.fd
          /\ main'.todo = main.todo
      <3> HIDE DEF TypeOK
      <3>1. TypeOK
        BY DEF ServiceInv
      <3>. QED
        BY <1>8, <3>1, GotStep
    <2>. QED
      BY <1>8, <2>1 DEF GotSupportedIDs
  <1>9. CASE SendSupportedSMART_IDsToClient
    BY <1>9 DEF SendSupportedSMART_IDsToClient
  <1>10. CASE SupportedIDsSent
    BY <1>10 DEF SupportedIDsSent
  <1>11. CASE AddClientEnter
    BY <1>11 DEF AddClientEnter
  <1>12. CASE AddClient
    BY <1>12 DEF AddClient
  <1>13. CASE AcceptLoopTest
    BY <1>13 DEF AcceptLoopTest
  <1>14. CASE CloseAllEnter
    <2>1. \A f \in clientSet : fdTable[f] \in Clients
      BY <1>14 DEF CloseAllEnter, RegisteredInv
    <2>2. /\ main.pc = "closeEnter" /\ main'.pc = "close" /\ main'.todo = clientSet
          /\ UNCHANGED <<fdTable, upd>>
      BY <1>14 DEF CloseAllEnter
    <2>. QED
      BY <2>1, <2>2
  <1>15. CASE CloseAllClientSockets
    BY <1>15 DEF CloseAllClientSockets
  <1>16. CASE CloseAllLeave
    BY <1>16 DEF CloseAllLeave
  <1>17. CASE MainReturns
    BY <1>17 DEF MainReturns
  <1>18. CASE OpenDeviceToRead
    BY <1>18 DEF OpenDeviceToRead, LowestFree, FreeFds
  <1>19. CASE OpenDeviceToReadFails
    BY <1>19 DEF OpenDeviceToReadFails
  <1>20. CASE DeviceRead
    BY <1>20 DEF DeviceRead
  <1>21. CASE GotSMARTvalues
    BY <1>21 DEF GotSMARTvalues
  <1>22. CASE SendEnter
    BY <1>22 DEF SendEnter
  <1>23. CASE SendBytesToAllClients
    BY <1>23 DEF SendBytesToAllClients
  <1>24. CASE RemoveFileDescsOfBrokenSocketConns
    BY <1>24 DEF RemoveFileDescsOfBrokenSocketConns
  <1>25. CASE SendLeave
    BY <1>25 DEF SendLeave
  <1>26. CASE BeforeWaitEnds
    BY <1>26 DEF BeforeWaitEnds
  <1>27. CASE WaitForSignalOrTimeout
    BY <1>27 DEF WaitForSignalOrTimeout
  <1>28. CASE ShutdownListener
    BY <1>28 DEF ShutdownListener
  <1>29. CASE AfterGetSMARTvaluesLoop
    BY <1>29 DEF AfterGetSMARTvaluesLoop
  <1>30. CASE EndUpdateSMARTvaluesThread
    BY <1>30 DEF EndUpdateSMARTvaluesThread
  <1>31. CASE UNCHANGED vars
    BY <1>31 DEF vars
  <1>. QED
    BY <1>1, <1>2, <1>3, <1>4, <1>5, <1>6, <1>7, <1>8, <1>9, <1>10, <1>11, <1>12, <1>13, <1>14, <1>15, <1>16, <1>17, <1>18, <1>19, <1>20, <1>21, <1>22, <1>23, <1>24, <1>25, <1>26, <1>27, <1>28, <1>29, <1>30, <1>31
       DEF Next, MainStep, UpdStep, Terminated

(* Every step keeps the registered numbers connections.                    *)
LEMMA RegisteredInvStep == ServiceInv /\ [Next]_vars => RegisteredInv'
  <1> SUFFICES ASSUME ServiceInv, [Next]_vars PROVE RegisteredInv'
    OBVIOUS
  <1> USE DEF ServiceInv, TypeOK, MainLocals, UpdLocals, RegisteredInv, OwnerInv, FdContents, LockInv
  <1>1. ASSUME NEW c \in Clients, Connect(c) PROVE RegisteredInv'
    BY <1>1 DEF Connect
  <1>2. ASSUME NEW c \in Clients, ClientRead(c) PROVE RegisteredInv'
    BY <1>2 DEF ClientRead
  <1>3. ASSUME NEW c \in Clients, ClientClose(c) PROVE RegisteredInv'
    BY <1>3 DEF ClientClose
  <1>4. ASSUME NEW c \in Clients, AcceptClient(c) PROVE RegisteredInv'
    BY <1>4 DEF AcceptClient, LowestFree, FreeFds
  <1>5. CASE AcceptFails
    BY <1>5 DEF AcceptFails
  <1>6. CASE OpenDeviceForSupportedIDs
    BY <1>6 DEF OpenDeviceForSupportedIDs, LowestFree, FreeFds
  <1>7. CASE OpenDeviceFails
    BY <1>7 DEF OpenDeviceFails
  <1>8. CASE GotSupportedIDs
    <2>1. /\ main.pc = "suppDev" /\ fdTable' = [fdTable EXCEPT ![main.dev] = Free]
          /\ main'.pc \in {"suppSend", "supp"} /\ main'.fd = main.fd
          /\ main'.todo = main.todo
      <3> HIDE DEF TypeOK
      <3>1. TypeOK
        BY DEF ServiceInv
      <3>. QED
        BY <1>8, <3>1, GotStep
    <2>. QED
      BY <1>8, <2>1 DEF GotSupportedIDs
  <1>9. CASE SendSupportedSMART_IDsToClient
    BY <1>9 DEF SendSupportedSMART_IDsToClient, SendBytesTo1Client
  <1>10. CASE SupportedIDsSent
    BY <1>10 DEF SupportedIDsSent
  <1>11. CASE AddClientEnter
    BY <1>11 DEF AddClientEnter
  <1>12. CASE AddClient
    BY <1>12 DEF AddClient
  <1>13. CASE AcceptLoopTest
    BY <1>13 DEF AcceptLoopTest
  <1>14. CASE CloseAllEnter
    BY <1>14 DEF CloseAllEnter
  <1>15. CASE CloseAllClientSockets
    BY <1>15 DEF CloseAllClientSockets
  <1>16. CASE CloseAllLeave
    BY <1>16 DEF CloseAllLeave
  <1>17. CASE MainReturns
    BY <1>17 DEF MainReturns
  <1>18. CASE OpenDeviceToRead
    BY <1>18 DEF OpenDeviceToRead, LowestFree, FreeFds
  <1>19. CASE OpenDeviceToReadFails
    BY <1>19 DEF OpenDeviceToReadFails
  <1>20. CASE DeviceRead
    BY <1>20 DEF DeviceRead
  <1>21. CASE GotSMARTvalues
    BY <1>21 DEF GotSMARTvalues
  <1>22. CASE SendEnter
    <2>1. /\ upd'.pc = "send" /\ upd'.todo = clientSet
          /\ upd'.broken = {} /\ UNCHANGED <<main, fdTable, clientSet, peer, backlog>>
      BY <1>22 DEF SendEnter
    <2>. QED
      BY <2>1
  <1>23. CASE SendBytesToAllClients
    BY <1>23 DEF SendBytesToAllClients, SendBytesTo1Client
  <1>24. CASE RemoveFileDescsOfBrokenSocketConns
    BY <1>24 DEF RemoveFileDescsOfBrokenSocketConns
  <1>25. CASE SendLeave
    BY <1>25 DEF SendLeave
  <1>26. CASE BeforeWaitEnds
    BY <1>26 DEF BeforeWaitEnds
  <1>27. CASE WaitForSignalOrTimeout
    BY <1>27 DEF WaitForSignalOrTimeout
  <1>28. CASE ShutdownListener
    BY <1>28 DEF ShutdownListener
  <1>29. CASE AfterGetSMARTvaluesLoop
    BY <1>29 DEF AfterGetSMARTvaluesLoop
  <1>30. CASE EndUpdateSMARTvaluesThread
    BY <1>30 DEF EndUpdateSMARTvaluesThread
  <1>31. CASE UNCHANGED vars
    BY <1>31 DEF vars
  <1>. QED
    BY <1>1, <1>2, <1>3, <1>4, <1>5, <1>6, <1>7, <1>8, <1>9, <1>10, <1>11, <1>12, <1>13, <1>14, <1>15, <1>16, <1>17, <1>18, <1>19, <1>20, <1>21, <1>22, <1>23, <1>24, <1>25, <1>26, <1>27, <1>28, <1>29, <1>30, <1>31
       DEF Next, MainStep, UpdStep, Terminated

(* No step loses a live client.                                            *)
LEMMA NoLiveClientLostStep == ServiceInv /\ [Next]_vars => NoLiveClientLost'
  <1> SUFFICES ASSUME ServiceInv, [Next]_vars PROVE NoLiveClientLost'
    OBVIOUS
  <1> USE DEF ServiceInv, TypeOK, MainLocals, UpdLocals, NoLiveClientLost, RegisteredInv, OwnerInv, FdContents, LockInv
  <1>1. ASSUME NEW c \in Clients, Connect(c) PROVE NoLiveClientLost'
    BY <1>1 DEF Connect
  <1>2. ASSUME NEW c \in Clients, ClientRead(c) PROVE NoLiveClientLost'
    BY <1>2 DEF ClientRead
  <1>3. ASSUME NEW c \in Clients, ClientClose(c) PROVE NoLiveClientLost'
    BY <1>3 DEF ClientClose
  <1>4. ASSUME NEW c \in Clients, AcceptClient(c) PROVE NoLiveClientLost'
    BY <1>4 DEF AcceptClient, LowestFree, FreeFds
  <1>5. CASE AcceptFails
    BY <1>5 DEF AcceptFails
  <1>6. CASE OpenDeviceForSupportedIDs
    BY <1>6 DEF OpenDeviceForSupportedIDs, LowestFree, FreeFds
  <1>7. CASE OpenDeviceFails
    BY <1>7 DEF OpenDeviceFails
  <1>8. CASE GotSupportedIDs
    <2>1. /\ main.pc = "suppDev" /\ fdTable' = [fdTable EXCEPT ![main.dev] = Free]
          /\ main'.pc \in {"suppSend", "supp"} /\ main'.fd = main.fd
          /\ main'.todo = main.todo
      <3> HIDE DEF TypeOK
      <3>1. TypeOK
        BY DEF ServiceInv
      <3>. QED
        BY <1>8, <3>1, GotStep
    <2>. QED
      BY <1>8, <2>1 DEF GotSupportedIDs
  <1>9. CASE SendSupportedSMART_IDsToClient
    BY <1>9 DEF SendSupportedSMART_IDsToClient, SendBytesTo1Client
  <1>10. CASE SupportedIDsSent
    BY <1>10 DEF SupportedIDsSent
  <1>11. CASE AddClientEnter
    BY <1>11 DEF AddClientEnter
  <1>12. CASE AddClient
    BY <1>12 DEF AddClient
  <1>13. CASE AcceptLoopTest
    BY <1>13 DEF AcceptLoopTest
  <1>14. CASE CloseAllEnter
    BY <1>14 DEF CloseAllEnter
  <1>15. CASE CloseAllClientSockets
    BY <1>15 DEF CloseAllClientSockets
  <1>16. CASE CloseAllLeave
    BY <1>16 DEF CloseAllLeave
  <1>17. CASE MainReturns
    BY <1>17 DEF MainReturns
  <1>18. CASE OpenDeviceToRead
    BY <1>18 DEF OpenDeviceToRead, LowestFree, FreeFds
  <1>19. CASE OpenDeviceToReadFails
    BY <1>19 DEF OpenDeviceToReadFails
  <1>20. CASE DeviceRead
    BY <1>20 DEF DeviceRead
  <1>21. CASE GotSMARTvalues
    BY <1>21 DEF GotSMARTvalues
  <1>22. CASE SendEnter
    BY <1>22 DEF SendEnter
  <1>23. CASE SendBytesToAllClients
    BY <1>23 DEF SendBytesToAllClients, SendBytesTo1Client
  <1>24. CASE RemoveFileDescsOfBrokenSocketConns
    BY <1>24 DEF RemoveFileDescsOfBrokenSocketConns
  <1>25. CASE SendLeave
    BY <1>25 DEF SendLeave
  <1>26. CASE BeforeWaitEnds
    BY <1>26 DEF BeforeWaitEnds
  <1>27. CASE WaitForSignalOrTimeout
    BY <1>27 DEF WaitForSignalOrTimeout
  <1>28. CASE ShutdownListener
    BY <1>28 DEF ShutdownListener
  <1>29. CASE AfterGetSMARTvaluesLoop
    BY <1>29 DEF AfterGetSMARTvaluesLoop
  <1>30. CASE EndUpdateSMARTvaluesThread
    BY <1>30 DEF EndUpdateSMARTvaluesThread
  <1>31. CASE UNCHANGED vars
    BY <1>31 DEF vars
  <1>. QED
    BY <1>1, <1>2, <1>3, <1>4, <1>5, <1>6, <1>7, <1>8, <1>9, <1>10, <1>11, <1>12, <1>13, <1>14, <1>15, <1>16, <1>17, <1>18, <1>19, <1>20, <1>21, <1>22, <1>23, <1>24, <1>25, <1>26, <1>27, <1>28, <1>29, <1>30, <1>31
       DEF Next, MainStep, UpdStep, Terminated

(* The inductive invariant: types, ownership of the critical section and of *)
(* the descriptor numbers, registered numbers are connections.             *)
THEOREM ServiceInvariance == Spec => []ServiceInv
  <1>1. Init => ServiceInv
    BY ServiceInit
  <1>2. ServiceInv /\ [Next]_vars => ServiceInv'
    BY TypeOKStep, CountInvStep, LockInvStep, OwnerInvStep, RegisteredInvStep,
       NoLiveClientLostStep
       DEF ServiceInv
  <1>. QED
    BY <1>1, <1>2, PTL DEF Spec

(* The update thread never writes values to a device.                      *)
THEOREM NoDeviceWrite == Spec => []WritesReachNoDevice
  <1>1. ServiceInv => WritesReachNoDevice
    BY DEF ServiceInv, TypeOK, OwnerInv, RegisteredInv, WritesReachNoDevice, UpdLocals
  <1>. QED
    BY <1>1, ServiceInvariance, PTL

(* A connection the service forgets is closed by its client.               *)
THEOREM LiveClientsKept == Spec => []NoLiveClientLost
  <1>1. ServiceInv => NoLiveClientLost
    BY DEF ServiceInv
  <1>. QED
    BY <1>1, ServiceInvariance, PTL

(* Neither thread modifies the set of clients while the other iterates.    *)
THEOREM IteratorsStayValid == Spec => SetStableWhileIterated
  <1> DEFINE Stable ==
        /\ main.pc = "close" => clientSet' = clientSet
        /\ upd.pc = "send" /\ clientSet' # clientSet =>
             upd.todo = {} /\ upd'.pc = "leave"
  <1>1. ServiceInv /\ [Next]_vars => [Stable]_vars
    <2> SUFFICES ASSUME ServiceInv, Next PROVE Stable
      OBVIOUS
    <2> USE DEF ServiceInv, LockInv, TypeOK
    <2>1. CASE AddClient
      BY <2>1 DEF AddClient
    <2>2. CASE RemoveFileDescsOfBrokenSocketConns
      BY <2>2 DEF RemoveFileDescsOfBrokenSocketConns
    <2>3. CASE clientSet' = clientSet
      BY <2>3
    <2>. QED
      BY <2>1, <2>2, <2>3 DEF Next, MainStep, UpdStep, Terminated, vars, Connect, ClientRead,
        ClientClose, AcceptClient, AcceptFails, OpenDeviceForSupportedIDs, OpenDeviceFails, GotSupportedIDs, SendSupportedSMART_IDsToClient, SupportedIDsSent, AddClientEnter, AcceptLoopTest, CloseAllEnter, CloseAllClientSockets, CloseAllLeave, MainReturns, OpenDeviceToRead, OpenDeviceToReadFails, DeviceRead, GotSMARTvalues, SendEnter, SendBytesToAllClients, SendLeave, BeforeWaitEnds, WaitForSignalOrTimeout, ShutdownListener, AfterGetSMARTvaluesLoop, EndUpdateSMARTvaluesThread
  <1>. QED
    BY <1>1, ServiceInvariance, PTL DEF Spec, SetStableWhileIterated

-----------------------------------------------------------------------------
(* The stream of messages to a client.                                     *)

(* A connection has one descriptor number from accept() on, none before;   *)
(* the one that is being greeted is not registered yet.                    *)
SingleInv ==
  /\ \A f, g \in Fds : fdTable[f] \in Clients /\ fdTable[f] = fdTable[g] => f = g
  /\ \A c \in backlog : \A f \in Fds : fdTable[f] # c
  /\ main.pc \in Greeting => main.fd \notin clientSet

(* A client that is there got the documents that main has in its stream,   *)
(* except for the one main is about to send.                               *)
GreetInv ==
  /\ \A c \in Clients : peer[c] = "idle" \/ c \in backlog => last[c] = NoMessage
  /\ main.pc \in Greeting =>
       \A c \in Clients :
         fdTable[main.fd] = c /\ peer[c] = "open" =>
           /\ last[c].kind \in {"none", "supp"}
           /\ main.pc \in {"supp", "suppDev"} => last[c].docs = main.docs
           /\ main.pc = "suppSend" => last[c].docs + 1 = main.docs

(* The drive whose values a registered client has got last: the one of the *)
(* running iteration or the one before, the last drive between two rounds. *)
LastDrive(u, f) ==
  IF u.pc = "leave" \/ (u.pc = "send" /\ f \notin u.todo) THEN u.drv
  ELSE IF u.pc \in {"enter", "send"} /\ u.drv > 1 THEN u.drv - 1 ELSE NDrives

RoundInv ==
  \A f \in clientSet : \A c \in Clients :
    fdTable[f] = c /\ peer[c] = "open" /\ last[c].kind = "val" => last[c].docs = LastDrive(upd, f)

StreamInv == SingleInv /\ GreetInv /\ RoundInv

(* accept() gives a connection that has no number a number nobody uses.    *)
LEMMA SingleInvStep == ServiceInv /\ StreamInv /\ [Next]_vars => SingleInv'
  <1> SUFFICES ASSUME ServiceInv, StreamInv, [Next]_vars PROVE SingleInv'
    OBVIOUS
  <1> USE DEF ServiceInv, TypeOK, RegisteredInv, MainLocals, StreamInv
  <1>1. ASSUME NEW c \in Clients, Connect(c) PROVE SingleInv'
    BY <1>1 DEF Connect, SingleInv
  <1>2. ASSUME NEW c \in Clients, ClientRead(c) PROVE SingleInv'
    BY <1>2 DEF ClientRead, SingleInv
  <1>3. ASSUME NEW c \in Clients, ClientClose(c) PROVE SingleInv'
    BY <1>3 DEF ClientClose, SingleInv
  <1>4. ASSUME NEW c \in Clients, AcceptClient(c) PROVE SingleInv'
    BY <1>4 DEF AcceptClient, LowestFree, FreeFds, SingleInv
  <1>5. CASE AcceptFails
    BY <1>5 DEF AcceptFails, SingleInv
  <1>6. CASE OpenDeviceForSupportedIDs
    BY <1>6 DEF OpenDeviceForSupportedIDs, LowestFree, FreeFds, SingleInv
  <1>7. CASE OpenDeviceFails
    BY <1>7 DEF OpenDeviceFails, SingleInv
  <1>8. CASE GotSupportedIDs
    <2>1. /\ fdTable' = [fdTable EXCEPT ![main.dev] = Free] /\ main'.fd = main.fd
          /\ main.pc = "suppDev"
      BY <1>8, GotStep
    <2>2. backlog' = backlog /\ clientSet' = clientSet
      BY <1>8 DEF GotSupportedIDs
    <2>. QED
      BY <2>1, <2>2 DEF SingleInv
  <1>9. CASE SendSupportedSMART_IDsToClient
    BY <1>9 DEF SendSupportedSMART_IDsToClient, SendBytesTo1Client, SingleInv
  <1>10. CASE SupportedIDsSent
    BY <1>10 DEF SupportedIDsSent, SingleInv
  <1>11. CASE AddClientEnter
    BY <1>11 DEF AddClientEnter, SingleInv
  <1>12. CASE AddClient
    BY <1>12 DEF AddClient, SingleInv
  <1>13. CASE AcceptLoopTest
    BY <1>13 DEF AcceptLoopTest, SingleInv
  <1>14. CASE CloseAllEnter
    BY <1>14 DEF CloseAllEnter, SingleInv
  <1>15. CASE CloseAllClientSockets
    BY <1>15 DEF CloseAllClientSockets, SingleInv
  <1>16. CASE CloseAllLeave
    BY <1>16 DEF CloseAllLeave, SingleInv
  <1>17. CASE MainReturns
    BY <1>17 DEF MainReturns, SingleInv
  <1>18. CASE OpenDeviceToRead
    BY <1>18 DEF OpenDeviceToRead, LowestFree, FreeFds, SingleInv
  <1>19. CASE OpenDeviceToReadFails
    BY <1>19 DEF OpenDeviceToReadFails, SingleInv
  <1>20. CASE DeviceRead
    BY <1>20 DEF DeviceRead, SingleInv
  <1>21. CASE GotSMARTvalues
    BY <1>21 DEF GotSMARTvalues, SingleInv
  <1>22. CASE SendEnter
    BY <1>22 DEF SendEnter, SingleInv
  <1>23. CASE SendBytesToAllClients
    BY <1>23 DEF SendBytesToAllClients, SendBytesTo1Client, SingleInv
  <1>24. CASE RemoveFileDescsOfBrokenSocketConns
    BY <1>24 DEF RemoveFileDescsOfBrokenSocketConns, SingleInv
  <1>25. CASE SendLeave
    BY <1>25 DEF SendLeave, SingleInv
  <1>26. CASE BeforeWaitEnds
    BY <1>26 DEF BeforeWaitEnds, SingleInv
  <1>27. CASE WaitForSignalOrTimeout
    BY <1>27 DEF WaitForSignalOrTimeout, SingleInv
  <1>28. CASE ShutdownListener
    BY <1>28 DEF ShutdownListener, SingleInv
  <1>29. CASE AfterGetSMARTvaluesLoop
    BY <1>29 DEF AfterGetSMARTvaluesLoop, SingleInv
  <1>30. CASE EndUpdateSMARTvaluesThread
    BY <1>30 DEF EndUpdateSMARTvaluesThread, SingleInv
  <1>31. CASE UNCHANGED vars
    BY <1>31 DEF vars, SingleInv
  <1>. QED
    BY <1>1, <1>2, <1>3, <1>4, <1>5, <1>6, <1>7, <1>8, <1>9, <1>10, <1>11,
       <1>12, <1>13, <1>14, <1>15, <1>16, <1>17, <1>18, <1>19, <1>20, <1>21,
       <1>22, <1>23, <1>24, <1>25, <1>26, <1>27, <1>28, <1>29, <1>30, <1>31
       DEF Next, MainStep, UpdStep, Terminated

(* What GotSupportedIDs does to the number of documents.                   *)
LEMMA GotDocs ==
  ASSUME TypeOK, GotSupportedIDs
  PROVE  \/ main'.pc = "suppSend" /\ main'.docs = main.docs + 1
         \/ main'.pc = "supp" /\ main'.docs = main.docs
  <1>1. main \in MainLocals
    BY DEF TypeOK
  <1>2. CASE main' = [main EXCEPT !.pc = "suppSend", !.dev = 1, !.docs = @ + 1]
    BY <1>1, <1>2 DEF MainLocals
  <1>3. CASE main' = [main EXCEPT !.pc = "supp", !.dev = 1, !.drv = @ + 1]
    BY <1>1, <1>3 DEF MainLocals
  <1>. QED
    BY <1>2, <1>3 DEF GotSupportedIDs

(* Only main sends to the client that it greets, one document more each    *)
(* time.                                                                   *)
LEMMA GreetInvStep == ServiceInv /\ StreamInv /\ [Next]_vars => GreetInv'
  <1> SUFFICES ASSUME ServiceInv, StreamInv, [Next]_vars PROVE GreetInv'
    OBVIOUS
  <1> USE DEF ServiceInv, TypeOK, RegisteredInv, MainLocals, StreamInv, SingleInv
  <1>1. ASSUME NEW c \in Clients, Connect(c) PROVE GreetInv'
    BY <1>1 DEF Connect, GreetInv
  <1>2. ASSUME NEW c \in Clients, ClientRead(c) PROVE GreetInv'
    BY <1>2 DEF ClientRead, GreetInv
  <1>3. ASSUME NEW c \in Clients, ClientClose(c) PROVE GreetInv'
    BY <1>3 DEF ClientClose, GreetInv
  <1>4. ASSUME NEW c \in Clients, AcceptClient(c) PROVE GreetInv'
    <2>1. PICK f \in Fds : /\ fdTable' = [fdTable EXCEPT ![f] = c]
                          /\ main' = [MainAt("supp") EXCEPT !.fd = f]
      BY <1>4 DEF AcceptClient
    <2>2. main'.pc = "supp" /\ main'.fd = f /\ main'.docs = 0 /\ fdTable'[f] = c
      BY <2>1
    <2>3. c \in backlog /\ backlog' = backlog \ {c} /\ UNCHANGED <<peer, last>>
      BY <1>4 DEF AcceptClient
    <2>4. last[c].kind = "none" /\ last[c].docs = 0
      BY <2>3 DEF GreetInv, NoMessage
    <2>. QED
      BY <2>2, <2>3, <2>4 DEF GreetInv
  <1>5. CASE AcceptFails
    BY <1>5 DEF AcceptFails, GreetInv
  <1>6. CASE OpenDeviceForSupportedIDs
    BY <1>6 DEF OpenDeviceForSupportedIDs, LowestFree, FreeFds, GreetInv
  <1>7. CASE OpenDeviceFails
    BY <1>7 DEF OpenDeviceFails, GreetInv
  <1>8. CASE GotSupportedIDs
    <2>1. /\ fdTable' = [fdTable EXCEPT ![main.dev] = Free] /\ main'.fd = main.fd
          /\ main.pc = "suppDev"
      BY <1>8, GotStep
    <2>2. UNCHANGED <<peer, backlog, last>>
      BY <1>8 DEF GotSupportedIDs
    <2>3. \/ main'.pc = "suppSend" /\ main'.docs = main.docs + 1
          \/ main'.pc = "supp" /\ main'.docs = main.docs
      BY <1>8, GotDocs
    <2>4. \A c \in Clients : fdTable'[main'.fd] = c => fdTable[main.fd] = c
      BY <2>1
    <2>. QED
      BY <2>1, <2>2, <2>3, <2>4 DEF GreetInv
  <1>9. CASE SendSupportedSMART_IDsToClient
    <2> DEFINE c == fdTable[main.fd]
    <2>1. /\ main.pc = "suppSend" /\ c \in Clients /\ UNCHANGED <<fdTable, peer, backlog>>
          /\ main' = [main EXCEPT !.pc = "supp", !.drv = @ + 1]
          /\ \E ok \in BOOLEAN : SendBytesTo1Client(main.fd, SuppMessage(main.docs), ok)
      BY <1>9 DEF SendSupportedSMART_IDsToClient
    <2>2. main'.pc = "supp" /\ main'.fd = main.fd /\ main'.docs = main.docs
      BY <2>1
    <2>3. \/ last' = [last EXCEPT ![c] = SuppMessage(main.docs)]
          \/ peer[c] = "closed" /\ last' = last
      BY <2>1 DEF SendBytesTo1Client
    <2>4. peer[c] # "idle" /\ c \notin backlog
      BY <2>1 DEF SingleInv
    <2>5. \A d \in Clients : d # c => last'[d] = last[d]
      BY <2>3
    <2>6. peer[c] = "open" => last'[c].kind = "supp" /\ last'[c].docs = main.docs
      BY <2>1, <2>3 DEF SuppMessage
    <2>. QED
      BY <2>1, <2>2, <2>4, <2>5, <2>6 DEF GreetInv
  <1>10. CASE SupportedIDsSent
    BY <1>10 DEF SupportedIDsSent, GreetInv
  <1>11. CASE AddClientEnter
    BY <1>11 DEF AddClientEnter, GreetInv
  <1>12. CASE AddClient
    BY <1>12 DEF AddClient, GreetInv
  <1>13. CASE AcceptLoopTest
    BY <1>13 DEF AcceptLoopTest, GreetInv
  <1>14. CASE CloseAllEnter
    BY <1>14 DEF CloseAllEnter, GreetInv
  <1>15. CASE CloseAllClientSockets
    BY <1>15 DEF CloseAllClientSockets, GreetInv
  <1>16. CASE CloseAllLeave
    BY <1>16 DEF CloseAllLeave, GreetInv
  <1>17. CASE MainReturns
    BY <1>17 DEF MainReturns, GreetInv
  <1>18. CASE OpenDeviceToRead
    BY <1>18 DEF OpenDeviceToRead, LowestFree, FreeFds, GreetInv
  <1>19. CASE OpenDeviceToReadFails
    BY <1>19 DEF OpenDeviceToReadFails, GreetInv
  <1>20. CASE DeviceRead
    BY <1>20 DEF DeviceRead, GreetInv
  <1>21. CASE GotSMARTvalues
    BY <1>21 DEF GotSMARTvalues, GreetInv
  <1>22. CASE SendEnter
    BY <1>22 DEF SendEnter, GreetInv
  <1>23. CASE SendBytesToAllClients
    <2>1. PICK f \in upd.todo, ok \in BOOLEAN : SendBytesTo1Client(f, ValMessage(upd.drv), ok)
      BY <1>23 DEF SendBytesToAllClients
    <2>2. upd.pc = "send" /\ UNCHANGED <<fdTable, peer, backlog, main>>
      BY <1>23 DEF SendBytesToAllClients, UpdUnchanged
    <2>3. f \in clientSet /\ f \in Fds
      BY <2>1, <2>2
    <2>4. \A d \in Clients : d # fdTable[f] => last'[d] = last[d]
      BY <2>1 DEF SendBytesTo1Client
    <2>5. fdTable[f] \in Clients => peer[fdTable[f]] # "idle" /\ fdTable[f] \notin backlog
      BY <2>3
    <2>6. main.pc \in Greeting => main.fd \in Fds /\ main.fd # f
      BY <2>3
    <2>7. main.pc \in Greeting => \A d \in Clients : fdTable[main.fd] = d => d # fdTable[f]
      BY <2>3, <2>6
    <2>. QED
      BY <2>2, <2>4, <2>5, <2>7 DEF GreetInv
  <1>24. CASE RemoveFileDescsOfBrokenSocketConns
    BY <1>24 DEF RemoveFileDescsOfBrokenSocketConns, GreetInv
  <1>25. CASE SendLeave
    BY <1>25 DEF SendLeave, GreetInv
  <1>26. CASE BeforeWaitEnds
    BY <1>26 DEF BeforeWaitEnds, GreetInv
  <1>27. CASE WaitForSignalOrTimeout
    BY <1>27 DEF WaitForSignalOrTimeout, GreetInv
  <1>28. CASE ShutdownListener
    BY <1>28 DEF ShutdownListener, GreetInv
  <1>29. CASE AfterGetSMARTvaluesLoop
    BY <1>29 DEF AfterGetSMARTvaluesLoop, GreetInv
  <1>30. CASE EndUpdateSMARTvaluesThread
    BY <1>30 DEF EndUpdateSMARTvaluesThread, GreetInv
  <1>31. CASE UNCHANGED vars
    BY <1>31 DEF vars, GreetInv
  <1>. QED
    BY <1>1, <1>2, <1>3, <1>4, <1>5, <1>6, <1>7, <1>8, <1>9, <1>10, <1>11,
       <1>12, <1>13, <1>14, <1>15, <1>16, <1>17, <1>18, <1>19, <1>20, <1>21,
       <1>22, <1>23, <1>24, <1>25, <1>26, <1>27, <1>28, <1>29, <1>30, <1>31
       DEF Next, MainStep, UpdStep, Terminated

(* A step that sends nothing leaves the last drives as they are, if they   *)
(* are the same for where the update thread then is.                       *)
LEMMA RoundFrame ==
  ASSUME RoundInv, last' = last,
         \A f \in clientSet' : LastDrive(upd', f) = LastDrive(upd, f),
         \A f \in clientSet', c \in Clients :
           fdTable'[f] = c /\ peer'[c] = "open" =>
             f \in clientSet /\ fdTable[f] = c /\ peer[c] = "open"
  PROVE  RoundInv'
  <1>1. ASSUME NEW f \in clientSet', NEW c \in Clients, fdTable'[f] = c, peer'[c] = "open",
               last'[c].kind = "val"
        PROVE  last'[c].docs = LastDrive(upd', f)
    <2>1. f \in clientSet /\ fdTable[f] = c /\ peer[c] = "open"
      BY <1>1
    <2>2. last[c].docs = LastDrive(upd, f)
      BY <1>1, <2>1 DEF RoundInv
    <2>. QED
      BY <1>1, <2>2
  <1>. QED
    BY <1>1 DEF RoundInv

(* Nothing but a send changes which drive was the last one.                *)
LEMMA LastDriveSame ==
  ASSUME ServiceInv, Next, ~SendBytesToAllClients, NEW f \in clientSet'
  PROVE  LastDrive(upd', f) = LastDrive(upd, f)
  <1>0. upd \in UpdLocals
    BY DEF ServiceInv, TypeOK
  <1>1. CASE upd' = upd
    BY <1>1
  <1>2. CASE OpenDeviceToRead \/ OpenDeviceToReadFails \/ DeviceRead
    <2>1. upd.pc \in {"get", "getDev"} /\ upd'.pc \in {"get", "getDev"}
      BY <1>0, <1>2 DEF OpenDeviceToRead, OpenDeviceToReadFails, DeviceRead, UpdLocals
    <2>. QED
      BY <2>1 DEF LastDrive
  <1>3. CASE GotSMARTvalues
    <2>1. upd.pc = "get" /\ upd'.pc \in {"enter", "shutdown"} /\ upd'.drv = 1
      BY <1>3 DEF GotSMARTvalues
    <2>. QED
      BY <2>1 DEF LastDrive
  <1>4. CASE SendEnter
    <2>1. /\ upd.pc = "enter" /\ upd'.pc = "send" /\ upd'.drv = upd.drv
          /\ upd'.todo = clientSet /\ clientSet' = clientSet
      BY <1>0, <1>4 DEF SendEnter, UpdLocals
    <2>2. f \in upd'.todo
      BY <2>1
    <2>. QED
      BY <2>1, <2>2 DEF LastDrive
  <1>5. CASE RemoveFileDescsOfBrokenSocketConns
    <2>1. upd.pc = "send" /\ upd.todo = {} /\ upd'.pc = "leave" /\ upd'.drv = upd.drv
      BY <1>0, <1>5 DEF RemoveFileDescsOfBrokenSocketConns, UpdLocals
    <2>. QED
      BY <2>1 DEF LastDrive
  <1>6. CASE SendLeave
    <2>1. /\ upd.pc = "leave" /\ upd'.pc = "enter" /\ upd'.drv = upd.drv + 1
          /\ upd.drv \in Int /\ upd.drv >= 1
      BY <1>0, <1>6 DEF SendLeave, UpdLocals
    <2>. QED
      BY <2>1 DEF LastDrive
  <1>7. CASE BeforeWaitEnds
    <2>1. /\ upd.pc = "enter" /\ upd.drv = NDrives + 1 /\ upd'.pc = "wait"
      BY <1>0, <1>7 DEF BeforeWaitEnds, UpdLocals
    <2>2. upd.drv > 1 /\ upd.drv - 1 = NDrives
      BY <2>1
    <2>. QED
      BY <2>1, <2>2 DEF LastDrive
  <1>8. CASE WaitForSignalOrTimeout \/ ShutdownListener \/ AfterGetSMARTvaluesLoop
    <2>1. /\ upd.pc \notin {"leave", "send", "enter"}
          /\ upd'.pc \notin {"leave", "send", "enter"}
      BY <1>0, <1>8 DEF WaitForSignalOrTimeout, ShutdownListener, AfterGetSMARTvaluesLoop, UpdLocals
    <2>. QED
      BY <2>1 DEF LastDrive
  <1>9. CASE MainStep \/ EndUpdateSMARTvaluesThread \/ Terminated
             \/ \E c \in Clients : Connect(c) \/ ClientRead(c) \/ ClientClose(c)
    <2>1. upd' = upd
      BY <1>9 DEF MainStep, Connect, ClientRead, ClientClose, AcceptClient, AcceptFails,
         OpenDeviceForSupportedIDs, OpenDeviceFails, GotSupportedIDs,
         SendSupportedSMART_IDsToClient, SupportedIDsSent, AddClientEnter, AddClient,
         AcceptLoopTest, CloseAllEnter, CloseAllClientSockets, CloseAllLeave, MainReturns,
         EndUpdateSMARTvaluesThread, Terminated, vars
    <2>. QED
      BY <2>1
  <1>. QED
    BY <1>2, <1>3, <1>4, <1>5, <1>6, <1>7, <1>8, <1>9 DEF Next, UpdStep

(* A connection of the set after a step was in it before, unless it is the *)
(* one that main has greeted.                                              *)
LEMMA RegisteredBefore ==
  ASSUME ServiceInv, StreamInv, Next, NEW f \in clientSet', NEW c \in Clients,
         fdTable'[f] = c, peer'[c] = "open"
  PROVE  \/ f \in clientSet /\ fdTable[f] = c /\ peer[c] = "open"
         \/ AddClient /\ f = main.fd /\ fdTable[f] = c /\ peer[c] = "open"
  <1> USE DEF ServiceInv, TypeOK
  <1>1. f \in clientSet \/ (AddClient /\ f = main.fd)
    <2>1. CASE AddClient
      BY <2>1 DEF AddClient
    <2>2. CASE RemoveFileDescsOfBrokenSocketConns
      BY <2>2 DEF RemoveFileDescsOfBrokenSocketConns
    <2>3. CASE clientSet' = clientSet
      BY <2>3
    <2>. QED
      BY <2>1, <2>2, <2>3 DEF Next, MainStep, UpdStep, Terminated, vars, Connect, ClientRead,
         ClientClose, AcceptClient, AcceptFails, OpenDeviceForSupportedIDs, OpenDeviceFails,
         GotSupportedIDs, SendSupportedSMART_IDsToClient, SupportedIDsSent, AddClientEnter,
         AcceptLoopTest, CloseAllEnter, CloseAllClientSockets, CloseAllLeave, MainReturns,
         OpenDeviceToRead, OpenDeviceToReadFails, DeviceRead, GotSMARTvalues, SendEnter,
         SendBytesToAllClients, SendLeave, BeforeWaitEnds, WaitForSignalOrTimeout,
         ShutdownListener, AfterGetSMARTvaluesLoop, EndUpdateSMARTvaluesThread
  <1>2. CASE \E d \in Clients : AcceptClient(d)
    <2>1. PICK d \in Clients : AcceptClient(d)
      BY <1>2
    <2>2. /\ main.pc = "accept" /\ clientSet' = clientSet /\ peer' = peer
          /\ \E g \in Fds : fdTable[g] = Free /\ fdTable' = [fdTable EXCEPT ![g] = d]
      BY <2>1 DEF AcceptClient, LowestFree, FreeFds
    <2>3. fdTable[f] \in Clients /\ f \in Fds
      BY <2>2 DEF RegisteredInv
    <2>. QED
      BY <2>2, <2>3
  <1>3. CASE \E d \in Clients : Connect(d)
    <2>1. PICK d \in Clients : Connect(d)
      BY <1>3
    <2>2. clientSet' = clientSet /\ fdTable' = fdTable /\ peer[d] = "idle"
          /\ peer' = [peer EXCEPT ![d] = "open"]
      BY <2>1 DEF Connect
    <2>3. c # d
      BY <2>2 DEF RegisteredInv
    <2>. QED
      BY <2>2, <2>3
  <1>4. CASE ~(\E d \in Clients : AcceptClient(d)) /\ ~(\E d \in Clients : Connect(d))
    <2>1. fdTable'[f] = fdTable[f] \/ fdTable'[f] \in {Free, DevMain, DevUpd}
      BY <1>1, <1>4 DEF Next, MainStep, UpdStep, Terminated, vars, ClientRead,
         ClientClose, AcceptFails, OpenDeviceForSupportedIDs, OpenDeviceFails, LowestFree, FreeFds,
         GotSupportedIDs, SendSupportedSMART_IDsToClient, SupportedIDsSent, AddClientEnter, AddClient,
         AcceptLoopTest, CloseAllEnter, CloseAllClientSockets, CloseAllLeave, MainReturns,
         OpenDeviceToRead, OpenDeviceToReadFails, DeviceRead, GotSMARTvalues, SendEnter,
         RemoveFileDescsOfBrokenSocketConns,
         SendBytesToAllClients, SendLeave, BeforeWaitEnds, WaitForSignalOrTimeout,
         ShutdownListener, AfterGetSMARTvaluesLoop, EndUpdateSMARTvaluesThread
    <2>2. peer' = peer \/ \E d \in Clients : peer' = [peer EXCEPT ![d] = "closed"]
      BY <1>4 DEF Next, MainStep, UpdStep, Terminated, vars, ClientRead,
         ClientClose, AcceptFails, OpenDeviceForSupportedIDs, OpenDeviceFails,
         GotSupportedIDs, SendSupportedSMART_IDsToClient, SupportedIDsSent, AddClientEnter, AddClient,
         AcceptLoopTest, CloseAllEnter, CloseAllClientSockets, CloseAllLeave, MainReturns,
         OpenDeviceToRead, OpenDeviceToReadFails, DeviceRead, GotSMARTvalues, SendEnter,
         RemoveFileDescsOfBrokenSocketConns,
         SendBytesToAllClients, SendLeave, BeforeWaitEnds, WaitForSignalOrTimeout,
         ShutdownListener, AfterGetSMARTvaluesLoop, EndUpdateSMARTvaluesThread
    <2>3. fdTable[f] = c /\ peer[c] = "open"
      BY <2>1, <2>2
    <2>. QED
      BY <1>1, <2>3
  <1>. QED
    BY <1>2, <1>3, <1>4

(* Only the two sends change what was sent last.                           *)
LEMMA OnlySendsSend ==
  ASSUME Next, ~SendBytesToAllClients, ~SendSupportedSMART_IDsToClient
  PROVE  last' = last
  BY DEF Next, MainStep, UpdStep, Terminated, vars, Connect, ClientRead,
     ClientClose, AcceptClient, AcceptFails, OpenDeviceForSupportedIDs, OpenDeviceFails,
     GotSupportedIDs, SupportedIDsSent, AddClientEnter, AddClient,
     AcceptLoopTest, CloseAllEnter, CloseAllClientSockets, CloseAllLeave, MainReturns,
     OpenDeviceToRead, OpenDeviceToReadFails, DeviceRead, GotSMARTvalues, SendEnter,
     RemoveFileDescsOfBrokenSocketConns, SendLeave, BeforeWaitEnds, WaitForSignalOrTimeout,
     ShutdownListener, AfterGetSMARTvaluesLoop, EndUpdateSMARTvaluesThread

(* What one write of a round does: the connection got the values of the    *)
(* drive, or its client has gone.                                          *)
LEMMA RoundWrite ==
  ASSUME ServiceInv, SendBytesToAllClients
  PROVE  \E f \in upd.todo :
           /\ upd.pc = "send" /\ upd'.pc = "send" /\ upd'.drv = upd.drv
           /\ f \in clientSet /\ upd'.todo = upd.todo \ {f}
           /\ UNCHANGED <<fdTable, clientSet, peer, main, backlog>>
           /\ \/ /\ fdTable[f] \in Clients /\ peer[fdTable[f]] = "open"
                 /\ last' = [last EXCEPT ![fdTable[f]] = ValMessage(upd.drv)]
              \/ (fdTable[f] \in Clients => peer[fdTable[f]] = "closed") /\ last' = last
  <1>0. upd \in UpdLocals /\ upd.pc = "send" /\ upd.todo \subseteq clientSet
    BY DEF ServiceInv, TypeOK, RegisteredInv, SendBytesToAllClients
  <1>1. PICK f \in upd.todo, ok \in BOOLEAN :
          /\ SendBytesTo1Client(f, ValMessage(upd.drv), ok)
          /\ upd' = [upd EXCEPT !.todo = @ \ {f}, !.broken = IF ok THEN @ ELSE @ \cup {f}]
    BY DEF SendBytesToAllClients
  <1>2. upd'.pc = "send" /\ upd'.drv = upd.drv /\ upd'.todo = upd.todo \ {f}
    BY <1>0, <1>1 DEF UpdLocals
  <1>3. UNCHANGED <<fdTable, clientSet, peer, main, backlog>>
    BY DEF SendBytesToAllClients
  <1>4. \/ /\ fdTable[f] \in Clients /\ peer[fdTable[f]] = "open"
           /\ last' = [last EXCEPT ![fdTable[f]] = ValMessage(upd.drv)]
        \/ (fdTable[f] \in Clients => peer[fdTable[f]] = "closed") /\ last' = last
    BY <1>1 DEF SendBytesTo1Client
  <1>. QED
    BY <1>0, <1>2, <1>3, <1>4

LEMMA RoundInvStep == ServiceInv /\ StreamInv /\ [Next]_vars => RoundInv'
  <1> SUFFICES ASSUME ServiceInv, StreamInv, [Next]_vars PROVE RoundInv'
    OBVIOUS
  <1>0. RoundInv /\ SingleInv /\ GreetInv /\ TypeOK
    BY DEF StreamInv, ServiceInv
  <1>1. CASE UNCHANGED vars
    <2>1. UNCHANGED <<last, upd, clientSet, fdTable, peer>>
      BY <1>1 DEF vars
    <2>. QED
      BY <1>0, <2>1, RoundFrame
  <1>2. CASE AddClient
    <2>1. /\ clientSet' = clientSet \cup {main.fd} /\ UNCHANGED <<last, upd, fdTable, peer>>
          /\ main.pc = "add"
      BY <1>2 DEF AddClient
    <2>2. ASSUME NEW f \in clientSet', NEW c \in Clients, fdTable'[f] = c, peer'[c] = "open",
                 last'[c].kind = "val"
          PROVE  last'[c].docs = LastDrive(upd', f)
      <3>1. fdTable[f] = c /\ peer[c] = "open" /\ last[c].kind = "val"
        BY <2>1, <2>2
      <3>2. f # main.fd
        BY <1>0, <2>1, <3>1 DEF GreetInv
      <3>3. f \in clientSet
        BY <2>1, <3>2
      <3>. QED
        BY <1>0, <2>1, <3>1, <3>3 DEF RoundInv
    <2>. QED
      BY <2>2 DEF RoundInv
  <1>3. CASE SendSupportedSMART_IDsToClient
    <2> DEFINE d == fdTable[main.fd]
    <2>1. /\ main.pc = "suppSend" /\ UNCHANGED <<clientSet, upd, fdTable, peer>>
          /\ \E ok \in BOOLEAN : SendBytesTo1Client(main.fd, SuppMessage(main.docs), ok)
      BY <1>3 DEF SendSupportedSMART_IDsToClient
    <2>2. main.fd \in Fds /\ clientSet \subseteq Fds /\ main.fd \notin clientSet
      BY <1>0, <2>1 DEF TypeOK, MainLocals, SingleInv
    <2>3. \A c \in Clients : c # d => last'[c] = last[c]
      BY <1>0, <2>1 DEF SendBytesTo1Client, TypeOK
    <2>4. ASSUME NEW f \in clientSet', NEW c \in Clients, fdTable'[f] = c, peer'[c] = "open",
                 last'[c].kind = "val"
          PROVE  last'[c].docs = LastDrive(upd', f)
      <3>1. f \in clientSet /\ fdTable[f] = c /\ peer[c] = "open"
        BY <2>1, <2>4
      <3>2. f # main.fd /\ c # d
        BY <1>0, <2>2, <3>1 DEF SingleInv
      <3>3. last'[c] = last[c]
        BY <2>3, <3>2
      <3>. QED
        BY <1>0, <2>1, <2>4, <3>1, <3>3 DEF RoundInv
    <2>. QED
      BY <2>4 DEF RoundInv
  <1>4. CASE SendBytesToAllClients
    <2>1. PICK g \in upd.todo :
           /\ upd.pc = "send" /\ upd'.pc = "send" /\ upd'.drv = upd.drv
           /\ g \in clientSet /\ upd'.todo = upd.todo \ {g}
           /\ UNCHANGED <<fdTable, clientSet, peer, main, backlog>>
           /\ \/ /\ fdTable[g] \in Clients /\ peer[fdTable[g]] = "open"
                 /\ last' = [last EXCEPT ![fdTable[g]] = ValMessage(upd.drv)]
              \/ (fdTable[g] \in Clients => peer[fdTable[g]] = "closed") /\ last' = last
      BY <1>4, RoundWrite
    <2>2. ASSUME NEW f \in clientSet', NEW c \in Clients, fdTable'[f] = c, peer'[c] = "open",
                 last'[c].kind = "val"
          PROVE  last'[c].docs = LastDrive(upd', f)
      <3>1. f \in clientSet /\ fdTable[f] = c /\ peer[c] = "open"
        BY <2>1, <2>2
      <3>2. CASE f = g
        <4>1. last' = [last EXCEPT ![c] = ValMessage(upd.drv)]
          BY <2>1, <3>1, <3>2
        <4>2. last'[c].docs = upd.drv
          BY <1>0, <4>1 DEF ValMessage, TypeOK
        <4>3. LastDrive(upd', f) = upd.drv
          BY <2>1, <3>2 DEF LastDrive
        <4>. QED
          BY <4>2, <4>3
      <3>3. CASE f # g
        <4>1. f \in Fds /\ g \in Fds
          BY <1>0, <2>1, <3>1 DEF TypeOK
        <4>2. fdTable[g] # c
          BY <1>0, <3>1, <3>3, <4>1 DEF SingleInv
        <4>3. last'[c] = last[c]
          BY <1>0, <2>1, <4>2 DEF TypeOK
        <4>4. LastDrive(upd', f) = LastDrive(upd, f)
          BY <2>1, <3>3 DEF LastDrive
        <4>. QED
          BY <1>0, <2>2, <3>1, <4>3, <4>4 DEF RoundInv
      <3>. QED
        BY <3>2, <3>3
    <2>. QED
      BY <2>2 DEF RoundInv
  <1>5. CASE Next /\ ~AddClient /\ ~SendSupportedSMART_IDsToClient /\ ~SendBytesToAllClients
    <2>1. last' = last
      BY <1>5, OnlySendsSend
    <2>2. \A f \in clientSet' : LastDrive(upd', f) = LastDrive(upd, f)
      BY <1>5, LastDriveSame
    <2>3. \A f \in clientSet', c \in Clients :
            fdTable'[f] = c /\ peer'[c] = "open" =>
              f \in clientSet /\ fdTable[f] = c /\ peer[c] = "open"
      BY <1>5, RegisteredBefore
    <2>. QED
      BY <1>0, <2>1, <2>2, <2>3, RoundFrame
  <1>. QED
    BY <1>1, <1>2, <1>3, <1>4, <1>5

(* Two threads write to the connections, yet a client first gets the       *)
(* supported IDs, one document more in each message, then the values of    *)
(* drive after drive, without a gap or a repetition and from whatever      *)
(* drive on it was registered (SendSupportedSMART_IDsToClient,             *)
(* SendBytesToAllClients): what main is greeting is not in the set yet,    *)
(* and a connection has one number only.                                   *)
THEOREM StreamInOrder == Spec => StreamOrder
  <1> DEFINE Ordered == \A c \in Clients : last'[c] # last[c] => Follows(last[c], last'[c])
  <1>1. Init => StreamInv
    <2> SUFFICES ASSUME Init PROVE StreamInv
      OBVIOUS
    <2>1. /\ main.pc = "accept" /\ clientSet = {} /\ backlog = {}
          /\ last = [c \in Clients |-> NoMessage] /\ \A f \in Fds : fdTable[f] \notin Clients
      BY DEF Init
    <2>. QED
      BY <2>1 DEF StreamInv, SingleInv, GreetInv, RoundInv
  <1>2. ServiceInv /\ StreamInv /\ [Next]_vars => StreamInv'
    BY SingleInvStep, GreetInvStep, RoundInvStep DEF StreamInv
  <1>3. ServiceInv /\ StreamInv /\ [Next]_vars => [Ordered]_last
    <2> SUFFICES ASSUME ServiceInv, StreamInv, Next, NEW c \in Clients, last'[c] # last[c]
                 PROVE  Follows(last[c], last'[c])
      BY DEF vars, net
    <2>0. TypeOK /\ CountInv /\ RoundInv /\ SingleInv /\ GreetInv
      BY DEF StreamInv, ServiceInv
    <2>1. CASE SendSupportedSMART_IDsToClient
      <3>1. /\ main.pc = "suppSend"
            /\ \E ok \in BOOLEAN : SendBytesTo1Client(main.fd, SuppMessage(main.docs), ok)
        BY <2>1 DEF SendSupportedSMART_IDsToClient
      <3>2. /\ fdTable[main.fd] = c /\ peer[c] = "open"
            /\ last' = [last EXCEPT ![c] = SuppMessage(main.docs)]
        BY <2>0, <3>1 DEF SendBytesTo1Client, TypeOK
      <3>3. last'[c].kind = "supp" /\ last'[c].docs = main.docs
        BY <2>0, <3>2 DEF SuppMessage, TypeOK
      <3>4. last[c].kind \in {"none", "supp"} /\ last[c].docs + 1 = main.docs
        BY <2>0, <3>1, <3>2 DEF GreetInv
      <3>. QED
        BY <3>3, <3>4 DEF Follows
    <2>2. CASE SendBytesToAllClients
      <3>1. PICK g \in upd.todo :
             /\ upd.pc = "send" /\ g \in clientSet
             /\ \/ /\ fdTable[g] \in Clients /\ peer[fdTable[g]] = "open"
                   /\ last' = [last EXCEPT ![fdTable[g]] = ValMessage(upd.drv)]
                \/ last' = last
        BY <2>2, RoundWrite
      <3>2. /\ fdTable[g] = c /\ peer[c] = "open"
            /\ last' = [last EXCEPT ![c] = ValMessage(upd.drv)]
        BY <2>0, <3>1 DEF TypeOK
      <3>3. last'[c].kind = "val" /\ last'[c].docs = upd.drv
        BY <2>0, <3>2 DEF ValMessage, TypeOK
      <3>4. upd.drv \in 1..NDrives /\ last[c].kind \in {"none", "supp", "val"}
        BY <2>0, <3>1 DEF CountInv, TypeOK, UpdLocals, Messages
      <3>5. ASSUME last[c].kind = "val"
            PROVE  upd.drv = (last[c].docs % NDrives) + 1
        <4>1. last[c].docs = LastDrive(upd, g)
          BY <2>0, <3>1, <3>2, <3>5 DEF RoundInv
        <4>2. CASE upd.drv = 1
          <5>1. last[c].docs = NDrives
            BY <3>1, <4>1, <4>2 DEF LastDrive
          <5>2. NDrives % NDrives = 0
            OBVIOUS
          <5>. QED
            BY <4>2, <5>1, <5>2
        <4>3. CASE upd.drv > 1
          <5>1. last[c].docs = upd.drv - 1 /\ upd.drv - 1 \in 0..NDrives - 1
            BY <3>1, <3>4, <4>1, <4>3 DEF LastDrive
          <5>2. \A n \in 0..NDrives - 1 : n % NDrives = n
            OBVIOUS
          <5>3. (upd.drv - 1) % NDrives = upd.drv - 1
            BY <5>1, <5>2
          <5>. QED
            BY <3>4, <5>1, <5>3
        <4>. QED
          BY <3>4, <4>2, <4>3
      <3>. QED
        BY <3>3, <3>4, <3>5 DEF Follows
    <2>. QED
      BY <2>1, <2>2, OnlySendsSend
  <1>. QED
    BY <1>1, <1>2, <1>3, ServiceInvariance, PTL DEF Spec, StreamOrder

=============================================================================
