---------------------- MODULE SMARTmonitorClientProofs -----------------------
(***************************************************************************)
(* At most one thread of the client reads from the connection, and a late  *)
(* update of values never turns the state of a client that shows           *)
(* "unconnected", for any number of descriptors and threads, when the      *)
(* event loop handles posted events first.                                 *)
(*                                                                         *)
(* The member GetSMARTvalsAndUpd8UIthreadID alone does not keep a second   *)
(* reader away: the event of a failed thread resets it, and that event may *)
(* be handled after the connection it is about has been replaced. What     *)
(* saves the client is that a thread which has failed closes the socket    *)
(* when it ends, and that nobody dials as long as its event waits: a       *)
(* greeting in between fails, so no reader is there when the guard is      *)
(* reset.                                                                  *)
(***************************************************************************)
EXTENDS SMARTmonitorClient, TLAPS

(***************************************************************************)
(* The inductive invariant.                                                *)
(***************************************************************************)

NoSocket == sock = None \/ conn[sock] = "free"

(* m_socketFileDesc is not open, and a greeting that is under way was not  *)
(* before either: its read fails.                                          *)
NoGreeting == NoSocket /\ (ui = "supp" => rd["ui"] \in {None, sock})

(* Nothing waits at a descriptor that is not open.                         *)
FreeEmpty == \A f \in Fds : conn[f] = "free" => ~inbuf[f]

(* The guard is set as long as somebody reads, and the state shows it.     *)
Guarded ==
  /\ UIreads \/ upd[cur] \in Reading => thrID
  /\ state = "uncnnctdToSrv" <=> ~thrID

(* Only the current thread reads, and not beside the UI thread.            *)
Alone == \A t \in Threads : upd[t] \in Reading => t = cur /\ ~UIreads

Waits(q, e) == \E i \in 1..Len(q) : q[i] = e

(* The event of a failed thread is the only one of its kind and no update  *)
(* of values comes after it.                                               *)
LastOfThread(q) ==
  \A i, j \in 1..Len(q) :
    q[i] = "uncnnctdToSrv" =>
      /\ q[j] = "uncnnctdToSrv" => i = j
      /\ i < j => q[j] # "valUpd8"

(* As long as it waits the thread has not ended and the guard is still     *)
(* set, or the thread has closed the socket and a greeting can only fail.  *)
FailurePending ==
  Waits(events, "uncnnctdToSrv") =>
    /\ ui # "vals"
    /\ \/ upd[cur] = "failed" /\ thrID /\ ui # "supp"
       \/ upd[cur] = "none" /\ NoGreeting

(* While the guard is not set, or for the next connection, no update of a  *)
(* thread that still runs is to come.                                      *)
NoLateValues == (~thrID \/ UIreads) /\ IsRunning => ~Waits(events, "valUpd8")

ClientIInv ==
  /\ TypeOK /\ FreeEmpty /\ Guarded /\ Alone
  /\ LastOfThread(events) /\ FailurePending /\ NoLateValues

(***************************************************************************)
(* The queue of events.                                                    *)
(***************************************************************************)

(* p is q with e at its end, once or once more.                            *)
Posted(q, p, e) ==
  /\ p \in Seq(Events) /\ Len(q) \in Nat /\ Len(p) \in Nat /\ Len(q) <= Len(p)
  /\ \A i \in 1..Len(q) : i \in 1..Len(p) /\ p[i] = q[i]
  /\ \A i \in 1..Len(p) : i \in 1..Len(q) \/ (i = Len(q) + 1 /\ p[i] = e)
  /\ \E i \in 1..Len(p) : p[i] = e

LEMMA PostIs ==
  ASSUME NEW q \in Seq(Events), NEW e \in Events
  PROVE  Posted(q, Post(q, e), e)
<1>1. CASE e # "connected" /\ q # <<>> /\ q[Len(q)] = e
  <2>1. Post(q, e) = q
    BY <1>1 DEF Post
  <2>2. Len(q) \in Nat /\ Len(q) \in 1..Len(q)
    BY <1>1
  <2> QED
    BY <1>1, <2>1, <2>2 DEF Posted
<1>2. CASE ~(e # "connected" /\ q # <<>> /\ q[Len(q)] = e)
  <2> DEFINE p == Append(q, e)
  <2>1. Post(q, e) = p
    BY <1>2 DEF Post
  <2>2. /\ p \in Seq(Events) /\ Len(p) = Len(q) + 1 /\ Len(q) \in Nat
        /\ \A i \in 1..Len(q) : p[i] = q[i]
        /\ p[Len(q) + 1] = e
    OBVIOUS
  <2> HIDE DEF p
  <2>3. Len(p) \in 1..Len(p) /\ p[Len(p)] = e /\ Len(p) \in Nat /\ Len(q) <= Len(p)
    BY <2>2
  <2>4. \A i \in 1..Len(q) : i \in 1..Len(p) /\ p[i] = q[i]
    BY <2>2
  <2>5. \A i \in 1..Len(p) : i \in 1..Len(q) \/ (i = Len(q) + 1 /\ p[i] = e)
    BY <2>2
  <2> QED
    BY <2>1, <2>2, <2>3, <2>4, <2>5 DEF Posted
<1> QED
  BY <1>1, <1>2

(* An event other than a failure keeps what LastOfThread says, unless it   *)
(* is an update of values that follows a failure.                          *)
LEMMA PostOther ==
  ASSUME NEW q, NEW p, NEW e, Posted(q, p, e), LastOfThread(q), e # "uncnnctdToSrv",
         e = "valUpd8" => ~Waits(q, "uncnnctdToSrv")
  PROVE  /\ LastOfThread(p)
         /\ Waits(p, "uncnnctdToSrv") => Waits(q, "uncnnctdToSrv")
         /\ e # "valUpd8" /\ Waits(p, "valUpd8") => Waits(q, "valUpd8")
<1>1. \A i \in 1..Len(p) : p[i] # e => i \in 1..Len(q) /\ p[i] = q[i]
  BY DEF Posted
<1>2. ASSUME NEW i \in 1..Len(p), NEW j \in 1..Len(p), p[i] = "uncnnctdToSrv"
      PROVE  (p[j] = "uncnnctdToSrv" => i = j) /\ (i < j => p[j] # "valUpd8")
  <2>1. i \in 1..Len(q) /\ q[i] = "uncnnctdToSrv"
    BY <1>1, <1>2
  <2>2. CASE j \in 1..Len(q)
    <3>1. p[j] = q[j]
      BY <2>2 DEF Posted
    <3> QED
      BY <2>1, <2>2, <3>1 DEF LastOfThread
  <2>3. CASE j \notin 1..Len(q)
    <3>1. p[j] = e
      BY <2>3 DEF Posted
    <3> QED
      BY <2>1, <3>1 DEF Waits
  <2> QED
    BY <2>2, <2>3
<1> QED
  BY <1>1, <1>2 DEF LastOfThread, Waits

(* The event of a thread that fails, when no other waits.                  *)
LEMMA PostFailure ==
  ASSUME NEW q, NEW p, Posted(q, p, "uncnnctdToSrv"), ~Waits(q, "uncnnctdToSrv")
  PROVE  /\ LastOfThread(p)
         /\ Waits(p, "valUpd8") => Waits(q, "valUpd8")
<1>1. \A i \in 1..Len(p) : \/ i \in 1..Len(q) /\ p[i] = q[i] /\ p[i] # "uncnnctdToSrv"
                           \/ i = Len(q) + 1 /\ p[i] = "uncnnctdToSrv"
  BY DEF Posted, Waits
<1>2. ASSUME NEW i \in 1..Len(p), NEW j \in 1..Len(p), p[i] = "uncnnctdToSrv"
      PROVE  (p[j] = "uncnnctdToSrv" => i = j) /\ (i < j => p[j] # "valUpd8")
  <2>1. i = Len(q) + 1 /\ Len(q) \in Nat /\ (j \in 1..Len(q) \/ j = Len(q) + 1)
    BY <1>1, <1>2 DEF Posted
  <2>2. p[j] = "uncnnctdToSrv" => i = j
    BY <1>1, <2>1
  <2>3. ~(i < j)
    BY <2>1
  <2> QED
    BY <2>2, <2>3
<1> QED
  BY <1>1, <1>2 DEF LastOfThread, Waits

(* Taking the first event: nothing new waits, and after a failure neither  *)
(* another one nor an update of values.                                    *)
LEMMA Dequeue ==
  ASSUME NEW q \in Seq(Events), q # <<>>, LastOfThread(q), NEW p, p = Tail(q)
  PROVE  /\ p \in Seq(Events) /\ LastOfThread(p)
         /\ \A e : Waits(p, e) => Waits(q, e)
         /\ Waits(q, Head(q))
         /\ Head(q) = "uncnnctdToSrv" => ~Waits(p, "uncnnctdToSrv") /\ ~Waits(p, "valUpd8")
<1>1. /\ p \in Seq(Events) /\ Len(p) = Len(q) - 1 /\ Len(q) \in Nat /\ 1 \in 1..Len(q)
      /\ Head(q) = q[1]
  OBVIOUS
<1>2. \A i \in 1..Len(p) : i + 1 \in 1..Len(q) /\ p[i] = q[i + 1] /\ 1 < i + 1
  BY <1>1
<1>3. LastOfThread(p)
  <2> SUFFICES ASSUME NEW i \in 1..Len(p), NEW j \in 1..Len(p), p[i] = "uncnnctdToSrv"
               PROVE  (p[j] = "uncnnctdToSrv" => i = j) /\ (i < j => p[j] # "valUpd8")
    BY DEF LastOfThread
  <2>1. /\ i + 1 \in 1..Len(q) /\ p[i] = q[i + 1] /\ j + 1 \in 1..Len(q) /\ p[j] = q[j + 1]
        /\ (i + 1 = j + 1 => i = j) /\ (i < j => i + 1 < j + 1)
    BY <1>2
  <2> QED
    BY <2>1 DEF LastOfThread
<1>4. \A e : Waits(p, e) => Waits(q, e)
  BY <1>2 DEF Waits
<1>5. Waits(q, Head(q))
  BY <1>1 DEF Waits
<1>6. ASSUME q[1] = "uncnnctdToSrv", NEW i \in 1..Len(p)
      PROVE  p[i] # "uncnnctdToSrv" /\ p[i] # "valUpd8"
  <2>1. i + 1 \in 1..Len(q) /\ p[i] = q[i + 1] /\ 1 < i + 1 /\ i + 1 # 1
    BY <1>2
  <2> QED
    BY <1>1, <1>6, <2>1 DEF LastOfThread
<1> QED
  BY <1>1, <1>3, <1>4, <1>5, <1>6 DEF Waits
(***************************************************************************)
(* Types, and what waits at descriptors.                                   *)
(***************************************************************************)

RdTypes == Fds \cup {None, Orphan, LostOrphan}

LEMMA CurIsThread == cur \in Threads
<1>1. \E t \in Threads : TRUE
  BY ClientAssumption
<1> QED
  BY <1>1 DEF cur

(* The special values are no descriptors.                                  *)
LEMMA NoDescriptor ==
  /\ None \notin Fds /\ Orphan \notin Fds /\ LostOrphan \notin Fds
  /\ Orphan # None /\ LostOrphan # None
  BY ClientAssumption DEF Fds, None, Orphan, LostOrphan

LEMMA RdSet ==
  ASSUME TypeOK, NEW x \in Readers, NEW c \in RdTypes
  PROVE  [rd EXCEPT ![x] = c] \in [Readers -> RdTypes]
<1>1. rd \in [Readers -> RdTypes]
  BY DEF TypeOK, RdTypes
<1> QED
  BY <1>1

(* Reads that go on when a descriptor is closed.                           *)
LEMMA Abandons ==
  ASSUME NEW r \in [Readers -> RdTypes], NEW f, Abandon(f, r)
  PROVE  /\ rd' \in [Readers -> RdTypes]
         /\ \A x \in Readers : rd'[x] = r[x] \/ (r[x] = f /\ f # None /\ rd'[x] = Abandoned(f))
<1>1. PICK S \in SUBSET {x \in Readers : f # None /\ r[x] = f} :
        rd' = [x \in Readers |-> IF x \in S THEN Abandoned(f) ELSE r[x]]
  BY DEF Abandon
<1>2. Abandoned(f) \in RdTypes
  BY DEF Abandoned, RdTypes
<1>3. rd' \in [Readers -> RdTypes]
  BY <1>1, <1>2
<1>4. ASSUME NEW x \in Readers
      PROVE  rd'[x] = r[x] \/ (r[x] = f /\ f # None /\ rd'[x] = Abandoned(f))
  BY <1>1, <1>4
<1> QED
  BY <1>3, <1>4

(* close() of any number.                                                  *)
LEMMA Closed ==
  ASSUME TypeOK, FreeEmpty, NEW r \in [Readers -> RdTypes], NEW f, CloseAfter(f, r)
  PROVE  /\ rd' \in [Readers -> RdTypes]
         /\ conn' \in [Fds -> ConnStates] /\ inbuf' \in [Fds -> BOOLEAN] /\ FreeEmpty'
         /\ f \in Fds => conn'[f] = "free"
         /\ \A g \in Fds : conn[g] = "free" => conn'[g] = "free"
<1>1. conn' = [g \in Fds |-> IF g = f THEN "free" ELSE conn[g]]
  BY DEF CloseAfter
<1>2. inbuf' = [g \in Fds |-> IF g = f THEN FALSE ELSE inbuf[g]]
  BY DEF CloseAfter
<1>3. conn' \in [Fds -> ConnStates] /\ inbuf' \in [Fds -> BOOLEAN]
  BY <1>1, <1>2 DEF TypeOK, ConnStates
<1>4. FreeEmpty'
  BY <1>1, <1>2 DEF FreeEmpty
<1>5. rd' \in [Readers -> RdTypes]
  BY Abandons DEF CloseAfter
<1> QED
  BY <1>1, <1>3, <1>4, <1>5

LEMMA ClosedNow ==
  ASSUME TypeOK, FreeEmpty, NEW f, Close(f)
  PROVE  /\ rd' \in [Readers -> RdTypes]
         /\ conn' \in [Fds -> ConnStates] /\ inbuf' \in [Fds -> BOOLEAN] /\ FreeEmpty'
         /\ f \in Fds => conn'[f] = "free"
         /\ \A g \in Fds : conn[g] = "free" => conn'[g] = "free"
<1>1. rd \in [Readers -> RdTypes] /\ CloseAfter(f, rd)
  BY DEF TypeOK, RdTypes, Close
<1> QED
  BY <1>1, Closed

(* The place of an update thread after a step of it.                       *)
LEMMA UpdSet ==
  ASSUME TypeOK, NEW t \in Threads, NEW pc \in UpdPcs
  PROVE  LET u == [upd EXCEPT ![t] = pc] IN
         /\ u \in [Threads -> UpdPcs] /\ u[t] = pc
         /\ \A s \in Threads : s # t => u[s] = upd[s]
  BY DEF TypeOK

(* Posting keeps the type of the queue.                                    *)
LEMMA PostType ==
  ASSUME TypeOK, NEW e \in Events
  PROVE  Post(events, e) \in Seq(Events)
  BY PostIs DEF TypeOK, Posted

LEMMA NetTypes ==
  ASSUME TypeOK, FreeEmpty, NetStep
  PROVE  TypeOK' /\ FreeEmpty'
<1>1. SUFFICES ASSUME NEW f \in Fds, ServerSends(f) \/ ServerCloses(f) \/ ServerLost(f)
      PROVE  TypeOK' /\ FreeEmpty'
  <2>1. ASSUME NEW x \in Readers, ServerOfOrphanLost(x)
        PROVE  TypeOK' /\ FreeEmpty'
    <3>1. rd' \in [Readers -> RdTypes]
      BY <2>1, RdSet DEF ServerOfOrphanLost, RdTypes
    <3> QED
      BY <2>1, <3>1 DEF ServerOfOrphanLost, TypeOK, FreeEmpty, dlg, RdTypes
  <2> QED
    BY <2>1 DEF NetStep
<1>2. CASE ServerSends(f)
  <2>1. inbuf' = [inbuf EXCEPT ![f] = TRUE] /\ conn' = conn /\ conn[f] = "up"
    BY <1>2 DEF ServerSends
  <2>2. inbuf' \in [Fds -> BOOLEAN] /\ FreeEmpty'
    BY <2>1 DEF TypeOK, FreeEmpty
  <2> QED
    BY <1>2, <2>1, <2>2 DEF ServerSends, TypeOK, dlg
<1>3. CASE ServerCloses(f) \/ ServerLost(f)
  <2>1. /\ conn[f] = "up" /\ inbuf' = inbuf
        /\ conn' = [conn EXCEPT ![f] = "eof"] \/ conn' = [conn EXCEPT ![f] = "lost"]
    BY <1>3 DEF ServerCloses, ServerLost
  <2>2. conn' \in [Fds -> ConnStates] /\ FreeEmpty'
    BY <2>1 DEF TypeOK, FreeEmpty, ConnStates
  <2> QED
    BY <1>3, <2>1, <2>2 DEF ServerCloses, ServerLost, TypeOK, dlg
<1> QED
  BY <1>1, <1>2, <1>3

LEMMA DialTypes ==
  ASSUME TypeOK, FreeEmpty, DialStep
  PROVE  TypeOK' /\ FreeEmpty'
<1>1. PICK f \in Fds :
        SocketConnected(f) \/ SocketConnectFails(f) \/ SocketConnectThreadFuncCloses(f)
  BY DEF DialStep
<1>2. CASE SocketConnected(f)
  <2>1. /\ conn' = [conn EXCEPT ![f] = "up"] /\ inbuf' = inbuf
        /\ events' = Post(events, "connected")
        /\ dialing' = [dialing EXCEPT ![f] = FALSE]
    BY <1>2 DEF SocketConnected
  <2>2. conn' \in [Fds -> ConnStates] /\ FreeEmpty' /\ dialing' \in [Fds -> BOOLEAN]
    BY <2>1 DEF TypeOK, FreeEmpty, ConnStates
  <2>3. events' \in Seq(Events)
    BY <2>1, PostType DEF Events
  <2> QED
    BY <1>2, <2>1, <2>2, <2>3 DEF SocketConnected, TypeOK, dlg
<1>3. CASE SocketConnectFails(f)
  <2>1. rd' \in [Readers -> RdTypes] /\ conn' \in [Fds -> ConnStates] /\ inbuf' \in [Fds -> BOOLEAN] /\ FreeEmpty'
    BY <1>3, ClosedNow DEF SocketConnectFails
  <2>2. dialing' \in [Fds -> BOOLEAN] /\ closing' \in [Fds -> BOOLEAN]
    BY <1>3 DEF SocketConnectFails, TypeOK, RdTypes
  <2> QED
    BY <1>3, <2>1, <2>2 DEF SocketConnectFails, TypeOK, RdTypes, dlg
<1>4. CASE SocketConnectThreadFuncCloses(f)
  <2>1. rd' \in [Readers -> RdTypes] /\ conn' \in [Fds -> ConnStates] /\ inbuf' \in [Fds -> BOOLEAN] /\ FreeEmpty'
    BY <1>4, ClosedNow DEF SocketConnectThreadFuncCloses
  <2>2. closing' \in [Fds -> BOOLEAN]
    BY <1>4 DEF SocketConnectThreadFuncCloses, TypeOK, RdTypes
  <2> QED
    BY <1>4, <2>1, <2>2 DEF SocketConnectThreadFuncCloses, TypeOK, RdTypes, dlg
<1> QED
  BY <1>1, <1>2, <1>3, <1>4

LEMMA UserTypes ==
  ASSUME TypeOK, FreeEmpty, UserStep
  PROVE  TypeOK' /\ FreeEmpty'
<1>1. CASE ShwCnnctToSrvrDlg
  BY <1>1 DEF ShwCnnctToSrvrDlg, TypeOK, FreeEmpty
<1>2. CASE CancelCnnctn
  <2>1. rd' \in [Readers -> RdTypes] /\ conn' \in [Fds -> ConnStates] /\ inbuf' \in [Fds -> BOOLEAN] /\ FreeEmpty'
    BY <1>2, ClosedNow DEF CancelCnnctn
  <2> QED
    BY <1>2, <2>1 DEF CancelCnnctn, TypeOK, RdTypes
<1>3. CASE OnConnect
  <2>0. UNCHANGED <<sUpdate, thrID, state, dialog, dlgFd, closing, events, ui, upd>>
    BY <1>3 DEF OnConnect
  <2>1. CASE timer' = "stopped" /\ Close(dlgFd) /\ UNCHANGED <<sock, dialing>>
    <3>1. rd' \in [Readers -> RdTypes] /\ conn' \in [Fds -> ConnStates] /\ inbuf' \in [Fds -> BOOLEAN] /\ FreeEmpty'
      BY <2>1, ClosedNow
    <3> QED
      BY <2>0, <2>1, <3>1 DEF TypeOK, RdTypes
  <2>2. ASSUME NEW f \in Fds, timer' = "off", sock' = f,
               conn' = [g \in Fds |-> IF g = f THEN "syn" ELSE IF g = dlgFd THEN "free" ELSE conn[g]],
               inbuf' = [g \in Fds |-> IF g \in {f, dlgFd} THEN FALSE ELSE inbuf[g]],
               dialing' = [dialing EXCEPT ![f] = TRUE], Abandon(dlgFd, rd)
        PROVE  TypeOK' /\ FreeEmpty'
    <3>1. conn' \in [Fds -> ConnStates] /\ inbuf' \in [Fds -> BOOLEAN] /\ dialing' \in [Fds -> BOOLEAN]
      BY <2>2 DEF TypeOK, ConnStates
    <3>2. FreeEmpty'
      BY <2>2 DEF FreeEmpty
    <3>3. rd' \in [Readers -> RdTypes]
      BY <2>2, Abandons DEF TypeOK, RdTypes
    <3> QED
      BY <2>0, <2>2, <3>1, <3>2, <3>3 DEF TypeOK, RdTypes
  <2> QED
    BY <1>3, <2>1, <2>2 DEF OnConnect
<1>5. CASE OnCloseWindow
  BY <1>5 DEF OnCloseWindow, TypeOK, FreeEmpty
<1>4. CASE EndUpdateUIthread
  BY <1>4 DEF EndUpdateUIthread, TypeOK, FreeEmpty, dlg
<1> QED
  BY <1>1, <1>2, <1>3, <1>4, <1>5 DEF UserStep

(* Handling an event takes it from the queue.                              *)
LEMMA HandleType ==
  ASSUME TypeOK, NEW e, Handle(e)
  PROVE  events' \in Seq(Events)
  BY DEF TypeOK, Handle

LEMMA UITypes ==
  ASSUME TypeOK, FreeEmpty, UIStep
  PROVE  TypeOK' /\ FreeEmpty'
<1>0. /\ "ui" \in Readers /\ None \in RdTypes /\ sock \in RdTypes
      /\ rd \in [Readers -> RdTypes]
  BY DEF Readers, RdTypes, TypeOK
<1>1. CASE OnCnnctnAttmptTimer
  <2>1. CASE UNCHANGED <<sock, conn, dialing>>
    BY <1>1, <2>1 DEF OnCnnctnAttmptTimer, TypeOK, FreeEmpty
  <2>2. ASSUME NEW f \in Fds, sock' = f, conn' = [conn EXCEPT ![f] = "syn"],
               dialing' = [dialing EXCEPT ![f] = TRUE]
        PROVE  TypeOK' /\ FreeEmpty'
    <3>1. inbuf' = inbuf
      BY <1>1 DEF OnCnnctnAttmptTimer
    <3>2. conn' \in [Fds -> ConnStates] /\ dialing' \in [Fds -> BOOLEAN]
      BY <2>2 DEF TypeOK, ConnStates
    <3>3. FreeEmpty'
      BY <2>2, <3>1 DEF TypeOK, FreeEmpty
    <3> QED
      BY <1>1, <2>2, <3>2, <3>3 DEF OnCnnctnAttmptTimer, TypeOK
  <2> QED
    BY <1>1, <2>1, <2>2 DEF OnCnnctnAttmptTimer, Dial, ConnectToServerFails
<1>2. CASE WaitForTermination
  BY <1>2 DEF WaitForTermination, TypeOK, FreeEmpty, dlg, States
<1>3. CASE OnAfterConnectToServer
  <2>1. events' \in Seq(Events)
    BY <1>3, HandleType DEF OnAfterConnectToServer
  <2>2. rd' \in [Readers -> RdTypes]
    BY <1>0, <1>3 DEF OnAfterConnectToServer
  <2> QED
    BY <1>3, <2>1, <2>2 DEF OnAfterConnectToServer, TypeOK, FreeEmpty, States, RdTypes
<1>4. CASE OnUpdateSMARTparameterValuesInGUI
  <2>1. events' \in Seq(Events) /\ UNCHANGED ui
    BY <1>4, HandleType DEF OnUpdateSMARTparameterValuesInGUI
  <2> QED
    BY <1>4, <2>1 DEF OnUpdateSMARTparameterValuesInGUI, TypeOK, FreeEmpty, States, dlg
<1>5. CASE OnChangeState
  <2>1. events' \in Seq(Events)
    BY <1>5, HandleType DEF OnChangeState
  <2> QED
    BY <1>5, <2>1 DEF OnChangeState, TypeOK, FreeEmpty, States, dlg
<1>6. CASE OnStartServiceConnectionCountDown
  <2>1. events' \in Seq(Events)
    BY <1>6, HandleType DEF OnStartServiceConnectionCountDown
  <2> QED
    BY <1>6, <2>1 DEF OnStartServiceConnectionCountDown, TypeOK, FreeEmpty
<1>7. CASE GetSupportedSMARTidsFromSrv
  <2>1. inbuf' = [f \in Fds |-> inbuf[f] /\ f # rd["ui"]] /\ conn' = conn
    BY <1>7 DEF GetSupportedSMARTidsFromSrv, Taken
  <2>2. inbuf' \in [Fds -> BOOLEAN] /\ FreeEmpty'
    BY <2>1 DEF TypeOK, FreeEmpty
  <2>3. rd' \in [Readers -> RdTypes]
    BY <1>0, <1>7 DEF GetSupportedSMARTidsFromSrv
  <2> QED
    BY <1>7, <2>2, <2>3 DEF GetSupportedSMARTidsFromSrv, TypeOK, dlg, RdTypes
<1>8. CASE GetFirstSMARTvalues
  <2>1. inbuf' = [f \in Fds |-> inbuf[f] /\ f # rd["ui"]] /\ conn' = conn
    BY <1>8 DEF GetFirstSMARTvalues, Taken
  <2>2. inbuf' \in [Fds -> BOOLEAN] /\ FreeEmpty'
    BY <2>1 DEF TypeOK, FreeEmpty
  <2>3. upd' \in [Threads -> UpdPcs] /\ rd' \in [Readers -> RdTypes]
    <3>1. CASE rd' = [rd EXCEPT !["ui"] = None] /\ UNCHANGED upd
      BY <1>0, <3>1 DEF TypeOK
    <3>2. CASE upd' = [upd EXCEPT ![cur] = "get"] /\ rd' = [rd EXCEPT !["ui"] = None]
      BY <1>0, <3>2, CurIsThread, UpdSet DEF UpdPcs
    <3>3. ASSUME NEW t \in Threads, upd' = [upd EXCEPT ![t] = upd[cur], ![cur] = "get"],
                 rd' = [rd EXCEPT !["ui"] = None, ![t] = rd[cur], ![cur] = None]
          PROVE  upd' \in [Threads -> UpdPcs] /\ rd' \in [Readers -> RdTypes]
      <4>1. upd \in [Threads -> UpdPcs] /\ "get" \in UpdPcs /\ upd[cur] \in UpdPcs
        BY CurIsThread DEF TypeOK, UpdPcs
      <4>2. rd[cur] \in RdTypes
        BY <1>0, CurIsThread DEF Readers
      <4>3. upd' \in [Threads -> UpdPcs]
        BY <3>3, <4>1
      <4> QED
        BY <1>0, <3>3, <4>2, <4>3
    <3> QED
      BY <1>8, <3>1, <3>2, <3>3 DEF GetFirstSMARTvalues
  <2>4. state' \in States /\ ui' = "loop" /\ UNCHANGED <<sUpdate, thrID, dlg, sock, conn, dialing, closing, events>>
    BY <1>8 DEF GetFirstSMARTvalues, States, TypeOK
  <2> QED
    BY <2>2, <2>3, <2>4 DEF TypeOK, dlg, RdTypes
<1>9. CASE GreetingFails
  <2>1. rd' \in [Readers -> RdTypes] /\ conn' \in [Fds -> ConnStates] /\ inbuf' \in [Fds -> BOOLEAN] /\ FreeEmpty'
    <3>1. [rd EXCEPT !["ui"] = None] \in [Readers -> RdTypes]
      BY <1>0
    <3> QED
      BY <1>9, <3>1, Closed DEF GreetingFails
  <2>2. events' \in Seq(Events)
    BY <1>9, PostType DEF GreetingFails, Events
  <2> QED
    BY <1>9, <2>1, <2>2 DEF GreetingFails, TypeOK, dlg, States, RdTypes
<1> QED
  BY <1>1, <1>2, <1>3, <1>4, <1>5, <1>6, <1>7, <1>8, <1>9 DEF UIStep

LEMMA UpdStepTypes ==
  ASSUME TypeOK, FreeEmpty, NEW t \in Threads, UpdStep(t)
  PROVE  TypeOK' /\ FreeEmpty'
<1>0. /\ sock \in RdTypes /\ None \in RdTypes /\ t \in Readers
      /\ rd \in [Readers -> RdTypes]
  BY DEF TypeOK, RdTypes, Readers
<1>1. CASE GetSMARTattrValsFromSrv(t)
  <2>1. upd' \in [Threads -> UpdPcs] /\ rd' \in [Readers -> RdTypes]
    BY <1>0, <1>1, UpdSet, RdSet DEF GetSMARTattrValsFromSrv, UpdPcs
  <2> QED
    BY <1>1, <2>1 DEF GetSMARTattrValsFromSrv, UpdUnchanged, TypeOK, FreeEmpty, dlg, RdTypes
<1>6. CASE GotLengthOnly(t)
  <2>1. rd' \in [Readers -> RdTypes]
    BY <1>0, <1>6, RdSet DEF GotLengthOnly
  <2>2. inbuf' = [f \in Fds |-> inbuf[f] /\ f # rd[t]] /\ conn' = conn
    BY <1>6 DEF GotLengthOnly, Taken
  <2>3. inbuf' \in [Fds -> BOOLEAN] /\ FreeEmpty'
    BY <2>2 DEF TypeOK, FreeEmpty
  <2> QED
    BY <1>6, <2>1, <2>3 DEF GotLengthOnly, UpdUnchanged, TypeOK, dlg, RdTypes
<1>2. CASE GotSMARTattrVals(t)
  <2>1. upd' \in [Threads -> UpdPcs] /\ rd' \in [Readers -> RdTypes]
    BY <1>0, <1>2, UpdSet, RdSet DEF GotSMARTattrVals, UpdPcs
  <2>2. inbuf' = [f \in Fds |-> inbuf[f] /\ f # rd[t]] /\ conn' = conn
    BY <1>2 DEF GotSMARTattrVals, Taken
  <2>3. inbuf' \in [Fds -> BOOLEAN] /\ FreeEmpty'
    BY <2>2 DEF TypeOK, FreeEmpty
  <2>4. events' \in Seq(Events)
    BY <1>2, PostType DEF GotSMARTattrVals, Events
  <2> QED
    BY <1>2, <2>1, <2>3, <2>4 DEF GotSMARTattrVals, UpdUnchanged, TypeOK, dlg, RdTypes
<1>3. CASE HandleTransmissionError(t)
  <2>1. upd' \in [Threads -> UpdPcs] /\ rd' \in [Readers -> RdTypes]
    BY <1>0, <1>3, UpdSet, RdSet DEF HandleTransmissionError, UpdPcs
  <2>2. events' \in Seq(Events)
    <3>1. Post(events, "uncnnctdToSrv") \in Seq(Events)
      BY PostType DEF Events
    <3>2. Post(Post(events, "uncnnctdToSrv"), "attempt") \in Seq(Events)
      BY <3>1, PostIs DEF Posted, Events
    <3> QED
      BY <1>3, <3>2 DEF HandleTransmissionError
  <2> QED
    BY <1>3, <2>1, <2>2 DEF HandleTransmissionError, UpdUnchanged, TypeOK, FreeEmpty, dlg, RdTypes
<1>4. CASE WaitForSignalOrTimeout(t)
  <2>1. upd' \in [Threads -> UpdPcs]
    <3>1. upd' = [upd EXCEPT ![t] = "get"] \/ upd' = [upd EXCEPT ![t] = "after"]
      BY <1>4 DEF WaitForSignalOrTimeout
    <3>2. /\ [upd EXCEPT ![t] = "get"] \in [Threads -> UpdPcs]
          /\ [upd EXCEPT ![t] = "after"] \in [Threads -> UpdPcs]
      BY UpdSet DEF UpdPcs
    <3> QED
      BY <3>1, <3>2
  <2> QED
    BY <1>4, <2>1 DEF WaitForSignalOrTimeout, UpdUnchanged, TypeOK, FreeEmpty, dlg
<1>5. CASE AfterGetSMARTvaluesLoop(t)
  <2>1. rd' \in [Readers -> RdTypes] /\ conn' \in [Fds -> ConnStates] /\ inbuf' \in [Fds -> BOOLEAN] /\ FreeEmpty'
    BY <1>5, ClosedNow DEF AfterGetSMARTvaluesLoop
  <2>2. events' \in Seq(Events)
    <3>1. Post(events, "attempt") \in Seq(Events) /\ events \in Seq(Events)
      BY PostType DEF Events, TypeOK
    <3> QED
      BY <1>5, <3>1 DEF AfterGetSMARTvaluesLoop
  <2>3. upd' \in [Threads -> UpdPcs]
    BY <1>5, UpdSet DEF AfterGetSMARTvaluesLoop, UpdPcs
  <2> QED
    BY <1>5, <2>1, <2>2, <2>3 DEF AfterGetSMARTvaluesLoop, UpdUnchanged, TypeOK, RdTypes, dlg
<1> QED
  BY <1>1, <1>2, <1>3, <1>4, <1>5, <1>6 DEF UpdStep

LEMMA TypesStep == TypeOK /\ FreeEmpty /\ [Next]_vars => TypeOK' /\ FreeEmpty'
<1> SUFFICES ASSUME TypeOK, FreeEmpty, [Next]_vars PROVE TypeOK' /\ FreeEmpty'
  OBVIOUS
<1>1. CASE UNCHANGED vars
  BY <1>1 DEF vars, TypeOK, FreeEmpty, dlg
<1> QED
  BY <1>1, NetTypes, DialTypes, UserTypes, UITypes, UpdStepTypes DEF Next
(***************************************************************************)
(* Readers and events.                                                     *)
(***************************************************************************)

(* A step that leaves the threads, the guard and the queue alone, and does *)
(* not dial as long as a failure waits.                                    *)
LEMMA Quiet ==
  ASSUME ClientIInv, TypeOK', FreeEmpty', UNCHANGED <<thrID, state, events, ui, upd>>,
         Waits(events, "uncnnctdToSrv") /\ NoGreeting => NoGreeting'
  PROVE  ClientIInv'
<1>1. Guarded' /\ Alone'
  BY DEF ClientIInv, Guarded, Alone, UIreads
<1>2. LastOfThread(events') /\ FailurePending'
  BY DEF ClientIInv, FailurePending
<1>3. NoLateValues'
  BY DEF ClientIInv, NoLateValues, UIreads, IsRunning
<1> QED
  BY <1>1, <1>2, <1>3 DEF ClientIInv

(* Closing a descriptor does not give m_socketFileDesc a connection.       *)
LEMMA StaysClosed ==
  ASSUME TypeOK, FreeEmpty, NEW f, NEW r \in [Readers -> RdTypes], CloseAfter(f, r),
         UNCHANGED sock, NoSocket
  PROVE  NoSocket' /\ (r["ui"] \in {None, sock} => rd'["ui"] \in {None, sock})
<1>1. NoSocket'
  BY Closed DEF NoSocket, TypeOK
<1>2. "ui" \in Readers /\ Abandon(f, r)
  BY DEF Readers, CloseAfter
<1>3. ASSUME r["ui"] = f, f # None, f = sock
      PROVE  Abandoned(f) = None
  <2>1. conn[f] = "free" /\ f \in Fds
    BY <1>3 DEF NoSocket, TypeOK
  <2>2. ~inbuf[f]
    BY <2>1 DEF FreeEmpty
  <2> QED
    BY <2>1, <2>2 DEF Abandoned
<1>4. rd'["ui"] = r["ui"] \/ (r["ui"] = f /\ f # None /\ rd'["ui"] = Abandoned(f))
  BY <1>2, Abandons
<1> QED
  BY <1>1, <1>3, <1>4

LEMMA StaysSo ==
  ASSUME TypeOK, FreeEmpty, NEW f, Close(f), UNCHANGED <<sock, ui>>, NoGreeting
  PROVE  NoGreeting'
<1>1. rd \in [Readers -> RdTypes] /\ CloseAfter(f, rd)
  BY DEF TypeOK, RdTypes, Close
<1> QED
  BY <1>1, StaysClosed DEF NoGreeting

LEMMA NetKeeps ==
  ASSUME ClientIInv, TypeOK', FreeEmpty', NetStep
  PROVE  ClientIInv'
<1>0. SUFFICES ASSUME NEW f \in Fds, ServerSends(f) \/ ServerCloses(f) \/ ServerLost(f)
      PROVE  ClientIInv'
  <2>1. ASSUME NEW x \in Readers, ServerOfOrphanLost(x)
        PROVE  ClientIInv'
    <3>1. UNCHANGED <<thrID, state, events, ui, upd, sock, conn>>
      BY <2>1 DEF ServerOfOrphanLost
    <3>2. NoGreeting => rd'["ui"] = rd["ui"] \/ ui # "supp"
      <4>1. ASSUME NoGreeting, ui = "supp" PROVE x # "ui"
        <5>1. rd["ui"] \in {None, sock} /\ sock \in Fds \cup {None}
          BY <4>1 DEF NoGreeting, ClientIInv, TypeOK
        <5> QED
          BY <2>1, <5>1, NoDescriptor DEF ServerOfOrphanLost
      <4> QED
        BY <2>1, <4>1 DEF ServerOfOrphanLost, ClientIInv, TypeOK
    <3>3. NoGreeting => NoGreeting'
      BY <3>1, <3>2 DEF NoGreeting, NoSocket
    <3> QED
      BY <3>1, <3>3, Quiet
  <2> QED
    BY <2>1 DEF NetStep
<1>1. ServerSends(f) \/ ServerCloses(f) \/ ServerLost(f)
  BY <1>0
<1>2. UNCHANGED <<thrID, state, events, ui, upd, sock, rd>>
  BY <1>1 DEF ServerSends, ServerCloses, ServerLost
<1>3. NoSocket => NoSocket'
  <2>1. \A g \in Fds : conn[g] = "free" => conn'[g] = "free"
    BY <1>1 DEF ServerSends, ServerCloses, ServerLost, ClientIInv, TypeOK
  <2> QED
    BY <1>2, <2>1 DEF NoSocket, ClientIInv, TypeOK
<1>4. NoGreeting => NoGreeting'
  BY <1>2, <1>3 DEF NoGreeting
<1> QED
  BY <1>2, <1>4, Quiet

(* The effect on the queue of posting an event that is neither a failure   *)
(* nor an update of values.                                                *)
LEMMA PostedPlain ==
  ASSUME ClientIInv, NEW e \in {"connected", "attempt"}
  PROVE  LET p == Post(events, e) IN
         /\ LastOfThread(p)
         /\ Waits(p, "uncnnctdToSrv") => Waits(events, "uncnnctdToSrv")
         /\ Waits(p, "valUpd8") => Waits(events, "valUpd8")
<1>1. Posted(events, Post(events, e), e) /\ LastOfThread(events)
  BY PostIs DEF ClientIInv, TypeOK, Events
<1> QED
  BY <1>1, PostOther

LEMMA DialKeeps ==
  ASSUME ClientIInv, TypeOK', FreeEmpty', DialStep
  PROVE  ClientIInv'
<1>1. PICK f \in Fds :
        SocketConnected(f) \/ SocketConnectFails(f) \/ SocketConnectThreadFuncCloses(f)
  BY DEF DialStep
<1>2. CASE SocketConnected(f)
  <2>1. /\ UNCHANGED <<thrID, state, ui, upd, sock, rd>> /\ events' = Post(events, "connected")
        /\ conn[f] = "syn" /\ conn' = [conn EXCEPT ![f] = "up"]
    BY <1>2 DEF SocketConnected
  <2>2. /\ LastOfThread(events')
        /\ Waits(events', "uncnnctdToSrv") => Waits(events, "uncnnctdToSrv")
        /\ Waits(events', "valUpd8") => Waits(events, "valUpd8")
    BY <2>1, PostedPlain
  <2>3. UNCHANGED <<thrID, state, ui, upd, sock, rd>>
    BY <2>1
  <2>4. NoGreeting => NoGreeting'
    <3>1. NoSocket => NoSocket'
      BY <2>1 DEF NoSocket, ClientIInv, TypeOK
    <3> QED
      BY <2>3, <3>1 DEF NoGreeting
  <2>5. Guarded' /\ Alone'
    BY <2>3 DEF ClientIInv, Guarded, Alone, UIreads
  <2>6. FailurePending' /\ NoLateValues'
    BY <2>2, <2>3, <2>4 DEF ClientIInv, FailurePending, NoLateValues, UIreads, IsRunning
  <2> QED
    BY <2>2, <2>5, <2>6 DEF ClientIInv
<1>3. CASE SocketConnectFails(f) \/ SocketConnectThreadFuncCloses(f)
  <2>1. UNCHANGED <<thrID, state, events, ui, upd, sock>> /\ Close(f)
    BY <1>3 DEF SocketConnectFails, SocketConnectThreadFuncCloses
  <2>2. NoGreeting => NoGreeting'
    BY <2>1, StaysSo DEF ClientIInv
  <2> QED
    BY <2>1, <2>2, Quiet
<1> QED
  BY <1>1, <1>2, <1>3

(* The loop is not ready for the user or a timer as long as a failure      *)
(* waits.                                                                  *)
LEMMA NotWhileFailurePends ==
  ASSUME PostedFirst, Dispatching
  PROVE  ~Waits(events, "uncnnctdToSrv") /\ ~Waits(events, "valUpd8")
<1>1. events = <<>>
  BY DEF Dispatching
<1>2. 1..Len(events) = {}
  BY <1>1
<1> QED
  BY <1>2 DEF Waits

LEMMA UserKeeps ==
  ASSUME PostedFirst, ClientIInv, TypeOK', FreeEmpty', UserStep
  PROVE  ClientIInv'
<1>1. ~Waits(events, "uncnnctdToSrv") /\ ~Waits(events, "valUpd8")
  BY NotWhileFailurePends
  DEF UserStep, ShwCnnctToSrvrDlg, CancelCnnctn, OnConnect, OnCloseWindow, EndUpdateUIthread
<1>2. CASE ShwCnnctToSrvrDlg \/ CancelCnnctn \/ OnConnect \/ OnCloseWindow
  <2>1. UNCHANGED <<thrID, state, events, ui, upd>>
    BY <1>2 DEF ShwCnnctToSrvrDlg, CancelCnnctn, OnConnect, OnCloseWindow
  <2> QED
    BY <1>1, <2>1, Quiet
<1>3. CASE EndUpdateUIthread
  <2>1. /\ UNCHANGED <<thrID, state, events, upd>>
        /\ ui = "loop" /\ ui' = "join"
    BY <1>3 DEF EndUpdateUIthread, Dispatching
  <2>2. Guarded' /\ Alone'
    BY <2>1 DEF ClientIInv, Guarded, Alone, UIreads
  <2>3. FailurePending' /\ NoLateValues' /\ LastOfThread(events')
    BY <1>1, <2>1 DEF ClientIInv, FailurePending, NoLateValues
  <2> QED
    BY <2>2, <2>3 DEF ClientIInv
<1> QED
  BY <1>2, <1>3 DEF UserStep

(* What handling an event leaves in the queue.                             *)
LEMMA Handled ==
  ASSUME ClientIInv, NEW e, Handle(e)
  PROVE  /\ ui = "loop" /\ LastOfThread(events') /\ Waits(events, e)
         /\ \A d : Waits(events', d) => Waits(events, d)
         /\ e = "uncnnctdToSrv" =>
              ~Waits(events', "uncnnctdToSrv") /\ ~Waits(events', "valUpd8")
<1>1. /\ events \in Seq(Events) /\ events # <<>> /\ LastOfThread(events)
      /\ ui = "loop" /\ events' = Tail(events) /\ e = Head(events)
  BY DEF ClientIInv, TypeOK, Handle
<1> QED
  BY <1>1, Dequeue

LEMMA UIKeeps ==
  ASSUME PostedFirst, ClientIInv, TypeOK', FreeEmpty', UIStep
  PROVE  ClientIInv'
<1>0. cur \in Threads
  BY CurIsThread
<1>1. CASE OnCnnctnAttmptTimer
  <2>1. UNCHANGED <<thrID, state, events, ui, upd>> /\ Dispatching
    BY <1>1 DEF OnCnnctnAttmptTimer
  <2> QED
    BY <2>1, NotWhileFailurePends, Quiet
<1>2. CASE WaitForTermination
  <2>1. /\ UNCHANGED <<events, upd, sock, conn, rd>> /\ upd[cur] = "none"
        /\ thrID' = FALSE /\ state' = "uncnnctdToSrv" /\ ui' = "loop" /\ ui = "join"
    BY <1>2 DEF WaitForTermination, IsRunning
  <2>2. Alone' /\ Guarded'
    BY <2>1 DEF ClientIInv, Alone, Guarded, UIreads, Reading
  <2>3. FailurePending'
    BY <2>1 DEF ClientIInv, FailurePending, NoSocket, NoGreeting
  <2>4. LastOfThread(events') /\ NoLateValues'
    BY <2>1 DEF ClientIInv, NoLateValues, IsRunning
  <2> QED
    BY <2>2, <2>3, <2>4 DEF ClientIInv
<1>3. CASE OnAfterConnectToServer
  <2>1. /\ ui = "loop" /\ LastOfThread(events')
        /\ \A d : Waits(events', d) => Waits(events, d)
    BY <1>3, Handled DEF OnAfterConnectToServer
  <2>2. UNCHANGED <<upd, sock, conn>>
    BY <1>3 DEF OnAfterConnectToServer
  <2>3. CASE thrID
    <3>1. UNCHANGED <<thrID, state, ui, rd>>
      BY <1>3, <2>3 DEF OnAfterConnectToServer
    <3>2. Alone' /\ Guarded'
      BY <2>2, <3>1 DEF ClientIInv, Alone, Guarded, UIreads
    <3>3. FailurePending' /\ NoLateValues'
      BY <2>1, <2>2, <3>1 DEF ClientIInv, FailurePending, NoLateValues, IsRunning, NoSocket, NoGreeting, UIreads
    <3> QED
      BY <2>1, <3>2, <3>3 DEF ClientIInv
  <2>4. CASE ~thrID
    <3>1. thrID' = TRUE /\ state' = "cnnctdToSrv" /\ ui' = "supp" /\ rd'["ui"] = sock
      BY <1>3, <2>4 DEF OnAfterConnectToServer, ClientIInv, TypeOK, Readers
    <3>2. \A t \in Threads : upd[t] \notin Reading
      BY <1>0, <2>4 DEF ClientIInv, Alone, Guarded
    <3>3. Alone' /\ Guarded'
      BY <1>0, <2>2, <3>1, <3>2 DEF Alone, Guarded
    <3>4. FailurePending'
      BY <2>1, <2>2, <2>4, <3>1 DEF ClientIInv, FailurePending, NoSocket, NoGreeting
    <3>5. NoLateValues'
      BY <2>1, <2>2, <2>4 DEF ClientIInv, NoLateValues, IsRunning
    <3> QED
      BY <2>1, <3>3, <3>4, <3>5 DEF ClientIInv
  <2> QED
    BY <2>3, <2>4
<1>4. CASE OnUpdateSMARTparameterValuesInGUI
  <2>1. /\ ui = "loop" /\ LastOfThread(events') /\ Waits(events, "valUpd8")
        /\ \A d : Waits(events', d) => Waits(events, d)
    BY <1>4, Handled DEF OnUpdateSMARTparameterValuesInGUI
  <2>2. UNCHANGED <<thrID, upd, sock, conn, ui, rd>>
    BY <1>4 DEF OnUpdateSMARTparameterValuesInGUI
  <2>3. state' = "uncnnctdToSrv" <=> state = "uncnnctdToSrv"
    <3>1. IsRunning => thrID
      BY <2>1 DEF ClientIInv, NoLateValues
    <3> QED
      BY <1>4, <3>1 DEF OnUpdateSMARTparameterValuesInGUI, ClientIInv, Guarded
  <2>4. Alone' /\ Guarded'
    BY <2>2, <2>3 DEF ClientIInv, Alone, Guarded, UIreads
  <2>5. FailurePending' /\ NoLateValues'
    BY <2>1, <2>2 DEF ClientIInv, FailurePending, NoLateValues, IsRunning, NoSocket, NoGreeting, UIreads
  <2> QED
    BY <2>1, <2>4, <2>5 DEF ClientIInv
<1>5. CASE OnChangeState
  <2>1. /\ ui = "loop" /\ LastOfThread(events') /\ Waits(events, "uncnnctdToSrv")
        /\ ~Waits(events', "uncnnctdToSrv") /\ ~Waits(events', "valUpd8")
    BY <1>5, Handled DEF OnChangeState
  <2>2. /\ UNCHANGED <<upd, ui>> /\ state' = "uncnnctdToSrv" /\ thrID' = FALSE
    BY <1>5 DEF OnChangeState
  <2>3. upd[cur] \notin Reading
    BY <2>1 DEF ClientIInv, FailurePending, Reading
  <2>4. Alone' /\ Guarded'
    BY <2>1, <2>2, <2>3 DEF ClientIInv, Alone, Guarded, UIreads
  <2>5. FailurePending' /\ NoLateValues'
    BY <2>1 DEF FailurePending, NoLateValues
  <2> QED
    BY <2>1, <2>4, <2>5 DEF ClientIInv
<1>6. CASE OnStartServiceConnectionCountDown
  <2>1. /\ ui = "loop" /\ LastOfThread(events')
        /\ \A d : Waits(events', d) => Waits(events, d)
    BY <1>6, Handled DEF OnStartServiceConnectionCountDown
  <2>2. UNCHANGED <<thrID, state, upd, sock, conn, ui, rd>>
    BY <1>6 DEF OnStartServiceConnectionCountDown
  <2>3. Alone' /\ Guarded'
    BY <2>2 DEF ClientIInv, Alone, Guarded, UIreads
  <2>4. FailurePending' /\ NoLateValues'
    BY <2>1, <2>2 DEF ClientIInv, FailurePending, NoLateValues, IsRunning, NoSocket, NoGreeting, UIreads
  <2> QED
    BY <2>1, <2>3, <2>4 DEF ClientIInv
<1>7. CASE GetSupportedSMARTidsFromSrv
  <2>1. /\ UNCHANGED <<thrID, state, events, upd, sock, conn>> /\ ui = "supp" /\ ui' = "vals"
        /\ ReadSucceeds("ui")
    BY <1>7 DEF GetSupportedSMARTidsFromSrv
  <2>2. ~NoGreeting
    <3>1. SUFFICES ASSUME NoGreeting PROVE FALSE
      OBVIOUS
    <3>2. rd["ui"] \in {None, sock} /\ sock \in Fds \cup {None}
      BY <2>1, <3>1 DEF NoGreeting, ClientIInv, TypeOK
    <3>3. rd["ui"] # Orphan
      BY <3>2, NoDescriptor
    <3>4. rd["ui"] \in Fds /\ inbuf[rd["ui"]]
      BY <2>1, <3>3 DEF ReadSucceeds
    <3>5. rd["ui"] = sock /\ sock # None
      BY <3>2, <3>4, NoDescriptor
    <3>6. conn[sock] = "free" /\ inbuf[sock] /\ sock \in Fds
      BY <3>1, <3>4, <3>5 DEF NoGreeting, NoSocket
    <3> QED
      BY <3>6 DEF ClientIInv, FreeEmpty
  <2>3. ~Waits(events, "uncnnctdToSrv")
    BY <2>1, <2>2 DEF ClientIInv, FailurePending
  <2>4. Alone' /\ Guarded'
    BY <2>1 DEF ClientIInv, Alone, Guarded, UIreads
  <2>5. FailurePending' /\ NoLateValues' /\ LastOfThread(events')
    BY <2>1, <2>3 DEF ClientIInv, FailurePending, NoLateValues, IsRunning, UIreads
  <2> QED
    BY <2>4, <2>5 DEF ClientIInv
<1>8. CASE GetFirstSMARTvalues
  <2>1. /\ UNCHANGED <<thrID, events, sock, conn>> /\ ui = "vals" /\ ui' = "loop"
        /\ state' = IF IsRunning THEN "valUpd8" ELSE state
    BY <1>8 DEF GetFirstSMARTvalues
  <2>2. thrID /\ ~Waits(events, "uncnnctdToSrv") /\ \A t \in Threads : upd[t] \notin Reading
    BY <2>1 DEF ClientIInv, Alone, Guarded, FailurePending, UIreads
  <2>3. state' # "uncnnctdToSrv" /\ thrID'
    BY <2>1, <2>2 DEF ClientIInv, Guarded
  <2>4. Alone'
    <3>1. CASE UNCHANGED upd
      BY <2>2, <3>1 DEF Alone
    <3>2. CASE upd' = [upd EXCEPT ![cur] = "get"]
      <4>1. \A s \in Threads : s # cur => upd'[s] = upd[s]
        BY <1>0, <3>2 DEF ClientIInv, TypeOK
      <4> QED
        BY <2>1, <2>2, <4>1 DEF Alone, UIreads
    <3>3. ASSUME NEW t \in Threads, upd' = [upd EXCEPT ![t] = upd[cur], ![cur] = "get"]
          PROVE  Alone'
      <4>1. \A s \in Threads : s # cur => upd'[s] = upd[s] \/ upd'[s] = upd[cur]
        BY <1>0, <3>3 DEF ClientIInv, TypeOK
      <4>2. \A s \in Threads : s # cur => upd'[s] \notin Reading
        BY <1>0, <2>2, <4>1
      <4> QED
        BY <2>1, <4>2 DEF Alone, UIreads
    <3> QED
      BY <1>8, <3>1, <3>2, <3>3 DEF GetFirstSMARTvalues
  <2>5. Guarded' /\ FailurePending' /\ NoLateValues' /\ LastOfThread(events')
    BY <2>1, <2>2, <2>3 DEF ClientIInv, Guarded, FailurePending, NoLateValues, UIreads
  <2> QED
    BY <2>4, <2>5 DEF ClientIInv
<1>9. CASE GreetingFails
  <2>1. /\ ui \in {"supp", "vals"} /\ ui' = "loop" /\ state' = "uncnnctdToSrv" /\ thrID' = FALSE
        /\ UNCHANGED <<sock, upd>> /\ events' = Post(events, "attempt")
        /\ CloseAfter(sock, [rd EXCEPT !["ui"] = None])
    BY <1>9 DEF GreetingFails
  <2>2. /\ LastOfThread(events')
        /\ Waits(events', "uncnnctdToSrv") => Waits(events, "uncnnctdToSrv")
        /\ Waits(events', "valUpd8") => Waits(events, "valUpd8")
    BY <2>1, PostedPlain
  <2>3. /\ ui \in {"supp", "vals"} /\ ui' = "loop" /\ state' = "uncnnctdToSrv" /\ thrID' = FALSE
        /\ UNCHANGED <<sock, upd>>
    BY <2>1
  <2>4. \A t \in Threads : upd[t] \notin Reading
    BY <2>3 DEF ClientIInv, Alone, UIreads
  <2>5. Alone' /\ Guarded'
    BY <1>0, <2>3, <2>4 DEF Alone, Guarded, UIreads
  <2>6. NoGreeting => NoGreeting'
    <3>1. [rd EXCEPT !["ui"] = None] \in [Readers -> RdTypes]
      BY RdSet DEF ClientIInv, RdTypes, Readers
    <3>2. NoSocket => NoSocket'
      BY <2>1, <3>1, StaysClosed DEF ClientIInv
    <3> QED
      BY <2>3, <3>2 DEF NoGreeting
  <2>7. FailurePending'
    BY <2>2, <2>3, <2>6 DEF ClientIInv, FailurePending
  <2>8. NoLateValues'
    BY <2>2, <2>3 DEF ClientIInv, NoLateValues, UIreads, IsRunning
  <2> QED
    BY <2>2, <2>5, <2>7, <2>8 DEF ClientIInv
<1> QED
  BY <1>1, <1>2, <1>3, <1>4, <1>5, <1>6, <1>7, <1>8, <1>9 DEF UIStep
(* A thread in its loop is the current one, the guard is set for it and it *)
(* has not reported a failure.                                             *)
LEMMA ReaderAlone ==
  ASSUME ClientIInv, NEW t \in Threads, upd[t] \in Reading
  PROVE  /\ t = cur /\ ~UIreads /\ thrID /\ ~Waits(events, "uncnnctdToSrv")
         /\ \A s \in Threads : s # t => upd[s] \notin Reading
<1>1. t = cur /\ ~UIreads /\ \A s \in Threads : s # t => upd[s] \notin Reading
  BY DEF ClientIInv, Alone
<1> QED
  BY <1>1 DEF ClientIInv, Guarded, FailurePending, Reading

(* A step of the thread within its loop, or to its end without a failure.  *)
LEMMA ReaderGoesOn ==
  ASSUME ClientIInv, NEW t \in Threads, upd[t] \in Reading,
         \A s \in Threads : s # t => upd'[s] = upd[s],
         LastOfThread(events'), ~Waits(events', "uncnnctdToSrv"),
         UNCHANGED <<thrID, state, ui>>, TypeOK', FreeEmpty'
  PROVE  ClientIInv'
<1>1. /\ t = cur /\ ~UIreads /\ thrID
      /\ \A s \in Threads : s # t => upd[s] \notin Reading
  BY ReaderAlone
<1>2. Alone' /\ Guarded'
  BY <1>1 DEF ClientIInv, Alone, Guarded, UIreads
<1>3. FailurePending' /\ NoLateValues'
  BY <1>1 DEF FailurePending, NoLateValues, UIreads
<1> QED
  BY <1>2, <1>3 DEF ClientIInv

LEMMA UpdKeeps ==
  ASSUME ClientIInv, TypeOK', FreeEmpty', NEW t \in Threads, UpdStep(t)
  PROVE  ClientIInv'
<1>0. UNCHANGED <<thrID, state, ui, sock>> /\ cur \in Threads /\ TypeOK
  BY CurIsThread DEF UpdStep, GetSMARTattrValsFromSrv, GotLengthOnly, GotSMARTattrVals,
    HandleTransmissionError, WaitForSignalOrTimeout, AfterGetSMARTvaluesLoop, UpdUnchanged,
    ClientIInv
<1>1. sock \in Fds \cup {None} /\ None \in Fds \cup {None}
  BY <1>0 DEF TypeOK
<1>2. CASE GetSMARTattrValsFromSrv(t)
  <2>1. /\ upd[t] = "get" /\ upd' = [upd EXCEPT ![t] = "read"]
        /\ events' = events
    BY <1>2 DEF GetSMARTattrValsFromSrv
  <2>2. upd[t] \in Reading /\ \A s \in Threads : s # t => upd'[s] = upd[s]
    BY <1>0, <1>1, <2>1, UpdSet DEF Reading, UpdPcs
  <2>3. LastOfThread(events') /\ ~Waits(events', "uncnnctdToSrv")
    BY <2>1, <2>2, ReaderAlone DEF ClientIInv
  <2> QED
    BY <1>0, <2>2, <2>3, ReaderGoesOn
<1>7. CASE GotLengthOnly(t)
  <2>1. upd[t] = "read" /\ upd' = upd /\ events' = events
    BY <1>7 DEF GotLengthOnly
  <2>2. upd[t] \in Reading /\ \A s \in Threads : s # t => upd'[s] = upd[s]
    BY <2>1 DEF Reading
  <2>3. LastOfThread(events') /\ ~Waits(events', "uncnnctdToSrv")
    BY <2>1, <2>2, ReaderAlone DEF ClientIInv
  <2> QED
    BY <1>0, <2>2, <2>3, ReaderGoesOn
<1>3. CASE GotSMARTattrVals(t)
  <2>1. /\ upd[t] = "read" /\ upd' = [upd EXCEPT ![t] = "wait"]
        /\ events' = Post(events, "valUpd8")
    BY <1>3 DEF GotSMARTattrVals
  <2>2. upd[t] \in Reading /\ \A s \in Threads : s # t => upd'[s] = upd[s]
    BY <1>0, <1>1, <2>1, UpdSet DEF Reading, UpdPcs
  <2>3. LastOfThread(events') /\ ~Waits(events', "uncnnctdToSrv")
    <3>1. Posted(events, events', "valUpd8") /\ LastOfThread(events)
      BY <2>1, PostIs DEF ClientIInv, TypeOK, Events
    <3>2. ~Waits(events, "uncnnctdToSrv")
      BY <2>2, ReaderAlone
    <3> QED
      BY <3>1, <3>2, PostOther
  <2> QED
    BY <1>0, <2>2, <2>3, ReaderGoesOn
<1>4. CASE HandleTransmissionError(t)
  <2> DEFINE p == Post(events, "uncnnctdToSrv")
  <2>1. /\ upd[t] = "read" /\ upd' = [upd EXCEPT ![t] = "failed"]
        /\ events' = Post(p, "attempt")
    BY <1>4 DEF HandleTransmissionError
  <2>2. /\ upd[t] \in Reading /\ upd'[t] = "failed"
        /\ \A s \in Threads : s # t => upd'[s] = upd[s]
    <3>1. upd'[t] = "failed"
      BY <1>0, <2>1 DEF TypeOK
    <3>2. \A s \in Threads : s # t => upd'[s] = upd[s]
      BY <1>0, <2>1 DEF TypeOK
    <3> QED
      BY <2>1, <3>1, <3>2 DEF Reading
  <2>3. /\ t = cur /\ ~UIreads /\ thrID /\ ~Waits(events, "uncnnctdToSrv")
        /\ \A s \in Threads : s # t => upd[s] \notin Reading
    BY <2>2, ReaderAlone
  <2>4. Posted(events, p, "uncnnctdToSrv") /\ p \in Seq(Events)
    BY <1>0, PostIs DEF TypeOK, Events, Posted
  <2>5. Posted(p, Post(p, "attempt"), "attempt")
    BY <2>4, PostIs DEF Events
  <2> HIDE DEF p
  <2>6. LastOfThread(p)
    BY <2>3, <2>4, PostFailure
  <2>7. LastOfThread(events')
    BY <2>1, <2>5, <2>6, PostOther
  <2>8. Alone' /\ Guarded'
    BY <1>0, <2>2, <2>3 DEF ClientIInv, Alone, Guarded, UIreads, Reading
  <2>9. FailurePending' /\ NoLateValues'
    BY <1>0, <2>2, <2>3 DEF FailurePending, NoLateValues, UIreads
  <2> QED
    BY <2>7, <2>8, <2>9 DEF ClientIInv
<1>5. CASE WaitForSignalOrTimeout(t)
  <2>1. /\ upd[t] = "wait" /\ events' = events
        /\ upd' = [upd EXCEPT ![t] = "get"] \/ upd' = [upd EXCEPT ![t] = "after"]
    BY <1>5 DEF WaitForSignalOrTimeout
  <2>2. upd[t] \in Reading /\ \A s \in Threads : s # t => upd'[s] = upd[s]
    <3>1. \A s \in Threads : s # t => /\ [upd EXCEPT ![t] = "get"][s] = upd[s]
                                      /\ [upd EXCEPT ![t] = "after"][s] = upd[s]
      BY <1>0, UpdSet DEF UpdPcs
    <3> QED
      BY <2>1, <3>1 DEF Reading
  <2>3. LastOfThread(events') /\ ~Waits(events', "uncnnctdToSrv")
    BY <2>1, <2>2, ReaderAlone DEF ClientIInv
  <2> QED
    BY <1>0, <2>2, <2>3, ReaderGoesOn
<1>6. CASE AfterGetSMARTvaluesLoop(t)
  <2>1. /\ upd[t] \in {"failed", "after"} /\ upd' = [upd EXCEPT ![t] = "none"]
        /\ Close(sock)
        /\ events' = Post(events, "attempt") \/ events' = events
    BY <1>6 DEF AfterGetSMARTvaluesLoop
  <2>2. upd'[t] = "none" /\ \A s \in Threads : s # t => upd'[s] = upd[s]
    BY <1>0, <2>1, UpdSet DEF UpdPcs
  <2>3. /\ LastOfThread(events')
        /\ Waits(events', "uncnnctdToSrv") => Waits(events, "uncnnctdToSrv")
        /\ Waits(events', "valUpd8") => Waits(events, "valUpd8")
    <3>1. CASE events' = events
      BY <3>1 DEF ClientIInv
    <3>2. CASE events' = Post(events, "attempt")
      BY <3>2, PostedPlain
    <3> QED
      BY <2>1, <3>1, <3>2
  <2>4. NoSocket' /\ (NoGreeting => NoGreeting')
    <3>1. sock \in Fds => conn'[sock] = "free"
      BY <2>1, ClosedNow DEF ClientIInv
    <3>2. NoGreeting => NoGreeting'
      BY <1>0, <2>1, StaysSo DEF ClientIInv
    <3> QED
      BY <1>0, <1>1, <3>1, <3>2 DEF NoSocket
  <2>5. upd[t] \in {"failed", "after"}
    BY <2>1
  <2>6. Alone' /\ Guarded'
    <3>1. \A s \in Threads : upd'[s] \in Reading => upd[s] \in Reading
      BY <2>2 DEF Reading
    <3> QED
      BY <1>0, <3>1 DEF ClientIInv, Alone, Guarded, UIreads
  <2>7. FailurePending'
    <3>1. CASE t = cur
      <4>1. upd[cur] # "none"
        BY <2>5, <3>1
      <4>2. Waits(events', "uncnnctdToSrv") => ui # "vals" /\ ui # "supp"
        BY <2>3, <4>1 DEF ClientIInv, FailurePending
      <4> QED
        BY <1>0, <2>2, <2>4, <3>1, <4>2 DEF FailurePending, NoGreeting
    <3>2. CASE t # cur
      BY <1>0, <2>2, <2>3, <2>4, <3>2 DEF ClientIInv, FailurePending
    <3> QED
      BY <3>1, <3>2
  <2>8. NoLateValues'
    <3>1. CASE t = cur
      BY <1>0, <2>2, <3>1 DEF NoLateValues, IsRunning
    <3>2. CASE t # cur
      BY <1>0, <2>2, <2>3, <3>2 DEF ClientIInv, NoLateValues, IsRunning, UIreads
    <3> QED
      BY <3>1, <3>2
  <2> QED
    BY <2>3, <2>6, <2>7, <2>8 DEF ClientIInv
<1> QED
  BY <1>2, <1>3, <1>4, <1>5, <1>6, <1>7 DEF UpdStep

LEMMA ClientStep == PostedFirst /\ ClientIInv /\ [Next]_vars => ClientIInv'
<1> SUFFICES ASSUME PostedFirst, ClientIInv, [Next]_vars PROVE ClientIInv'
  OBVIOUS
<1>1. TypeOK' /\ FreeEmpty'
  BY TypesStep DEF ClientIInv
<1>2. CASE UNCHANGED vars
  <2>1. UNCHANGED <<thrID, state, events, ui, upd, sock, conn, rd>>
    BY <1>2 DEF vars
  <2> QED
    BY <1>1, <2>1, Quiet DEF NoSocket, NoGreeting
<1> QED
  BY <1>1, <1>2, NetKeeps, DialKeeps, UserKeeps, UIKeeps, UpdKeeps DEF Next

LEMMA ClientInit == Init => ClientIInv
<1> SUFFICES ASSUME Init PROVE ClientIInv
  OBVIOUS
<1>1. events = <<>> /\ events \in Seq(Events) /\ 1..Len(events) = {}
  BY DEF Init
<1>2. /\ upd \in [Threads -> UpdPcs] /\ cur \in Threads /\ \A t \in Threads : upd[t] = "none"
      /\ rd \in [Readers -> RdTypes]
  BY CurIsThread DEF Init, UpdPcs, RdTypes
<1>3. conn \in [Fds -> ConnStates] /\ inbuf \in [Fds -> BOOLEAN] /\ dialing \in [Fds -> BOOLEAN]
      /\ closing \in [Fds -> BOOLEAN] /\ FreeEmpty
  BY DEF Init, ConnStates, FreeEmpty
<1>4. /\ sUpdate \in BOOLEAN /\ thrID \in BOOLEAN /\ state \in States /\ dialog \in BOOLEAN
      /\ timer \in {"off", "on", "stopped"} /\ dlgFd \in Fds \cup {None} /\ sock \in Fds \cup {None}
      /\ ui \in {"loop", "supp", "vals", "join"}
  BY DEF Init, States
<1>5. TypeOK
  BY <1>1, <1>2, <1>3, <1>4 DEF TypeOK, RdTypes
<1>6. Guarded /\ Alone
  BY <1>2 DEF Init, Guarded, Alone, UIreads, Reading
<1>7. LastOfThread(events) /\ FailurePending /\ NoLateValues
  BY <1>1 DEF LastOfThread, FailurePending, NoLateValues, Waits
<1> QED
  BY <1>3, <1>5, <1>6, <1>7 DEF ClientIInv

(***************************************************************************)
(* The theorems.                                                           *)
(***************************************************************************)

(* Where the event loop handles posted events before input and timers, at  *)
(* most one thread of the client reads from the connection, whatever the   *)
(* user, the network and the threads do (GetSMARTvaluesAndUpdateUI,        *)
(* UpdateSMARTattrValsThreadFunc), and every variable stays in its range.  *)
THEOREM AtMostOneReader == PostedFirst => (Spec => []ClientInv)
<1> SUFFICES ASSUME PostedFirst PROVE Spec => []ClientInv
  OBVIOUS
<1>1. ClientIInv /\ [Next]_vars => ClientIInv'
  BY ClientStep
<1>2. ClientIInv => ClientInv
  BY DEF ClientIInv, Alone, ClientInv, OneReader
<1> QED
  BY <1>1, <1>2, ClientInit, PTL DEF Spec

(* The state a step may show when it was "unconnected".                    *)
LEMMA StateStep ==
  ClientIInv /\ [Next]_vars => (state = "uncnnctdToSrv" => state' # "valUpd8")
<1> SUFFICES ASSUME ClientIInv, [Next]_vars, state = "uncnnctdToSrv" PROVE state' # "valUpd8"
  OBVIOUS
<1>1. CASE OnUpdateSMARTparameterValuesInGUI
  <2>1. Waits(events, "valUpd8")
    BY <1>1, Handled DEF OnUpdateSMARTparameterValuesInGUI
  <2>2. ~IsRunning
    BY <2>1 DEF ClientIInv, NoLateValues, Guarded
  <2> QED
    BY <1>1, <2>2 DEF OnUpdateSMARTparameterValuesInGUI
<1>2. CASE GetFirstSMARTvalues
  BY <1>2 DEF GetFirstSMARTvalues, ClientIInv, Guarded, UIreads
<1>3. CASE NetStep \/ DialStep \/ UserStep \/ \E t \in Threads : UpdStep(t)
  <2>1. state' = state
    BY <1>3 DEF NetStep, ServerSends, ServerCloses, ServerLost, ServerOfOrphanLost, DialStep, SocketConnected,
      SocketConnectFails, SocketConnectThreadFuncCloses, UserStep, ShwCnnctToSrvrDlg,
      CancelCnnctn, OnConnect, OnCloseWindow, EndUpdateUIthread, UpdStep,
      GetSMARTattrValsFromSrv, GotLengthOnly, GotSMARTattrVals, HandleTransmissionError, WaitForSignalOrTimeout,
      AfterGetSMARTvaluesLoop, UpdUnchanged
  <2> QED
    BY <2>1
<1>4. CASE UIStep /\ ~OnUpdateSMARTparameterValuesInGUI /\ ~GetFirstSMARTvalues
  BY <1>4 DEF UIStep, OnCnnctnAttmptTimer, WaitForTermination, OnAfterConnectToServer,
    OnChangeState, OnStartServiceConnectionCountDown, GetSupportedSMARTidsFromSrv, GreetingFails
<1>5. CASE UNCHANGED vars
  BY <1>5 DEF vars
<1> QED
  BY <1>1, <1>2, <1>3, <1>4, <1>5 DEF Next

(* Under the same condition an update of values that is handled late does  *)
(* not turn the state of a client that shows "unconnected"                 *)
(* (UpdateSMARTvaluesUI).                                                  *)
THEOREM LateValuesKeepState == PostedFirst => (Spec => DisconnectedStays)
<1> SUFFICES ASSUME PostedFirst PROVE Spec => DisconnectedStays
  OBVIOUS
<1>1. ClientIInv /\ [Next]_vars => ClientIInv'
  BY ClientStep
<1>2. ClientIInv /\ [Next]_vars => [state = "uncnnctdToSrv" => state' # "valUpd8"]_vars
  BY StateStep
<1> QED
  BY <1>1, <1>2, ClientInit, PTL DEF Spec, DisconnectedStays
==============================================================================
