------------------------ MODULE SMARTmonitorProtocol -------------------------
(***************************************************************************)
(* One connection between the service and a client, seen by its messages:  *)
(* the service's main thread sends the supported IDs of its drives and     *)
(* registers the client, its update thread sends the values of the drives  *)
(* in every interval (src/src/service); the client reads one message as    *)
(* supported IDs, then one message of values per interval (src/src/client, *)
(* src/src/tinyxml2). A message is a 16 bit length and that many bytes of  *)
(* XML.                                                                    *)
(***************************************************************************)
EXTENDS Integers, Sequences

CONSTANTS
  NDrives,    \* drives of the service, in the order of its std::set
  DocLens,    \* numbers of bytes the XML document of a drive can have
  LenRange,   \* 2^16 for the length's uint16_t, smaller in a model
  BufCap,     \* messages that fit into the buffers of the connection
  MaxRounds   \* bound: readings that give a new value

Drives == 1..NDrives
NoDrive == 0  \* an empty SMARTuniqueID

ASSUME ProtocolAssumption ==
  /\ NDrives \in Nat \ {0} /\ DocLens \subseteq Nat \ {0} /\ LenRange \in Nat \ {0, 1, 2}
  /\ BufCap \in Nat \ {0} /\ MaxRounds \in Nat \ {0}

VARIABLES
  docLen,   \* bytes of the document of one drive
  srvVal,   \* service: the number of the reading its value of a drive is from
  greet,    \* main thread: its next drive, the documents in its stream
  inSet,    \* the client is in m_clientSocketFileDescSet
  upd,      \* update thread: where it is, its next drive, its stream
  chan,     \* messages on their way
  client,   \* where the client is
  known,    \* SMARTuniqueIDsAndValues: the drives the client has
  shown     \* the number of the reading the client's value is from, or 0

vars == <<docLen, srvVal, greet, inSet, upd, chan, client, known, shown>>

Docs == [drive : Drives, ver : 0..MaxRounds]
Messages == [kind : {"supp", "val"}, docs : Seq(Docs), len : 0..LenRange - 1]

TypeOK ==
  /\ docLen \in DocLens
  /\ srvVal \in [Drives -> 1..MaxRounds]
  /\ greet \in [drv : 1..NDrives + 1, docs : Seq(Docs)]
  /\ inSet \in BOOLEAN
  /\ upd \in [pc : {"read", "send", "ended", "crashed"}, round : 1..MaxRounds,
              drv : 1..NDrives + 1, docs : Seq(Docs)]
  /\ chan \in Seq(Messages) /\ Len(chan) <= BufCap
  /\ client \in {"supp", "first", "loop", "noThread", "unconnected"}
  /\ known \subseteq Drives \cup {NoDrive}
  /\ shown \in [Drives -> 0..MaxRounds]

-----------------------------------------------------------------------------
(* The service.                                                            *)

(* InitializeSMART has read every drive once; the connection is accepted.  *)
Init ==
  /\ docLen \in DocLens
  /\ srvVal = [d \in Drives |-> 1]
  /\ greet = [drv |-> 1, docs |-> << >>]
  /\ inSet = FALSE
  /\ upd = [pc |-> "read", round |-> 1, drv |-> 1, docs |-> << >>]
  /\ chan = << >>
  /\ client = "supp"
  /\ known = {}
  /\ shown = [d \in Drives |-> 0]

Bytes(docs) == Len(docs) * docLen

(* ByteArrayFromString: numOverallBytes is a uint16_t; if length + 2 wraps *)
(* to 0 or 1, memcpy's size is negative.                                   *)
MemcpyFails(docs) == (Bytes(docs) + 2) % LenRange < 2

(* Mutant: the length includes its own 2 bytes.                            *)
ByteArrayOverallLen(kind, docs) ==
  [kind |-> kind, docs |-> docs, len |-> (Bytes(docs) + 2) % LenRange]

ByteArrayFromString(kind, docs) ==
  [kind |-> kind, docs |-> docs, len |-> Bytes(docs) % LenRange]

(* Mutant: what is sent overtakes what waits.                              *)
SendBytesFirst(m) == Len(chan) < BufCap /\ chan' = <<m>> \o chan

(* SendBytesTo1Client: a blocking write().                                 *)
SendBytesTo1Client(m) == Len(chan) < BufCap /\ chan' = Append(chan, m)

(* SendSupportedSMART_IDsToClient, the next drive: its device can not be   *)
(* opened or reports no IDs and nothing is sent, ...                       *)
NoSupportedIDs ==
  /\ greet.drv <= NDrives /\ upd.pc # "crashed"
  /\ greet' = [greet EXCEPT !.drv = @ + 1]
  /\ UNCHANGED <<docLen, srvVal, inSet, upd, chan, client, known, shown>>

(* ... or all documents that are in the stream by now are sent.            *)
SendSupportedSMART_IDsToClient ==
  /\ greet.drv <= NDrives /\ upd.pc # "crashed"
  /\ LET docs == Append(greet.docs, [drive |-> greet.drv, ver |-> 0]) IN
     IF MemcpyFails(docs)
     THEN upd' = [upd EXCEPT !.pc = "crashed"] /\ UNCHANGED <<greet, chan>>
     ELSE /\ SendBytesTo1Client(ByteArrayFromString("supp", docs))
          /\ greet' = [drv |-> greet.drv + 1, docs |-> docs]
          /\ UNCHANGED upd
  /\ UNCHANGED <<docLen, srvVal, inSet, client, known, shown>>

AddClient ==
  /\ greet.drv = NDrives + 1 /\ upd.pc # "crashed"
  /\ ~inSet /\ inSet' = TRUE
  /\ UNCHANGED <<docLen, srvVal, greet, upd, chan, client, known, shown>>

(* overallRetCode: the last device that could be read or was denied        *)
(* decides. Devices come in the order of their files, not in that of the   *)
(* drives, and a denied one need not be one of the drives.                 *)
RetCodes(read) ==
  {"accessDenied", IF read = {} THEN "noSingleSMARTdevice" ELSE "success"}

(* ReadSMARTValuesForAllDrives: a drive that is not read keeps its value.  *)
(* Unless it returns success the update loop ends, without BeforeWait and  *)
(* for good; the connection stays open, since s_updateSMARTvalues is still *)
(* true.                                                                   *)
ReadSMARTValuesForAllDrives(read, ret) ==
  /\ upd.pc = "read"
  /\ srvVal' = [d \in Drives |-> IF d \in read THEN upd.round ELSE srvVal[d]]
  /\ upd' = IF ret = "success"
            THEN [upd EXCEPT !.pc = "send", !.drv = 1, !.docs = << >>]
            ELSE [upd EXCEPT !.pc = "ended"]
  /\ UNCHANGED <<docLen, greet, inSet, chan, client, known, shown>>

(* BeforeWait and SendBytesToAllClients, the next drive: its document goes *)
(* to the stream and all the stream to the client, if it is registered.    *)
BeforeWait ==
  /\ upd.pc = "send" /\ upd.drv <= NDrives
  /\ LET docs == Append(upd.docs, [drive |-> upd.drv, ver |-> srvVal[upd.drv]]) IN
     IF MemcpyFails(docs)
     THEN upd' = [upd EXCEPT !.pc = "crashed"] /\ UNCHANGED chan
     ELSE /\ IF inSet THEN SendBytesTo1Client(ByteArrayFromString("val", docs))
                      ELSE UNCHANGED chan
          /\ upd' = [upd EXCEPT !.drv = @ + 1, !.docs = docs]
  /\ UNCHANGED <<docLen, srvVal, greet, inSet, client, known, shown>>

(* The end of BeforeWait and the wait for the next interval. From reading  *)
(* number MaxRounds on the drives' values do not change any more.          *)
WaitForSignalOrTimeout ==
  /\ upd.pc = "send" /\ upd.drv = NDrives + 1
  /\ upd' = [pc |-> "read", round |-> IF upd.round < MaxRounds THEN upd.round + 1
                                     ELSE MaxRounds, drv |-> 1, docs |-> << >>]
  /\ UNCHANGED <<docLen, srvVal, greet, inSet, chan, client, known, shown>>

-----------------------------------------------------------------------------
(* The client.                                                             *)

(* getXMLdoc parses the bytes that came: an error if a document is cut.    *)
WellFormed(m) == m.len % docLen = 0

(* tinyxml2's RootElement is the first element of the message.             *)
Root(m) == m.docs[1]

(* ReadNumFollowingBytes and readFromSocket2 got a message that is not     *)
(* empty.                                                                  *)
Received == chan # << >> /\ Head(chan).len > 0 /\ chan' = Tail(chan)

(* GetSupportedSMARTidsFromSrv, GetSupportedSMARTattributesViaXML: also a  *)
(* message without "supportedSMART_IDs", or none at all, counts as         *)
(* success.                                                                *)
GetSupportedSMARTidsFromSrv ==
  /\ client = "supp"
  /\ Received
  /\ known' = LET m == Head(chan) IN
              IF WellFormed(m) /\ m.kind = "supp"
              THEN known \cup {Root(m).drive} ELSE known
  /\ client' = "first"
  /\ UNCHANGED <<docLen, srvVal, greet, inSet, upd, shown>>

(* Mutant: the last document of the message is taken.                      *)
GetSMARTrawValuesOfLast(m) ==
  LET doc == m.docs[Len(m.docs)] IN
  IF WellFormed(m) /\ m.kind = "val" /\ doc.ver > 0
  THEN [shown EXCEPT ![doc.drive] = doc.ver] ELSE shown

(* Mutant: a drive that already has a value does not get another one.      *)
GetSMARTrawValuesOnce(m) ==
  IF WellFormed(m) /\ m.kind = "val" /\ shown[Root(m).drive] = 0
  THEN [shown EXCEPT ![Root(m).drive] = Root(m).ver] ELSE shown

(* GetSMARTrawValues, HandleSingleSMARTentry: the values below the root    *)
(* element; a list of supported IDs has none.                              *)
GetSMARTrawValues(m) ==
  IF WellFormed(m) /\ m.kind = "val"
  THEN [shown EXCEPT ![Root(m).drive] = Root(m).ver] ELSE shown

(* GetSMARTattrValsFromSrv: an object with the drive's identity is         *)
(* inserted, with an empty one when parsing failed.                        *)
GetSMARTattrValsFromSrv ==
  /\ Received
  /\ LET m == Head(chan) IN
     /\ known' = known \cup {IF WellFormed(m) THEN Root(m).drive ELSE NoDrive}
     /\ shown' = GetSMARTrawValues(m)

(* GetSMARTvaluesAndUpdateUI gets values for the first time; without a     *)
(* value StartAsyncUpdateThread has nothing to observe and does nothing.   *)
GetSMARTvaluesAndUpdateUI ==
  /\ client = "first"
  /\ GetSMARTattrValsFromSrv
  /\ client' = IF \E d \in Drives : shown'[d] > 0 THEN "loop" ELSE "noThread"
  /\ UNCHANGED <<docLen, srvVal, greet, inSet, upd>>

(* UpdateSMARTattrValsThreadFunc: one message per interval.                *)
UpdateSMARTattrValsThreadFunc ==
  /\ client = "loop"
  /\ GetSMARTattrValsFromSrv
  /\ UNCHANGED <<docLen, srvVal, greet, inSet, upd, client>>

(* A length of 0, or the end of a stream whose service has crashed: the    *)
(* client closes the connection.                                           *)
ReadFails ==
  /\ client \in {"supp", "first", "loop"}
  /\ IF chan = << >> THEN upd.pc = "crashed" ELSE Head(chan).len = 0
  /\ client' = "unconnected"
  /\ UNCHANGED <<docLen, srvVal, greet, inSet, upd, chan, known, shown>>

-----------------------------------------------------------------------------
MainThread == NoSupportedIDs \/ SendSupportedSMART_IDsToClient \/ AddClient
UpdateThread ==
  \/ \E read \in SUBSET Drives : \E ret \in RetCodes(read) :
       ReadSMARTValuesForAllDrives(read, ret)
  \/ BeforeWait \/ WaitForSignalOrTimeout
ClientThread ==
  \/ GetSupportedSMARTidsFromSrv \/ GetSMARTvaluesAndUpdateUI
  \/ UpdateSMARTattrValsThreadFunc \/ ReadFails

Next == MainThread \/ UpdateThread \/ ClientThread
Spec == Init /\ [][Next]_vars

(* Threads that can run do run; intervals come to an end.                  *)
FairSpec == Spec /\ WF_vars(MainThread) /\ WF_vars(UpdateThread) /\ WF_vars(ClientThread)

-----------------------------------------------------------------------------
(* The documents of all drives fit into the length together.               *)
FittingLens == {l \in DocLens : NDrives * l + 2 < LenRange}
Fits == docLen \in FittingLens

(* As long as they fit, a message is sent with all of its bytes            *)
(* (ByteArrayFromString).                                                  *)
MessagesWhole ==
  Fits =>
    /\ upd.pc # "crashed"
    /\ \A i \in 1..Len(chan) : chan[i].len = Bytes(chan[i].docs)

(* Once the client's loop runs, the newest value of the first drive that   *)
(* was sent is the one it has or still on its way: no message is skipped   *)
(* (SendBytesToAllClients, GetSMARTattrValsFromSrv).                       *)
NoneSkipped ==
  Fits /\ client = "loop" /\ upd.pc = "send" /\ upd.drv > 1 =>
    \/ shown[1] = srvVal[1]
    \/ \E i \in 1..Len(chan) : Root(chan[i]).ver = srvVal[1]

(* A value is never replaced by an older one, also when messages are cut,  *)
(* taken for others or the service crashes (GetSMARTattrValsFromSrv).      *)
NeverOlder == [][\A d \in Drives : shown'[d] >= shown[d]]_vars

(* As long as messages fit, every drive the client lists is a drive of the *)
(* service (GetSMARTattrValsFromSrv inserts what Begin and                 *)
(* GetSMARTuniqueID give).                                                 *)
NoPhantomDrive == Fits => NoDrive \notin known

(* Both, and every variable in its range: no message is put into a buffer  *)
(* that is full.                                                           *)
ProtocolInv == TypeOK /\ NoneSkipped /\ NoPhantomDrive

(* Once the client's loop runs, each value of the first drive that the     *)
(* service has while its own loop has not ended comes to be shown. What is *)
(* read together with a last device that is denied never does: that        *)
(* reading ends the loop (ReadSMARTValuesForAllDrives,                     *)
(* UpdateSMARTattrValsThreadFunc, GetSMARTattrValsFromSrv).                *)
FirstDriveArrives ==
  \A r \in 1..MaxRounds :
    (Fits /\ client = "loop" /\ upd.pc # "ended" /\ srvVal[1] = r) ~> (shown[1] >= r)

(* As long as the service's loop goes on, each drive's value comes to be   *)
(* shown by the client that is connected: "the software is capable to      *)
(* monitor more than 1 storage media/data carrier at the same time"        *)
(* (README.md).                                                            *)
ValuesArrive ==
  [](upd.pc # "ended") =>
    \A d \in Drives : \A r \in 1..MaxRounds : (srvVal[d] = r) ~> (shown[d] >= r)
=============================================================================
