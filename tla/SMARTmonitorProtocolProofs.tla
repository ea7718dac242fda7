--------------------- MODULE SMARTmonitorProtocolProofs ----------------------
(***************************************************************************)
(* Messages are sent whole as long as the documents of all drives together *)
(* fit into the 16 bit length: the streams of both threads hold at most    *)
(* one document per drive, and no length wraps.                            *)
(* The newest value of the first drive then is shown or on its way; and,   *)
(* whatever wraps or crashes, no value is replaced by an older one: the    *)
(* readings are in order along the way from the drive to the client.       *)
(***************************************************************************)
EXTENDS SMARTmonitorProtocol, TLAPS

(* All messages on their way have their own length.                        *)
Whole == \A i \in 1..Len(chan) : chan[i].len = Bytes(chan[i].docs)

(* The inductive invariant: each stream holds fewer documents than its     *)
(* next drive's number.                                                    *)
StreamInv ==
  /\ docLen \in DocLens
  /\ greet \in [drv : 1..NDrives + 1, docs : Seq(Docs)]
  /\ Len(greet.docs) < greet.drv
  /\ srvVal \in [Drives -> 1..MaxRounds]
  /\ upd \in [pc : {"read", "send", "ended", "crashed"}, round : 1..MaxRounds,
              drv : 1..NDrives + 1, docs : Seq(Docs)]
  /\ Len(upd.docs) < upd.drv
  /\ upd.pc # "crashed"
  /\ chan \in Seq(Messages)
  /\ Whole

(* A stream of at most NDrives documents does not wrap the length          *)
(* (ByteArrayFromString).                                                  *)
LEMMA NoWrap ==
  ASSUME Fits, docLen \in DocLens, NEW docs \in Seq(Docs), Len(docs) <= NDrives
  PROVE  /\ ~MemcpyFails(docs)
         /\ Bytes(docs) % LenRange = Bytes(docs)
         /\ Bytes(docs) \in 0..LenRange - 1
<1>1. docLen \in Nat \ {0} /\ NDrives \in Nat \ {0} /\ LenRange \in Nat
  BY ProtocolAssumption
<1>2. NDrives * docLen + 2 < LenRange
  BY DEF Fits, FittingLens
<1>3. \A n \in Nat, l \in Nat : n <= NDrives => n * l \in Nat /\ n * l <= NDrives * l
  BY <1>1, Z3
<1>4. Bytes(docs) \in Nat /\ Bytes(docs) + 2 < LenRange
  <2>1. Len(docs) \in Nat
    OBVIOUS
  <2>2. Len(docs) * docLen \in Nat /\ Len(docs) * docLen <= NDrives * docLen
    BY <1>1, <1>3, <2>1
  <2> DEFINE b == Len(docs) * docLen  m == NDrives * docLen
  <2>3. m \in Nat
    BY <1>1, <1>3
  <2> HIDE DEF b, m
  <2>4. b \in Nat /\ b <= m /\ m + 2 < LenRange
    BY <1>2, <2>2 DEF b, m
  <2>5. b + 2 < LenRange
    BY <1>1, <2>3, <2>4
  <2> QED
    BY <2>4, <2>5 DEF b, Bytes
<1> DEFINE b == Bytes(docs)
<1> HIDE DEF b
<1>5. b \in Nat /\ b + 2 < LenRange
  BY <1>4 DEF b
<1>6. b % LenRange = b /\ (b + 2) % LenRange = b + 2 /\ b \in 0..LenRange - 1
  BY <1>1, <1>5, Z3
<1> QED
  BY <1>5, <1>6 DEF b, MemcpyFails

(* Appending a message that was just made keeps the messages whole.        *)
LEMMA SentWhole ==
  ASSUME Fits, StreamInv, NEW docs \in Seq(Docs), Len(docs) <= NDrives,
         NEW kind \in {"supp", "val"}, UNCHANGED docLen,
         chan' = Append(chan, ByteArrayFromString(kind, docs))
  PROVE  chan' \in Seq(Messages) /\ Whole'
<1> DEFINE m == ByteArrayFromString(kind, docs)
<1>1. Bytes(docs) % LenRange = Bytes(docs) /\ Bytes(docs) \in 0..LenRange - 1
  BY NoWrap DEF StreamInv
<1>2. m \in Messages /\ m.len = Bytes(docs) /\ m.docs = docs
  BY <1>1 DEF ByteArrayFromString, Messages
<1> HIDE DEF m
<1>3. chan \in Seq(Messages) /\ chan' = Append(chan, m)
  BY DEF StreamInv, m
<1>4. chan' \in Seq(Messages)
  BY <1>2, <1>3
<1>5. ASSUME NEW i \in 1..Len(chan')
      PROVE  chan'[i].len = Len(chan'[i].docs) * docLen'
  <2>1. CASE i = Len(chan) + 1
    <3>1. chan'[i] = m
      BY <1>2, <1>3, <2>1
    <3> QED
      BY <3>1, <1>2 DEF Bytes
  <2>2. CASE i # Len(chan) + 1
    <3>1. i \in 1..Len(chan) /\ chan'[i] = chan[i]
      BY <1>2, <1>3, <2>2
    <3>2. chan[i].len = Bytes(chan[i].docs)
      BY <3>1 DEF StreamInv, Whole
    <3> QED
      BY <3>1, <3>2 DEF Bytes
  <2> QED
    BY <2>1, <2>2
<1> QED
  BY <1>4, <1>5 DEF Whole, Bytes

(* The client takes messages from the front only.                          *)
LEMMA TakenWhole ==
  ASSUME StreamInv, chan # << >>, chan' = Tail(chan), UNCHANGED docLen
  PROVE  chan' \in Seq(Messages) /\ Whole'
<1>1. chan \in Seq(Messages) /\ Len(chan') = Len(chan) - 1 /\ chan' \in Seq(Messages)
  BY DEF StreamInv
<1>2. ASSUME NEW i \in 1..Len(chan')
      PROVE  chan'[i].len = Len(chan'[i].docs) * docLen'
  <2>1. i + 1 \in 1..Len(chan) /\ chan'[i] = chan[i + 1]
    BY <1>1
  <2>2. chan[i + 1].len = Bytes(chan[i + 1].docs)
    BY <2>1 DEF StreamInv, Whole
  <2> QED
    BY <2>1, <2>2 DEF Bytes
<1> QED
  BY <1>1, <1>2 DEF Whole, Bytes

(* ReadSMARTValuesForAllDrives with whatever it reads and returns: sending *)
(* begins, or the loop has ended.                                          *)
Reads ==
  \E read \in SUBSET Drives : \E ret \in RetCodes(read) : ReadSMARTValuesForAllDrives(read, ret)

LEMMA AfterReading ==
  ASSUME Reads
  PROVE  \E read \in SUBSET Drives :
           /\ srvVal' = [d \in Drives |-> IF d \in read THEN upd.round ELSE srvVal[d]]
           /\ \/ upd' = [upd EXCEPT !.pc = "send", !.drv = 1, !.docs = << >>]
              \/ upd' = [upd EXCEPT !.pc = "ended"]
           /\ UNCHANGED <<docLen, greet, inSet, chan, client, known, shown>>
<1>1. PICK read \in SUBSET Drives :
        \E ret \in RetCodes(read) : ReadSMARTValuesForAllDrives(read, ret)
  BY DEF Reads
<1>2. PICK ret \in RetCodes(read) : ReadSMARTValuesForAllDrives(read, ret)
  BY <1>1
<1>3. /\ srvVal' = [d \in Drives |-> IF d \in read THEN upd.round ELSE srvVal[d]]
      /\ \/ upd' = [upd EXCEPT !.pc = "send", !.drv = 1, !.docs = << >>]
         \/ upd' = [upd EXCEPT !.pc = "ended"]
      /\ UNCHANGED <<docLen, greet, inSet, chan, client, known, shown>>
  BY <1>2 DEF ReadSMARTValuesForAllDrives
<1> QED
  BY <1>1, <1>3

(* Every step of Next keeps the streams bounded and the messages whole.    *)
LEMMA StreamStep == Fits /\ StreamInv /\ [Next]_vars => StreamInv'
<1> SUFFICES ASSUME Fits, StreamInv, [Next]_vars PROVE StreamInv'
  OBVIOUS
<1> USE ProtocolAssumption
<1>1. CASE NoSupportedIDs
  <2>1. greet' = [greet EXCEPT !.drv = greet.drv + 1] /\ greet.drv <= NDrives
    BY <1>1 DEF NoSupportedIDs
  <2>2. greet.drv \in 1..NDrives + 1 /\ greet.docs \in Seq(Docs) /\ Len(greet.docs) < greet.drv
    BY DEF StreamInv
  <2>3. greet' = [drv |-> greet.drv + 1, docs |-> greet.docs]
    BY <2>1 DEF StreamInv
  <2>4. Len(greet.docs) \in Nat
    BY <2>2
  <2>5. greet' \in [drv : 1..NDrives + 1, docs : Seq(Docs)] /\ Len(greet'.docs) < greet'.drv
    <3>1. greet.drv + 1 \in 1..NDrives + 1 /\ Len(greet.docs) < greet.drv + 1
      BY <2>1, <2>2, <2>4
    <3> QED
      BY <2>2, <2>3, <3>1
  <2> QED
    BY <1>1, <2>5 DEF NoSupportedIDs, StreamInv, Whole, Bytes
<1>2. CASE SendSupportedSMART_IDsToClient
  <2> DEFINE docs == Append(greet.docs, [drive |-> greet.drv, ver |-> 0])
  <2>1. greet.drv \in Drives /\ greet.docs \in Seq(Docs) /\ Len(greet.docs) < greet.drv
    BY <1>2 DEF SendSupportedSMART_IDsToClient, StreamInv, Drives
  <2>2. [drive |-> greet.drv, ver |-> 0] \in Docs
    BY <2>1 DEF Docs
  <2>3. docs \in Seq(Docs) /\ Len(docs) = Len(greet.docs) + 1
    BY <2>1, <2>2
  <2>4. Len(docs) <= NDrives
    BY <2>1, <2>3 DEF Drives
  <2>5. ~MemcpyFails(docs)
    BY <2>3, <2>4, NoWrap DEF StreamInv
  <2>6. /\ chan' = Append(chan, ByteArrayFromString("supp", docs))
        /\ greet' = [drv |-> greet.drv + 1, docs |-> docs]
        /\ UNCHANGED <<docLen, upd, srvVal>>
    BY <1>2, <2>5 DEF SendSupportedSMART_IDsToClient, SendBytesTo1Client
  <2> HIDE DEF docs
  <2>7. chan' \in Seq(Messages) /\ Whole'
    BY <2>3, <2>4, <2>6, SentWhole
  <2>8. greet' \in [drv : 1..NDrives + 1, docs : Seq(Docs)] /\ Len(greet'.docs) < greet'.drv
    BY <2>1, <2>3, <2>6 DEF Drives
  <2> QED
    BY <2>6, <2>7, <2>8 DEF StreamInv
<1>3. CASE AddClient
  BY <1>3 DEF AddClient, StreamInv, Whole, Bytes
<1>4. CASE Reads
  <2>2. PICK read \in SUBSET Drives :
             /\ srvVal' = [d \in Drives |-> IF d \in read THEN upd.round ELSE srvVal[d]]
             /\ \/ upd' = [upd EXCEPT !.pc = "send", !.drv = 1, !.docs = << >>]
                \/ upd' = [upd EXCEPT !.pc = "ended"]
             /\ UNCHANGED <<docLen, greet, chan>>
    BY <1>4, AfterReading
  <2>3. srvVal' \in [Drives -> 1..MaxRounds]
    BY <2>2 DEF StreamInv
  <2>4. /\ upd' \in [pc : {"read", "send", "ended", "crashed"}, round : 1..MaxRounds,
                     drv : 1..NDrives + 1, docs : Seq(Docs)]
        /\ Len(upd'.docs) < upd'.drv /\ upd'.pc # "crashed"
    <3>1. \/ upd' = [pc |-> "send", round |-> upd.round, drv |-> 1, docs |-> << >>]
          \/ upd' = [pc |-> "ended", round |-> upd.round, drv |-> upd.drv, docs |-> upd.docs]
      BY <2>2 DEF StreamInv
    <3>2. /\ upd.round \in 1..MaxRounds /\ << >> \in Seq(Docs) /\ Len(<< >>) = 0
          /\ upd.drv \in 1..NDrives + 1 /\ upd.docs \in Seq(Docs) /\ Len(upd.docs) < upd.drv
      BY DEF StreamInv
    <3>3. CASE upd' = [pc |-> "send", round |-> upd.round, drv |-> 1, docs |-> << >>]
      BY <3>2, <3>3, ProtocolAssumption
    <3>4. CASE upd' = [pc |-> "ended", round |-> upd.round, drv |-> upd.drv, docs |-> upd.docs]
      BY <3>2, <3>4
    <3> QED
      BY <3>1, <3>3, <3>4
  <2> QED
    BY <2>2, <2>3, <2>4 DEF StreamInv, Whole, Bytes
<1>5. CASE BeforeWait
  <2> DEFINE docs == Append(upd.docs, [drive |-> upd.drv, ver |-> srvVal[upd.drv]])
  <2>1. upd.drv \in Drives /\ upd.docs \in Seq(Docs) /\ Len(upd.docs) < upd.drv
    BY <1>5 DEF BeforeWait, StreamInv, Drives
  <2>2. [drive |-> upd.drv, ver |-> srvVal[upd.drv]] \in Docs
    BY <2>1 DEF Docs, StreamInv
  <2>3. docs \in Seq(Docs) /\ Len(docs) = Len(upd.docs) + 1
    BY <2>1, <2>2
  <2>4. Len(docs) <= NDrives
    BY <2>1, <2>3 DEF Drives
  <2>5. ~MemcpyFails(docs)
    BY <2>3, <2>4, NoWrap DEF StreamInv
  <2>6. /\ \/ chan' = Append(chan, ByteArrayFromString("val", docs))
           \/ chan' = chan
        /\ upd' = [upd EXCEPT !.drv = upd.drv + 1, !.docs = docs]
        /\ UNCHANGED <<docLen, greet, srvVal>>
    BY <1>5, <2>5 DEF BeforeWait, SendBytesTo1Client
  <2> HIDE DEF docs
  <2>7. chan' \in Seq(Messages) /\ Whole'
    <3>1. CASE chan' = chan
      BY <2>6, <3>1 DEF StreamInv, Whole, Bytes
    <3>2. CASE chan' = Append(chan, ByteArrayFromString("val", docs))
      BY <2>3, <2>4, <2>6, <3>2, SentWhole
    <3> QED
      BY <2>6, <3>1, <3>2
  <2>8. /\ upd' \in [pc : {"read", "send", "ended", "crashed"}, round : 1..MaxRounds,
                     drv : 1..NDrives + 1, docs : Seq(Docs)]
        /\ Len(upd'.docs) < upd'.drv /\ upd'.pc = upd.pc
    <3>1. upd' = [pc |-> upd.pc, round |-> upd.round, drv |-> upd.drv + 1, docs |-> docs]
      BY <2>6 DEF StreamInv
    <3>2. upd.round \in 1..MaxRounds /\ upd.pc \in {"read", "send", "ended", "crashed"}
      BY DEF StreamInv
    <3>3. Len(docs) < upd.drv + 1 /\ upd.drv + 1 \in 1..NDrives + 1
      BY <2>1, <2>3 DEF Drives
    <3> QED
      BY <2>3, <3>1, <3>2, <3>3
  <2> QED
    BY <2>6, <2>7, <2>8 DEF StreamInv
<1>6. CASE WaitForSignalOrTimeout
  <2>1. /\ upd' = [pc |-> "read", round |-> IF upd.round < MaxRounds THEN upd.round + 1
                                            ELSE MaxRounds, drv |-> 1, docs |-> << >>]
        /\ UNCHANGED <<docLen, greet, chan, srvVal>>
    BY <1>6 DEF WaitForSignalOrTimeout
  <2>2. /\ upd' \in [pc : {"read", "send", "ended", "crashed"}, round : 1..MaxRounds,
                     drv : 1..NDrives + 1, docs : Seq(Docs)]
        /\ Len(upd'.docs) < upd'.drv /\ upd'.pc = "read"
    BY <2>1 DEF StreamInv
  <2> QED
    BY <2>1, <2>2 DEF StreamInv, Whole, Bytes
<1>7. CASE GetSupportedSMARTidsFromSrv \/ GetSMARTvaluesAndUpdateUI \/ UpdateSMARTattrValsThreadFunc
  <2>1. chan # << >> /\ chan' = Tail(chan) /\ UNCHANGED <<docLen, greet, upd, srvVal>>
    BY <1>7 DEF GetSupportedSMARTidsFromSrv, GetSMARTvaluesAndUpdateUI,
      UpdateSMARTattrValsThreadFunc, GetSMARTattrValsFromSrv, Received
  <2>2. chan' \in Seq(Messages) /\ Whole'
    BY <2>1, TakenWhole
  <2> QED
    BY <2>1, <2>2 DEF StreamInv
<1>8. CASE ReadFails
  BY <1>8 DEF ReadFails, StreamInv, Whole, Bytes
<1>9. CASE UNCHANGED vars
  BY <1>9 DEF vars, StreamInv, Whole, Bytes
<1> QED
  BY <1>1, <1>2, <1>3, <1>4, <1>5, <1>6, <1>7, <1>8, <1>9
  DEF Next, MainThread, UpdateThread, ClientThread, Reads

(* The documents keep their length.                                        *)
LEMMA LengthStays == [Next]_vars => docLen' = docLen
  BY DEF Next, vars, MainThread, UpdateThread, ClientThread, NoSupportedIDs,
    SendSupportedSMART_IDsToClient, AddClient, ReadSMARTValuesForAllDrives, BeforeWait,
    WaitForSignalOrTimeout, GetSupportedSMARTidsFromSrv, GetSMARTvaluesAndUpdateUI,
    UpdateSMARTattrValsThreadFunc, ReadFails

(* For any number of drives whose documents fit into the 16 bit length     *)
(* together, no message is cut and the service's memcpy keeps in bounds    *)
(* (ByteArrayFromString).                                                  *)
THEOREM MessagesAreWhole == Spec => []MessagesWhole
<1>1. Init => StreamInv
  BY ProtocolAssumption DEF Init, StreamInv, Whole, Drives
<1>2. (Fits => StreamInv) /\ [Next]_vars => (Fits => StreamInv)'
  <2>1. [Next]_vars => (Fits' <=> Fits)
    BY LengthStays DEF Fits, FittingLens
  <2> QED
    BY <2>1, StreamStep
<1>3. (Fits => StreamInv) => MessagesWhole
  BY DEF StreamInv, Whole, MessagesWhole
<1> QED
  BY <1>1, <1>2, <1>3, PTL DEF Spec
(***************************************************************************)
(* Types, whatever the length of the documents: messages may be cut and    *)
(* the service may crash.                                                  *)
(***************************************************************************)

(* No message is without documents, so each has a root element.            *)
Rooted == \A i \in 1..Len(chan) : chan[i].docs # << >>

TypeInv == TypeOK /\ Rooted

(* What is in the channel after a message was sent.                        *)
LEMMA Sent ==
  ASSUME NEW c \in Seq(Messages), NEW m \in Messages, NEW d, d = Append(c, m)
  PROVE  /\ d \in Seq(Messages) /\ Len(d) = Len(c) + 1
         /\ \A i \in 1..Len(c) : i \in 1..Len(d) /\ d[i] = c[i]
         /\ Len(d) \in 1..Len(d) /\ d[Len(d)] = m
         /\ \A i \in 1..Len(d) : i \in 1..Len(c) \/ i = Len(d)
  OBVIOUS

(* What is in it after one was received.                                   *)
LEMMA Taken ==
  ASSUME NEW c \in Seq(Messages), c # << >>, NEW d, d = Tail(c)
  PROVE  /\ d \in Seq(Messages) /\ Len(d) = Len(c) - 1
         /\ 1 \in 1..Len(c) /\ Head(c) = c[1] /\ Head(c) \in Messages
         /\ \A i \in 1..Len(d) : i + 1 \in 1..Len(c) /\ d[i] = c[i + 1]
         /\ \A i \in 1..Len(c) : i = 1 \/ (i - 1 \in 1..Len(d) /\ d[i - 1] = c[i])
<1>1. d \in Seq(Messages) /\ Len(d) = Len(c) - 1 /\ Len(c) \in Nat /\ Len(c) # 0
  OBVIOUS
<1>2. 1 \in 1..Len(c) /\ Head(c) = c[1] /\ Head(c) \in Messages
  BY <1>1
<1>3. \A i \in 1..Len(d) : i + 1 \in 1..Len(c) /\ d[i] = c[i + 1]
  BY <1>1
<1>4. ASSUME NEW i \in 1..Len(c), i # 1
      PROVE  i - 1 \in 1..Len(d) /\ d[i - 1] = c[i]
  <2>1. i - 1 \in 1..Len(d) /\ (i - 1) + 1 = i
    BY <1>1, <1>4
  <2> QED
    BY <1>3, <2>1
<1> QED
  BY <1>1, <1>2, <1>3, <1>4

(* The first document of a message.                                        *)
LEMMA RootOf ==
  ASSUME NEW m \in Messages, m.docs # << >>
  PROVE  Root(m) \in Docs /\ Root(m).drive \in Drives /\ Root(m).ver \in 0..MaxRounds
<1>1. m.docs \in Seq(Docs)
  BY DEF Messages
<1>2. m.docs[1] \in Docs
  BY <1>1
<1> QED
  BY <1>2 DEF Root, Docs

(* A stream with another document, and the message made of it, even if its *)
(* length wraps.                                                           *)
LEMMA Streamed ==
  ASSUME TypeOK, NEW docs \in Seq(Docs), NEW doc \in Docs, NEW kind \in {"supp", "val"}
  PROVE  LET ds == Append(docs, doc)  m == ByteArrayFromString(kind, ds) IN
         /\ ds \in Seq(Docs) /\ ds # << >>
         /\ ds[1] = IF docs = << >> THEN doc ELSE docs[1]
         /\ m \in Messages /\ m.kind = kind /\ m.docs = ds
<1> DEFINE ds == Append(docs, doc)  m == ByteArrayFromString(kind, ds)
<1>1. ds \in Seq(Docs) /\ ds # << >> /\ ds[1] = IF docs = << >> THEN doc ELSE docs[1]
  <2>1. ds \in Seq(Docs) /\ Len(ds) = Len(docs) + 1 /\ Len(docs) \in Nat
    OBVIOUS
  <2>2. CASE docs = << >>
    BY <2>1, <2>2
  <2>3. CASE docs # << >>
    <3>1. 1 \in 1..Len(docs)
      BY <2>1, <2>3
    <3> QED
      BY <2>1, <2>3, <3>1
  <2> QED
    BY <2>2, <2>3
<1> HIDE DEF ds
<1>2. Len(ds) * docLen \in Nat
  <2>1. Len(ds) \in Nat /\ docLen \in Nat
    BY <1>1, ProtocolAssumption DEF TypeOK
  <2> QED
    BY <2>1, Z3
<1>3. Bytes(ds) % LenRange \in 0..LenRange - 1
  BY <1>2, ProtocolAssumption DEF Bytes
<1>4. m \in Messages /\ m.kind = kind /\ m.docs = ds
  BY <1>1, <1>3 DEF ByteArrayFromString, Messages
<1> QED
  BY <1>1, <1>4 DEF ds

(* What SendSupportedSMART_IDsToClient does: the service crashes, or       *)
(* exactly one message of the stream's documents is put into the buffer.   *)
LEMMA SendsIDs ==
  ASSUME TypeInv, SendSupportedSMART_IDsToClient
  PROVE  \/ /\ upd' = [upd EXCEPT !.pc = "crashed"]
            /\ UNCHANGED <<docLen, srvVal, greet, inSet, chan, client, known, shown>>
         \/ \E m \in Messages :
              /\ m.kind = "supp" /\ m.docs # << >> /\ Len(chan) < BufCap
              /\ chan' = Append(chan, m)
              /\ greet' = [drv |-> greet.drv + 1, docs |-> m.docs] /\ greet.drv <= NDrives
              /\ UNCHANGED <<docLen, srvVal, upd, inSet, client, known, shown>>
<1> DEFINE doc == [drive |-> greet.drv, ver |-> 0]  docs == Append(greet.docs, doc)
           m == ByteArrayFromString("supp", docs)
<1>1. greet.drv \in Drives /\ greet.docs \in Seq(Docs) /\ greet.drv <= NDrives
  BY ProtocolAssumption DEF TypeInv, TypeOK, SendSupportedSMART_IDsToClient, Drives
<1>2. doc \in Docs
  BY <1>1, ProtocolAssumption DEF Docs
<1> HIDE DEF doc
<1>3. m \in Messages /\ m.kind = "supp" /\ m.docs = docs /\ docs # << >>
  BY <1>1, <1>2, Streamed DEF TypeInv
<1>4. CASE MemcpyFails(docs)
  BY <1>4 DEF SendSupportedSMART_IDsToClient, doc
<1>5. CASE ~MemcpyFails(docs)
  <2>1. /\ Len(chan) < BufCap /\ chan' = Append(chan, m)
        /\ greet' = [drv |-> greet.drv + 1, docs |-> docs]
        /\ UNCHANGED <<docLen, srvVal, upd, inSet, client, known, shown>>
    BY <1>5 DEF SendSupportedSMART_IDsToClient, SendBytesTo1Client, doc
  <2> HIDE DEF m, docs
  <2> QED
    BY <1>1, <1>3, <2>1
<1> QED
  BY <1>4, <1>5

(* What BeforeWait does for a drive: the service crashes, or the stream    *)
(* grows by the drive's document and is sent, if the client is registered. *)
LEMMA SendsValues ==
  ASSUME TypeInv, BeforeWait
  PROVE  /\ upd.pc = "send" /\ upd.drv <= NDrives
         /\ UNCHANGED <<docLen, srvVal, greet, inSet, client, known, shown>>
         /\ \/ upd' = [upd EXCEPT !.pc = "crashed"] /\ UNCHANGED chan
            \/ \E m \in Messages :
                 /\ m.kind = "val" /\ m.docs # << >>
                 /\ Root(m) = IF upd.docs = << >>
                              THEN [drive |-> upd.drv, ver |-> srvVal[upd.drv]]
                              ELSE upd.docs[1]
                 /\ upd' = [upd EXCEPT !.drv = upd.drv + 1, !.docs = m.docs]
                 /\ IF inSet THEN Len(chan) < BufCap /\ chan' = Append(chan, m)
                             ELSE UNCHANGED chan
<1> DEFINE doc == [drive |-> upd.drv, ver |-> srvVal[upd.drv]]  docs == Append(upd.docs, doc)
           m == ByteArrayFromString("val", docs)
<1>1. upd.drv \in Drives /\ upd.docs \in Seq(Docs) /\ upd.drv <= NDrives /\ upd.pc = "send"
  BY ProtocolAssumption DEF TypeInv, TypeOK, BeforeWait, Drives
<1>2. doc \in Docs
  BY <1>1, ProtocolAssumption DEF Docs, TypeInv, TypeOK
<1> HIDE DEF doc
<1>3. /\ m \in Messages /\ m.kind = "val" /\ m.docs = docs /\ docs # << >>
      /\ docs[1] = IF upd.docs = << >> THEN doc ELSE upd.docs[1]
  BY <1>1, <1>2, Streamed DEF TypeInv
<1>4. UNCHANGED <<docLen, srvVal, greet, inSet, client, known, shown>>
  BY DEF BeforeWait
<1>5. CASE MemcpyFails(docs)
  BY <1>1, <1>4, <1>5 DEF BeforeWait, doc
<1>6. CASE ~MemcpyFails(docs)
  <2>1. /\ IF inSet THEN Len(chan) < BufCap /\ chan' = Append(chan, m) ELSE UNCHANGED chan
        /\ upd' = [upd EXCEPT !.drv = upd.drv + 1, !.docs = docs]
    BY <1>6 DEF BeforeWait, SendBytesTo1Client, doc
  <2> HIDE DEF m, docs
  <2>2. Root(m) = IF upd.docs = << >> THEN doc ELSE upd.docs[1]
    BY <1>3 DEF Root
  <2> QED
    BY <1>1, <1>3, <1>4, <2>1, <2>2 DEF doc
<1> QED
  BY <1>5, <1>6

(* What receiving a message does: the client gets at most the drive and    *)
(* the value of its root element, and goes on to its next state.           *)
Receives ==
  /\ chan # << >> /\ chan' = Tail(chan)
  /\ UNCHANGED <<docLen, srvVal, greet, inSet, upd>>
  /\ \/ client = "supp" /\ client' = "first" /\ UNCHANGED shown
     \/ /\ shown' = GetSMARTrawValues(Head(chan))
        /\ \/ /\ client = "first" /\ client' = "loop"
              /\ \E d \in Drives : shown'[d] > 0
           \/ client = "first" /\ client' = "noThread"
           \/ client = "loop" /\ client' = "loop"
  /\ known' \subseteq known \cup {Root(Head(chan)).drive,
                                 IF WellFormed(Head(chan)) THEN Root(Head(chan)).drive
                                 ELSE NoDrive}

LEMMA ClientReceives ==
  ASSUME GetSupportedSMARTidsFromSrv \/ GetSMARTvaluesAndUpdateUI \/ UpdateSMARTattrValsThreadFunc
  PROVE  Receives
<1>1. CASE GetSupportedSMARTidsFromSrv
  BY <1>1 DEF GetSupportedSMARTidsFromSrv, Received, Receives
<1>2. CASE GetSMARTvaluesAndUpdateUI
  BY <1>2 DEF GetSMARTvaluesAndUpdateUI, GetSMARTattrValsFromSrv, Received, Receives
<1>3. CASE UpdateSMARTattrValsThreadFunc
  BY <1>3 DEF UpdateSMARTattrValsThreadFunc, GetSMARTattrValsFromSrv, Received, Receives
<1> QED
  BY <1>1, <1>2, <1>3

LEMMA TypeStep == TypeInv /\ [Next]_vars => TypeInv'
<1> SUFFICES ASSUME TypeInv, [Next]_vars PROVE TypeInv'
  OBVIOUS
<1> USE ProtocolAssumption
<1>1. CASE NoSupportedIDs
  <2>1. greet' \in [drv : 1..NDrives + 1, docs : Seq(Docs)]
    <3>1. greet.drv \in 1..NDrives + 1 /\ greet.docs \in Seq(Docs)
      BY DEF TypeInv, TypeOK
    <3>2. greet' = [drv |-> greet.drv + 1, docs |-> greet.docs] /\ greet.drv <= NDrives
      BY <1>1 DEF NoSupportedIDs, TypeInv, TypeOK
    <3> QED
      BY <3>1, <3>2
  <2> QED
    BY <1>1, <2>1 DEF NoSupportedIDs, TypeInv, TypeOK, Rooted
<1>2. CASE SendSupportedSMART_IDsToClient
  <2>1. CASE /\ upd' = [upd EXCEPT !.pc = "crashed"]
             /\ UNCHANGED <<docLen, srvVal, greet, inSet, chan, client, known, shown>>
    <3>1. upd' \in [pc : {"read", "send", "ended", "crashed"}, round : 1..MaxRounds,
                    drv : 1..NDrives + 1, docs : Seq(Docs)]
      BY <2>1 DEF TypeInv, TypeOK
    <3> QED
      BY <2>1, <3>1 DEF TypeInv, TypeOK, Rooted
  <2>2. ASSUME NEW m \in Messages, m.kind = "supp", m.docs # << >>, Len(chan) < BufCap,
               chan' = Append(chan, m), greet.drv <= NDrives,
               greet' = [drv |-> greet.drv + 1, docs |-> m.docs],
               UNCHANGED <<docLen, srvVal, upd, inSet, client, known, shown>>
        PROVE  TypeInv'
    <3>1. m.docs \in Seq(Docs) /\ greet.drv \in 1..NDrives + 1 /\ chan \in Seq(Messages)
      BY DEF Messages, TypeInv, TypeOK
    <3>2. greet' \in [drv : 1..NDrives + 1, docs : Seq(Docs)]
      BY <2>2, <3>1
    <3>3. chan' \in Seq(Messages) /\ Len(chan') <= BufCap /\ Rooted'
      BY <2>2, <3>1, Sent DEF Rooted, TypeInv
    <3> QED
      BY <2>2, <3>2, <3>3 DEF TypeInv, TypeOK
  <2> QED
    BY <1>2, <2>1, <2>2, SendsIDs
<1>3. CASE AddClient
  BY <1>3 DEF AddClient, TypeInv, TypeOK, Rooted
<1>4. CASE Reads
  <2>2. PICK read \in SUBSET Drives :
             /\ srvVal' = [d \in Drives |-> IF d \in read THEN upd.round ELSE srvVal[d]]
             /\ \/ upd' = [upd EXCEPT !.pc = "send", !.drv = 1, !.docs = << >>]
                \/ upd' = [upd EXCEPT !.pc = "ended"]
             /\ UNCHANGED <<docLen, greet, inSet, chan, client, known, shown>>
    BY <1>4, AfterReading
  <2>3. srvVal' \in [Drives -> 1..MaxRounds]
    BY <2>2 DEF TypeInv, TypeOK
  <2>4. upd' \in [pc : {"read", "send", "ended", "crashed"}, round : 1..MaxRounds,
                  drv : 1..NDrives + 1, docs : Seq(Docs)]
    <3>1. \/ upd' = [pc |-> "send", round |-> upd.round, drv |-> 1, docs |-> << >>]
          \/ upd' = [pc |-> "ended", round |-> upd.round, drv |-> upd.drv, docs |-> upd.docs]
      BY <2>2 DEF TypeInv, TypeOK
    <3>2. /\ upd.round \in 1..MaxRounds /\ << >> \in Seq(Docs)
          /\ upd.drv \in 1..NDrives + 1 /\ upd.docs \in Seq(Docs)
      BY DEF TypeInv, TypeOK
    <3>3. CASE upd' = [pc |-> "send", round |-> upd.round, drv |-> 1, docs |-> << >>]
      BY <3>2, <3>3, ProtocolAssumption
    <3>4. CASE upd' = [pc |-> "ended", round |-> upd.round, drv |-> upd.drv, docs |-> upd.docs]
      BY <3>2, <3>4
    <3> QED
      BY <3>1, <3>3, <3>4
  <2> QED
    BY <2>2, <2>3, <2>4 DEF TypeInv, TypeOK, Rooted
<1>5. CASE BeforeWait
  <2>1. /\ upd.pc = "send" /\ upd.drv <= NDrives
        /\ UNCHANGED <<docLen, srvVal, greet, inSet, client, known, shown>>
    BY <1>5, SendsValues
  <2>2. CASE upd' = [upd EXCEPT !.pc = "crashed"] /\ UNCHANGED chan
    <3>1. upd' \in [pc : {"read", "send", "ended", "crashed"}, round : 1..MaxRounds,
                    drv : 1..NDrives + 1, docs : Seq(Docs)]
      BY <2>2 DEF TypeInv, TypeOK
    <3> QED
      BY <2>1, <2>2, <3>1 DEF TypeInv, TypeOK, Rooted
  <2>3. ASSUME NEW m \in Messages, m.kind = "val", m.docs # << >>,
               upd' = [upd EXCEPT !.drv = upd.drv + 1, !.docs = m.docs],
               IF inSet THEN Len(chan) < BufCap /\ chan' = Append(chan, m) ELSE UNCHANGED chan
        PROVE  TypeInv'
    <3>1. m.docs \in Seq(Docs) /\ upd.drv \in 1..NDrives + 1 /\ chan \in Seq(Messages)
      BY DEF Messages, TypeInv, TypeOK
    <3>2. upd' \in [pc : {"read", "send", "ended", "crashed"}, round : 1..MaxRounds,
                    drv : 1..NDrives + 1, docs : Seq(Docs)]
      <4>1. upd' = [pc |-> upd.pc, round |-> upd.round, drv |-> upd.drv + 1, docs |-> m.docs]
        BY <2>3 DEF TypeInv, TypeOK
      <4>2. upd.round \in 1..MaxRounds /\ upd.drv + 1 \in 1..NDrives + 1
        BY <2>1, <3>1 DEF TypeInv, TypeOK
      <4> QED
        BY <2>1, <3>1, <4>1, <4>2
    <3>3. chan' \in Seq(Messages) /\ Len(chan') <= BufCap /\ Rooted'
      <4>1. CASE chan' = chan
        BY <4>1 DEF TypeInv, TypeOK, Rooted
      <4>2. CASE Len(chan) < BufCap /\ chan' = Append(chan, m)
        BY <2>3, <3>1, <4>2, Sent DEF Rooted, TypeInv
      <4> QED
        BY <2>3, <4>1, <4>2
    <3> QED
      BY <2>1, <3>2, <3>3 DEF TypeInv, TypeOK
  <2> QED
    BY <1>5, <2>2, <2>3, SendsValues
<1>6. CASE WaitForSignalOrTimeout
  <2>1. upd' \in [pc : {"read", "send", "ended", "crashed"}, round : 1..MaxRounds,
                  drv : 1..NDrives + 1, docs : Seq(Docs)]
    BY <1>6 DEF WaitForSignalOrTimeout, TypeInv, TypeOK
  <2> QED
    BY <1>6, <2>1 DEF WaitForSignalOrTimeout, TypeInv, TypeOK, Rooted
<1>7. CASE GetSupportedSMARTidsFromSrv \/ GetSMARTvaluesAndUpdateUI \/ UpdateSMARTattrValsThreadFunc
  <2> DEFINE m == Head(chan)
  <2>1. Receives
    BY <1>7, ClientReceives
  <2>2. chan \in Seq(Messages) /\ Len(chan) <= BufCap /\ chan # << >> /\ chan' = Tail(chan)
    BY <2>1 DEF TypeInv, TypeOK, Receives
  <2>3. m \in Messages /\ m.docs # << >>
    BY <2>2, Taken DEF Rooted, TypeInv
  <2>4. chan' \in Seq(Messages) /\ Len(chan') <= BufCap /\ Rooted'
    <3>1. chan' \in Seq(Messages) /\ Len(chan') = Len(chan) - 1
      BY <2>2, Taken
    <3>2. Rooted'
      BY <2>2, Taken DEF Rooted, TypeInv
    <3> QED
      BY <2>2, <3>1, <3>2
  <2>5. Root(m).drive \in Drives /\ Root(m).ver \in 0..MaxRounds
    BY <2>3, RootOf
  <2> HIDE DEF m
  <2>6. shown' \in [Drives -> 0..MaxRounds]
    BY <2>1, <2>5 DEF Receives, GetSMARTrawValues, TypeInv, TypeOK, m
  <2>7. known' \subseteq Drives \cup {NoDrive}
    BY <2>1, <2>5 DEF Receives, TypeInv, TypeOK, m
  <2>8. client' \in {"supp", "first", "loop", "noThread", "unconnected"}
    BY <2>1 DEF Receives
  <2> QED
    BY <2>1, <2>4, <2>6, <2>7, <2>8 DEF Receives, TypeInv, TypeOK
<1>8. CASE ReadFails
  BY <1>8 DEF ReadFails, TypeInv, TypeOK, Rooted
<1>9. CASE UNCHANGED vars
  BY <1>9 DEF vars, TypeInv, TypeOK, Rooted
<1> QED
  BY <1>1, <1>2, <1>3, <1>4, <1>5, <1>6, <1>7, <1>8, <1>9
  DEF Next, MainThread, UpdateThread, ClientThread, Reads
(***************************************************************************)
(* The order of values.                                                    *)
(***************************************************************************)

(* The messages with values that are on their way.                         *)
ValIdx(c) == {i \in 1..Len(c) : c[i].kind = "val"}

(* Every message with values has the first drive's at its root, for the    *)
(* stream is never emptied between two drives; from what the client has to *)
(* what the service has these values never fall.                           *)
OrderInv ==
  /\ \A i \in ValIdx(chan) : /\ Root(chan[i]).drive = 1
                       /\ shown[1] <= Root(chan[i]).ver /\ Root(chan[i]).ver <= srvVal[1]
  /\ \A i, j \in ValIdx(chan) : i < j => Root(chan[i]).ver <= Root(chan[j]).ver
  /\ shown[1] <= srvVal[1] /\ srvVal[1] <= upd.round
  /\ upd.pc = "send" => IF upd.docs = << >> THEN upd.drv = 1
                        ELSE upd.docs[1] = [drive |-> 1, ver |-> srvVal[1]]

(* The value the service has is the client's or will be.                   *)
Fresh == shown[1] = srvVal[1] \/ \E i \in ValIdx(chan) : Root(chan[i]).ver = srvVal[1]

(* Values come to a registered client only, and to the first drive only; a *)
(* client whose loop runs has one. As soon as any value came or is on its  *)
(* way, the first drive's newest is not skipped.                           *)
SeenInv ==
  /\ ValIdx(chan) # {} \/ shown[1] > 0 => inSet
  /\ \A d \in Drives : d # 1 => shown[d] = 0
  /\ client = "supp" => shown[1] = 0
  /\ client = "loop" => shown[1] > 0
  /\ Fits /\ upd.pc = "send" /\ upd.drv > 1 /\ (ValIdx(chan) # {} \/ shown[1] > 0) => Fresh
  /\ NoPhantomDrive

ProtocolIInv == TypeInv /\ (Fits => StreamInv) /\ OrderInv /\ SeenInv
(* A multiple of the documents' length is parsed without an error.         *)
LEMMA WholeWellFormed ==
  ASSUME Fits, StreamInv, NEW i \in 1..Len(chan)
  PROVE  WellFormed(chan[i])
<1>1. \A n \in Nat, l \in Nat \ {0} : (n * l) % l = 0
  BY Z3
<1>2. docLen \in Nat \ {0} /\ chan[i].docs \in Seq(Docs) /\ chan[i].len = Bytes(chan[i].docs)
  <2>1. chan[i] \in Messages /\ chan[i].len = Bytes(chan[i].docs)
    BY DEF StreamInv, Whole
  <2>2. docLen \in Nat \ {0}
    BY ProtocolAssumption DEF StreamInv
  <2> QED
    BY <2>1, <2>2 DEF Messages
<1>3. Len(chan[i].docs) \in Nat
  BY <1>2
<1> QED
  BY <1>1, <1>2, <1>3 DEF Bytes, WellFormed

(* The values of the first drive are numbers.                              *)
LEMMA FirstDrive ==
  ASSUME TypeInv
  PROVE  /\ 1 \in Drives /\ shown[1] \in Nat /\ srvVal[1] \in Nat /\ srvVal[1] > 0
         /\ upd.round \in Nat /\ upd.drv \in Nat
         /\ \A i \in ValIdx(chan) : i \in Nat /\ Root(chan[i]).ver \in Nat
<1>1. 1 \in Drives
  BY ProtocolAssumption DEF Drives
<1>2. shown[1] \in Nat /\ srvVal[1] \in Nat /\ srvVal[1] > 0 /\ upd.round \in Nat /\ upd.drv \in Nat
  BY <1>1, ProtocolAssumption DEF TypeInv, TypeOK
<1>3. ASSUME NEW i \in ValIdx(chan) PROVE i \in Nat /\ Root(chan[i]).ver \in Nat
  <2>1. i \in 1..Len(chan) /\ chan \in Seq(Messages) /\ chan[i].docs # << >>
    BY <1>3 DEF ValIdx, TypeInv, TypeOK, Rooted
  <2>2. chan[i] \in Messages
    BY <2>1
  <2> QED
    BY <2>1, <2>2, RootOf, ProtocolAssumption
<1> QED
  BY <1>1, <1>2, <1>3

(* The messages with values after the message m was sent.                  *)
ValsSent(c, d, m) ==
  /\ Len(d) \in Nat
  /\ \A i \in ValIdx(c) : i \in ValIdx(d) /\ d[i] = c[i] /\ i < Len(d)
  /\ \A i \in ValIdx(d) : \/ i \in ValIdx(c) /\ d[i] = c[i] /\ i < Len(d)
                          \/ i = Len(d) /\ d[i] = m /\ m.kind = "val"
  /\ m.kind = "val" => Len(d) \in ValIdx(d) /\ d[Len(d)] = m

LEMMA ValIdxSent ==
  ASSUME NEW c \in Seq(Messages), NEW m \in Messages
  PROVE  ValsSent(c, Append(c, m), m)
<1> DEFINE d == Append(c, m)
<1>1. /\ Len(d) = Len(c) + 1 /\ Len(c) \in Nat
      /\ \A i \in 1..Len(c) : i \in 1..Len(d) /\ d[i] = c[i]
      /\ Len(d) \in 1..Len(d) /\ d[Len(d)] = m
      /\ \A i \in 1..Len(d) : i \in 1..Len(c) \/ i = Len(d)
  BY Sent
<1> HIDE DEF d
<1>2. \A i \in 1..Len(c) : i < Len(d)
  BY <1>1
<1>3. Len(d) \in Nat /\ \A i \in ValIdx(c) : i \in ValIdx(d) /\ d[i] = c[i] /\ i < Len(d)
  BY <1>1, <1>2 DEF ValIdx
<1>4. ASSUME NEW i \in ValIdx(d)
      PROVE  \/ i \in ValIdx(c) /\ d[i] = c[i] /\ i < Len(d)
             \/ i = Len(d) /\ d[i] = m /\ m.kind = "val"
  BY <1>1, <1>2, <1>4 DEF ValIdx
<1>5. m.kind = "val" => Len(d) \in ValIdx(d) /\ d[Len(d)] = m
  BY <1>1 DEF ValIdx
<1> QED
  BY <1>3, <1>4, <1>5 DEF ValsSent, d

(* The messages with values after the first message was received.          *)
LEMMA ValIdxTaken ==
  ASSUME chan \in Seq(Messages), chan # << >>, chan' = Tail(chan)
  PROVE  /\ \A i \in ValIdx(chan') : i \in Nat /\ i + 1 \in ValIdx(chan) /\ chan'[i] = chan[i + 1]
         /\ \A i \in ValIdx(chan) : i = 1 \/ (i - 1 \in ValIdx(chan') /\ chan'[i - 1] = chan[i])
         /\ Head(chan) = chan[1] /\ 1 \in 1..Len(chan)
<1>1. /\ 1 \in 1..Len(chan) /\ Head(chan) = chan[1]
      /\ \A i \in 1..Len(chan') : i + 1 \in 1..Len(chan) /\ chan'[i] = chan[i + 1]
      /\ \A i \in 1..Len(chan) : i = 1 \/ (i - 1 \in 1..Len(chan') /\ chan'[i - 1] = chan[i])
  BY Taken
<1> QED
  BY <1>1 DEF ValIdx

(* What the client has after it has received a message: its old values, or *)
(* the first drive's from the message.                                     *)
LEMMA ShownAfter ==
  ASSUME TypeInv, OrderInv, Receives
  PROVE  \/ shown' = shown /\ ~(client # "supp" /\ 1 \in ValIdx(chan) /\ WellFormed(chan[1]))
         \/ /\ client # "supp" /\ 1 \in ValIdx(chan)
            /\ shown' = [shown EXCEPT ![1] = Root(chan[1]).ver]
            /\ shown'[1] = Root(chan[1]).ver
<1>1. chan \in Seq(Messages) /\ chan # << >> /\ chan' = Tail(chan)
  BY DEF TypeInv, TypeOK, Receives
<1>2. Head(chan) = chan[1] /\ 1 \in 1..Len(chan)
  BY <1>1, ValIdxTaken
<1>3. CASE client = "supp"
  BY <1>3 DEF Receives
<1>4. CASE client # "supp"
  <2>1. shown' = GetSMARTrawValues(chan[1])
    BY <1>2, <1>4 DEF Receives
  <2>2. CASE 1 \in ValIdx(chan) /\ WellFormed(chan[1])
    <3>1. shown' = [shown EXCEPT ![1] = Root(chan[1]).ver]
      BY <2>1, <2>2 DEF GetSMARTrawValues, ValIdx, OrderInv
    <3>2. 1 \in DOMAIN shown
      BY FirstDrive DEF TypeInv, TypeOK
    <3> QED
      BY <1>4, <2>2, <3>1, <3>2
  <2>3. CASE ~(1 \in ValIdx(chan) /\ WellFormed(chan[1]))
    BY <1>2, <2>1, <2>3 DEF GetSMARTrawValues, ValIdx
  <2> QED
    BY <2>2, <2>3
<1> QED
  BY <1>3, <1>4

(* Receiving takes the oldest value first.                                 *)
LEMMA OrderReceived ==
  ASSUME TypeInv, TypeInv', OrderInv, Receives
  PROVE  OrderInv' /\ shown[1] <= shown'[1]
<1>1. chan \in Seq(Messages) /\ chan # << >> /\ chan' = Tail(chan) /\ UNCHANGED <<srvVal, upd>>
  BY DEF TypeInv, TypeOK, Receives
<1>2. /\ \A i \in ValIdx(chan') : i \in Nat /\ i + 1 \in ValIdx(chan) /\ chan'[i] = chan[i + 1]
      /\ 1 \in 1..Len(chan)
  BY <1>1, ValIdxTaken
<1>3. /\ shown[1] \in Nat /\ srvVal[1] \in Nat /\ shown'[1] \in Nat
      /\ \A i \in ValIdx(chan) : i \in Nat /\ Root(chan[i]).ver \in Nat
  <2>1. shown'[1] \in Nat
    BY FirstDrive, ProtocolAssumption DEF TypeInv, TypeOK
  <2> QED
    BY <2>1, FirstDrive
<1>4. /\ shown[1] <= shown'[1] /\ shown'[1] <= srvVal[1]
      /\ \A i \in ValIdx(chan') : shown'[1] <= Root(chan'[i]).ver
  <2>1. CASE shown' = shown
    BY <1>2, <1>3, <2>1 DEF OrderInv
  <2>2. CASE 1 \in ValIdx(chan) /\ shown'[1] = Root(chan[1]).ver
    <3>1. shown[1] <= shown'[1] /\ shown'[1] <= srvVal[1]
      BY <2>2 DEF OrderInv
    <3>2. ASSUME NEW i \in ValIdx(chan') PROVE shown'[1] <= Root(chan'[i]).ver
      <4>1. i \in Nat /\ i + 1 \in ValIdx(chan) /\ chan'[i] = chan[i + 1] /\ i > 0
        BY <1>2, <3>2 DEF ValIdx
      <4> QED
        BY <2>2, <4>1 DEF OrderInv
    <3> QED
      BY <3>1, <3>2
  <2> QED
    BY <2>1, <2>2, ShownAfter
<1>5. \A i \in ValIdx(chan') : Root(chan'[i]).drive = 1 /\ Root(chan'[i]).ver <= srvVal[1]
  BY <1>2 DEF OrderInv
<1>6. ASSUME NEW i \in ValIdx(chan'), NEW j \in ValIdx(chan'), i < j
      PROVE  Root(chan'[i]).ver <= Root(chan'[j]).ver
  <2>1. /\ i \in Nat /\ j \in Nat /\ i + 1 \in ValIdx(chan) /\ j + 1 \in ValIdx(chan)
        /\ chan'[i] = chan[i + 1] /\ chan'[j] = chan[j + 1]
    BY <1>2
  <2>2. i + 1 < j + 1
    BY <1>6, <2>1
  <2> QED
    BY <2>1, <2>2 DEF OrderInv
<1> QED
  BY <1>1, <1>4, <1>5, <1>6 DEF OrderInv

(* Sending appends the newest value.                                       *)
LEMMA OrderSent ==
  ASSUME TypeInv, OrderInv, NEW m \in Messages, ValsSent(chan, chan', m),
         UNCHANGED <<srvVal, shown>>,
         m.kind = "val" => Root(m) = [drive |-> 1, ver |-> srvVal[1]]
  PROVE  /\ \A i \in ValIdx(chan') :
              /\ Root(chan'[i]).drive = 1
              /\ shown'[1] <= Root(chan'[i]).ver /\ Root(chan'[i]).ver <= srvVal'[1]
         /\ \A i, j \in ValIdx(chan') : i < j => Root(chan'[i]).ver <= Root(chan'[j]).ver
<1>1. /\ \A i \in ValIdx(chan') : \/ i \in ValIdx(chan) /\ chan'[i] = chan[i] /\ i < Len(chan')
                                  \/ i = Len(chan') /\ chan'[i] = m /\ m.kind = "val"
      /\ Len(chan') \in Nat
  BY DEF ValsSent
<1>2. /\ shown[1] \in Nat /\ srvVal[1] \in Nat /\ shown[1] <= srvVal[1]
      /\ \A i \in ValIdx(chan) : i \in Nat /\ Root(chan[i]).ver \in Nat
  BY FirstDrive DEF OrderInv
<1>3. m.kind = "val" => Root(m).drive = 1 /\ Root(m).ver = srvVal[1]
  OBVIOUS
<1>4. ASSUME NEW i \in ValIdx(chan')
      PROVE  /\ Root(chan'[i]).drive = 1
             /\ shown'[1] <= Root(chan'[i]).ver /\ Root(chan'[i]).ver <= srvVal'[1]
  BY <1>1, <1>2, <1>3, <1>4 DEF OrderInv
<1>5. ASSUME NEW i \in ValIdx(chan'), NEW j \in ValIdx(chan'), i < j
      PROVE  Root(chan'[i]).ver <= Root(chan'[j]).ver
  <2>1. CASE j \in ValIdx(chan) /\ chan'[j] = chan[j] /\ j < Len(chan')
    <3>1. i \in ValIdx(chan) /\ chan'[i] = chan[i]
      BY <1>1, <1>2, <1>5, <2>1
    <3> QED
      BY <1>5, <2>1, <3>1 DEF OrderInv
  <2>2. CASE j = Len(chan') /\ chan'[j] = m /\ m.kind = "val"
    <3>1. i \in ValIdx(chan) /\ chan'[i] = chan[i]
      BY <1>1, <1>2, <1>5, <2>2
    <3> QED
      BY <1>3, <2>2, <3>1 DEF OrderInv
  <2> QED
    BY <1>1, <2>1, <2>2
<1> QED
  BY <1>4, <1>5
(* The update thread's record after a step.                                *)
LEMMA UpdAfter ==
  ASSUME TypeInv, NEW n, NEW docs
  PROVE  /\ [upd EXCEPT !.pc = "crashed"].pc = "crashed"
         /\ [upd EXCEPT !.pc = "crashed"].round = upd.round
         /\ [upd EXCEPT !.pc = "ended"].pc = "ended"
         /\ [upd EXCEPT !.pc = "ended"].round = upd.round
         /\ LET u == [upd EXCEPT !.drv = n, !.docs = docs] IN
            u.pc = upd.pc /\ u.round = upd.round /\ u.drv = n /\ u.docs = docs
         /\ LET u == [upd EXCEPT !.pc = "send", !.drv = n, !.docs = docs] IN
            u.pc = "send" /\ u.round = upd.round /\ u.drv = n /\ u.docs = docs
  BY DEF TypeInv, TypeOK

(* The message BeforeWait makes has the first drive's newest value at its  *)
(* root.                                                                   *)
LEMMA FirstAtRoot ==
  ASSUME TypeInv, OrderInv, upd.pc = "send", NEW m,
         Root(m) = IF upd.docs = << >> THEN [drive |-> upd.drv, ver |-> srvVal[upd.drv]]
                   ELSE upd.docs[1]
  PROVE  Root(m) = [drive |-> 1, ver |-> srvVal[1]]
  BY DEF OrderInv

LEMMA OrderStep == TypeInv /\ TypeInv' /\ OrderInv /\ [Next]_vars => OrderInv'
<1> SUFFICES ASSUME TypeInv, TypeInv', OrderInv, [Next]_vars PROVE OrderInv'
  OBVIOUS
<1>1. CASE NoSupportedIDs
  BY <1>1 DEF NoSupportedIDs, OrderInv
<1>2. CASE SendSupportedSMART_IDsToClient
  <2>1. CASE /\ upd' = [upd EXCEPT !.pc = "crashed"]
             /\ UNCHANGED <<docLen, srvVal, greet, inSet, chan, client, known, shown>>
    <3>1. upd'.pc = "crashed" /\ upd'.round = upd.round
      BY <2>1, UpdAfter
    <3> QED
      BY <2>1, <3>1 DEF OrderInv
  <2>2. ASSUME NEW m \in Messages, m.kind = "supp", chan' = Append(chan, m),
               UNCHANGED <<srvVal, upd, shown>>
        PROVE  OrderInv'
    <3>1. ValsSent(chan, chan', m)
      BY <2>2, ValIdxSent DEF TypeInv, TypeOK
    <3>2. /\ \A i \in ValIdx(chan') :
               /\ Root(chan'[i]).drive = 1
               /\ shown'[1] <= Root(chan'[i]).ver /\ Root(chan'[i]).ver <= srvVal'[1]
          /\ \A i, j \in ValIdx(chan') : i < j => Root(chan'[i]).ver <= Root(chan'[j]).ver
      BY <2>2, <3>1, OrderSent
    <3>3. UNCHANGED <<srvVal, upd, shown>>
      BY <2>2
    <3> QED
      BY <3>2, <3>3 DEF OrderInv
  <2> QED
    BY <1>2, <2>1, <2>2, SendsIDs
<1>3. CASE AddClient
  BY <1>3 DEF AddClient, OrderInv
<1>4. CASE Reads
  <2>2. PICK read \in SUBSET Drives :
             /\ srvVal' = [d \in Drives |-> IF d \in read THEN upd.round ELSE srvVal[d]]
             /\ \/ upd' = [upd EXCEPT !.pc = "send", !.drv = 1, !.docs = << >>]
                \/ upd' = [upd EXCEPT !.pc = "ended"]
             /\ UNCHANGED <<chan, shown>>
    BY <1>4, AfterReading
  <2>3. /\ upd'.round = upd.round
        /\ upd'.pc = "send" => upd'.drv = 1 /\ upd'.docs = << >>
    <3>1. CASE upd' = [upd EXCEPT !.pc = "send", !.drv = 1, !.docs = << >>]
      BY <3>1, UpdAfter
    <3>2. CASE upd' = [upd EXCEPT !.pc = "ended"]
      BY <3>2, UpdAfter
    <3> QED
      BY <2>2, <3>1, <3>2
  <2>4. srvVal'[1] = upd.round \/ srvVal'[1] = srvVal[1]
    BY <2>2, FirstDrive
  <2>5. srvVal[1] <= srvVal'[1] /\ srvVal'[1] <= upd.round
    BY <2>4, FirstDrive DEF OrderInv
  <2>6. srvVal'[1] \in Nat
    BY <2>4, FirstDrive
  <2>7. /\ shown'[1] <= srvVal'[1]
        /\ \A i \in ValIdx(chan) : Root(chan[i]).ver <= srvVal'[1]
    BY <2>2, <2>5, <2>6, FirstDrive DEF OrderInv
  <2> QED
    BY <2>2, <2>3, <2>5, <2>7 DEF OrderInv
<1>5. CASE BeforeWait
  <2>1. upd.pc = "send" /\ UNCHANGED <<srvVal, inSet, shown>>
    BY <1>5, SendsValues
  <2>2. CASE upd' = [upd EXCEPT !.pc = "crashed"] /\ UNCHANGED chan
    <3>1. upd'.pc = "crashed" /\ upd'.round = upd.round
      BY <2>2, UpdAfter
    <3> QED
      BY <2>1, <2>2, <3>1 DEF OrderInv
  <2>3. ASSUME NEW m \in Messages, m.kind = "val", m.docs # << >>,
               Root(m) = IF upd.docs = << >>
                         THEN [drive |-> upd.drv, ver |-> srvVal[upd.drv]] ELSE upd.docs[1],
               upd' = [upd EXCEPT !.drv = upd.drv + 1, !.docs = m.docs],
               IF inSet THEN Len(chan) < BufCap /\ chan' = Append(chan, m) ELSE UNCHANGED chan
        PROVE  OrderInv'
    <3>1. Root(m) = [drive |-> 1, ver |-> srvVal[1]]
      BY <2>1, <2>3, FirstAtRoot
    <3>2. upd'.pc = "send" /\ upd'.round = upd.round /\ upd'.docs = m.docs
      BY <2>1, <2>3, UpdAfter
    <3>3. upd'.docs # << >> /\ upd'.docs[1] = [drive |-> 1, ver |-> srvVal'[1]]
      BY <2>1, <2>3, <3>1, <3>2 DEF Root
    <3>4. /\ \A i \in ValIdx(chan') :
               /\ Root(chan'[i]).drive = 1
               /\ shown'[1] <= Root(chan'[i]).ver /\ Root(chan'[i]).ver <= srvVal'[1]
          /\ \A i, j \in ValIdx(chan') : i < j => Root(chan'[i]).ver <= Root(chan'[j]).ver
      <4>1. CASE chan' = chan
        BY <2>1, <4>1 DEF OrderInv
      <4>2. CASE chan' = Append(chan, m)
        <5>1. ValsSent(chan, chan', m)
          BY <4>2, ValIdxSent DEF TypeInv, TypeOK
        <5> QED
          BY <2>1, <3>1, <5>1, OrderSent
      <4> QED
        BY <2>3, <4>1, <4>2
    <3>5. shown'[1] <= srvVal'[1] /\ srvVal'[1] <= upd'.round
      BY <2>1, <3>2 DEF OrderInv
    <3> QED
      BY <3>3, <3>4, <3>5 DEF OrderInv
  <2> QED
    BY <1>5, <2>2, <2>3, SendsValues
<1>6. CASE WaitForSignalOrTimeout
  <2>1. /\ upd'.pc = "read" /\ UNCHANGED <<srvVal, chan, shown>>
        /\ upd'.round = IF upd.round < MaxRounds THEN upd.round + 1 ELSE MaxRounds
    BY <1>6 DEF WaitForSignalOrTimeout
  <2>2. srvVal[1] <= upd'.round
    <3>1. srvVal[1] <= MaxRounds /\ MaxRounds \in Nat
      BY FirstDrive, ProtocolAssumption DEF TypeInv, TypeOK
    <3> QED
      BY <2>1, <3>1, FirstDrive DEF OrderInv
  <2> QED
    BY <2>1, <2>2 DEF OrderInv
<1>7. CASE GetSupportedSMARTidsFromSrv \/ GetSMARTvaluesAndUpdateUI \/ UpdateSMARTattrValsThreadFunc
  BY <1>7, ClientReceives, OrderReceived
<1>8. CASE ReadFails
  BY <1>8 DEF ReadFails, OrderInv
<1>9. CASE UNCHANGED vars
  BY <1>9 DEF vars, OrderInv
<1> QED
  BY <1>1, <1>2, <1>3, <1>4, <1>5, <1>6, <1>7, <1>8, <1>9
  DEF Next, MainThread, UpdateThread, ClientThread, Reads

(* Only receiving changes what the client has, and never to older values.  *)
LEMMA ShownGrows ==
  TypeInv /\ TypeInv' /\ OrderInv /\ [Next]_vars => \A d \in Drives : shown'[d] >= shown[d]
<1> SUFFICES ASSUME TypeInv, TypeInv', OrderInv, [Next]_vars, NEW d \in Drives
             PROVE  shown'[d] >= shown[d]
  OBVIOUS
<1>1. shown[d] \in Nat /\ shown \in [Drives -> 0..MaxRounds]
  BY ProtocolAssumption DEF TypeInv, TypeOK
<1>2. CASE GetSupportedSMARTidsFromSrv \/ GetSMARTvaluesAndUpdateUI \/ UpdateSMARTattrValsThreadFunc
  <2>1. Receives
    BY <1>2, ClientReceives
  <2>2. shown' = shown \/ shown' = [shown EXCEPT ![1] = Root(chan[1]).ver]
    BY <2>1, ShownAfter
  <2>3. shown[1] <= shown'[1] /\ shown[1] \in Nat /\ shown'[1] \in Nat
    <3>1. shown'[1] \in Nat
      <4>1. 1 \in Drives /\ shown' \in [Drives -> 0..MaxRounds]
        BY FirstDrive DEF TypeInv, TypeOK
      <4> QED
        BY <4>1, ProtocolAssumption
    <3> QED
      BY <2>1, <3>1, OrderReceived, FirstDrive
  <2>4. CASE d = 1
    BY <2>3, <2>4
  <2>5. CASE d # 1
    BY <1>1, <2>2, <2>5
  <2> QED
    BY <2>4, <2>5
<1>3. CASE ~(GetSupportedSMARTidsFromSrv \/ GetSMARTvaluesAndUpdateUI
             \/ UpdateSMARTattrValsThreadFunc)
  <2>1. shown' = shown
    BY <1>3 DEF Next, vars, MainThread, UpdateThread, ClientThread, NoSupportedIDs,
      SendSupportedSMART_IDsToClient, AddClient, ReadSMARTValuesForAllDrives, BeforeWait,
      WaitForSignalOrTimeout, ReadFails
  <2> QED
    BY <1>1, <2>1
<1> QED
  BY <1>2, <1>3
(***************************************************************************)
(* No value is skipped.                                                    *)
(***************************************************************************)

(* Sending keeps the newest value fresh; a message with values is fresh.   *)
LEMMA FreshSent ==
  ASSUME TypeInv, NEW m \in Messages, ValsSent(chan, chan', m), UNCHANGED <<srvVal, shown>>,
         m.kind = "val" => Root(m) = [drive |-> 1, ver |-> srvVal[1]]
  PROVE  /\ Fresh => Fresh'
         /\ m.kind = "val" => Fresh'
         /\ m.kind # "val" /\ ValIdx(chan) = {} => ValIdx(chan') = {}
<1>1. Fresh => Fresh'
  BY DEF Fresh, ValsSent
<1>2. m.kind = "val" => Fresh'
  <2>1. ASSUME m.kind = "val" PROVE Fresh'
    <3>1. Len(chan') \in ValIdx(chan') /\ chan'[Len(chan')] = m /\ Root(m).ver = srvVal'[1]
      BY <2>1 DEF ValsSent
    <3> QED
      BY <3>1 DEF Fresh
  <2> QED
    BY <2>1
<1>3. m.kind # "val" /\ ValIdx(chan) = {} => ValIdx(chan') = {}
  BY DEF ValsSent
<1> QED
  BY <1>1, <1>2, <1>3

(* Receiving takes a value that the client shows, or an older one than one *)
(* that is still on its way; the client that waits for the supported IDs   *)
(* may drop the only one.                                                  *)
LEMMA FreshReceived ==
  ASSUME TypeInv, OrderInv, Receives, Fits, StreamInv, Fresh,
         client = "supp" => shown[1] = 0,
         ValIdx(chan') # {} \/ shown'[1] > 0
  PROVE  Fresh'
<1>1. chan \in Seq(Messages) /\ chan # << >> /\ chan' = Tail(chan) /\ UNCHANGED <<srvVal, upd>>
  BY DEF TypeInv, TypeOK, Receives
<1>2. /\ \A i \in ValIdx(chan') : i \in Nat /\ i + 1 \in ValIdx(chan) /\ chan'[i] = chan[i + 1]
      /\ \A i \in ValIdx(chan) : i = 1 \/ (i - 1 \in ValIdx(chan') /\ chan'[i - 1] = chan[i])
      /\ 1 \in 1..Len(chan)
  BY <1>1, ValIdxTaken
<1>3. WellFormed(chan[1])
  BY <1>2, WholeWellFormed
<1>4. /\ shown[1] \in Nat /\ srvVal[1] \in Nat /\ srvVal[1] > 0 /\ srvVal'[1] = srvVal[1]
      /\ \A i \in ValIdx(chan) : i \in Nat /\ Root(chan[i]).ver \in Nat
  BY <1>1, FirstDrive
<1>5. CASE \E i \in ValIdx(chan) : i # 1 /\ Root(chan[i]).ver = srvVal[1]
  BY <1>2, <1>4, <1>5 DEF Fresh
<1>6. CASE 1 \in ValIdx(chan) /\ Root(chan[1]).ver = srvVal[1] /\ client # "supp"
  <2>1. shown'[1] = Root(chan[1]).ver
    BY <1>3, <1>6, ShownAfter
  <2> QED
    BY <1>4, <1>6, <2>1 DEF Fresh
<1>7. CASE 1 \in ValIdx(chan) /\ Root(chan[1]).ver = srvVal[1] /\ client = "supp"
  <2>1. shown' = shown
    BY <1>7, ShownAfter
  <2>2. PICK i \in ValIdx(chan') : TRUE
    BY <1>4, <1>7, <2>1
  <2>3. i \in Nat /\ i > 0 /\ i + 1 \in ValIdx(chan) /\ chan'[i] = chan[i + 1]
    BY <1>2 DEF ValIdx
  <2>4. 1 < i + 1
    BY <2>3
  <2>5. Root(chan[1]).ver <= Root(chan[i + 1]).ver /\ Root(chan[i + 1]).ver <= srvVal[1]
    BY <1>7, <2>3, <2>4 DEF OrderInv
  <2>6. Root(chan'[i]).ver = srvVal[1]
    BY <1>4, <1>7, <2>3, <2>5
  <2> QED
    BY <1>4, <2>2, <2>6 DEF Fresh
<1>8. CASE shown[1] = srvVal[1]
  <2>1. CASE shown' = shown
    BY <1>4, <1>8, <2>1 DEF Fresh
  <2>2. CASE 1 \in ValIdx(chan) /\ shown'[1] = Root(chan[1]).ver
    <3>1. shown[1] <= Root(chan[1]).ver /\ Root(chan[1]).ver <= srvVal[1]
      BY <2>2 DEF OrderInv
    <3>2. shown'[1] = srvVal'[1]
      BY <1>4, <1>8, <2>2, <3>1
    <3> QED
      BY <3>2 DEF Fresh
  <2> QED
    BY <2>1, <2>2, ShownAfter
<1> QED
  BY <1>5, <1>6, <1>7, <1>8 DEF Fresh

(* Of a client that receives, the rest of SeenInv.                         *)
LEMMA SeenReceived ==
  ASSUME TypeInv, TypeInv', OrderInv, SeenInv, Receives, Fits => StreamInv
  PROVE  SeenInv'
<1>1. chan \in Seq(Messages) /\ chan # << >> /\ chan' = Tail(chan)
  BY DEF TypeInv, TypeOK, Receives
<1>2. UNCHANGED <<docLen, srvVal, inSet, upd>>
  BY DEF Receives
<1>3. \A i \in ValIdx(chan') : i + 1 \in ValIdx(chan)
  BY <1>1, ValIdxTaken
<1>4. 1 \in Drives /\ shown[1] \in Nat /\ shown'[1] \in Nat
  <2>1. 1 \in Drives /\ shown[1] \in Nat /\ shown' \in [Drives -> 0..MaxRounds]
    BY FirstDrive DEF TypeInv, TypeOK
  <2> QED
    BY <2>1, ProtocolAssumption
<1>5. shown[1] <= shown'[1] /\ (shown' = shown \/ 1 \in ValIdx(chan))
  BY OrderReceived, ShownAfter
<1>6. ValIdx(chan') # {} \/ shown'[1] > 0 => ValIdx(chan) # {} \/ shown[1] > 0
  BY <1>3, <1>5
<1>7. ValIdx(chan') # {} \/ shown'[1] > 0 => inSet'
  BY <1>2, <1>6 DEF SeenInv
<1>8. \A d \in Drives : d # 1 => shown'[d] = 0
  <2>1. shown' = shown \/ shown' = [shown EXCEPT ![1] = Root(chan[1]).ver]
    BY ShownAfter
  <2>2. shown \in [Drives -> 0..MaxRounds]
    BY DEF TypeInv, TypeOK
  <2> QED
    BY <2>1, <2>2 DEF SeenInv
<1>9. client' = "supp" => shown'[1] = 0
  BY DEF Receives
<1>10. client' = "loop" => shown'[1] > 0
  <2>1. CASE client = "loop"
    BY <1>4, <1>5, <2>1 DEF SeenInv
  <2>2. CASE \E d \in Drives : shown'[d] > 0
    BY <1>4, <1>8, <2>2
  <2> QED
    BY <2>1, <2>2 DEF Receives
<1>11. Fits' <=> Fits
  BY <1>2 DEF Fits, FittingLens
<1>12. ASSUME Fits, upd'.pc = "send", upd'.drv > 1, ValIdx(chan') # {} \/ shown'[1] > 0
       PROVE  Fresh'
  <2>1. Fresh
    BY <1>2, <1>6, <1>12 DEF SeenInv
  <2> QED
    BY <1>12, <2>1, FreshReceived DEF SeenInv
<1>13. NoPhantomDrive'
  <2>1. ASSUME Fits PROVE NoDrive \notin known'
    <3>1. 1 \in 1..Len(chan) /\ Head(chan) = chan[1] /\ chan[1] \in Messages
      BY <1>1, Taken
    <3>2. Root(chan[1]).drive \in Drives
      BY <3>1, RootOf DEF TypeInv, Rooted
    <3>3. NoDrive \notin Drives
      BY ProtocolAssumption DEF NoDrive, Drives
    <3>4. WellFormed(chan[1])
      BY <2>1, <3>1, WholeWellFormed
    <3>5. NoDrive \notin known
      BY <2>1 DEF SeenInv, NoPhantomDrive
    <3> QED
      BY <3>1, <3>2, <3>3, <3>4, <3>5 DEF Receives
  <2> QED
    BY <1>11, <2>1 DEF NoPhantomDrive
<1> QED
  BY <1>7, <1>8, <1>9, <1>10, <1>11, <1>12, <1>13 DEF SeenInv

LEMMA SeenStep ==
  TypeInv /\ TypeInv' /\ OrderInv /\ SeenInv /\ (Fits => StreamInv) /\ [Next]_vars => SeenInv'
<1> SUFFICES ASSUME TypeInv, TypeInv', OrderInv, SeenInv, Fits => StreamInv, [Next]_vars
             PROVE  SeenInv'
  OBVIOUS
<1>f. Fits' <=> Fits
  BY LengthStays DEF Fits, FittingLens
<1>1. CASE NoSupportedIDs
  BY <1>1, <1>f DEF NoSupportedIDs, SeenInv, Fresh, NoPhantomDrive
<1>2. CASE SendSupportedSMART_IDsToClient
  <2>1. CASE /\ upd' = [upd EXCEPT !.pc = "crashed"]
             /\ UNCHANGED <<docLen, srvVal, greet, inSet, chan, client, known, shown>>
    <3>1. upd'.pc = "crashed"
      BY <2>1, UpdAfter
    <3> QED
      BY <2>1, <3>1, <1>f DEF SeenInv, NoPhantomDrive
  <2>2. ASSUME NEW m \in Messages, m.kind = "supp", chan' = Append(chan, m),
               UNCHANGED <<srvVal, upd, shown, inSet, client, known>>
        PROVE  SeenInv'
    <3>1. ValsSent(chan, chan', m)
      BY <2>2, ValIdxSent DEF TypeInv, TypeOK
    <3>2. UNCHANGED <<srvVal, upd, shown, inSet, client, known>>
      BY <2>2
    <3>3. (Fresh => Fresh') /\ (ValIdx(chan) = {} => ValIdx(chan') = {})
      BY <2>2, <3>1, FreshSent
    <3> QED
      BY <1>f, <3>2, <3>3 DEF SeenInv, NoPhantomDrive
  <2> QED
    BY <1>2, <2>1, <2>2, SendsIDs
<1>3. CASE AddClient
  BY <1>3, <1>f DEF AddClient, SeenInv, Fresh, NoPhantomDrive
<1>4. CASE Reads
  <2>2. /\ \/ upd' = [upd EXCEPT !.pc = "send", !.drv = 1, !.docs = << >>]
           \/ upd' = [upd EXCEPT !.pc = "ended"]
        /\ UNCHANGED <<inSet, chan, client, known, shown>>
    BY <1>4, AfterReading
  <2>3. ~(upd'.pc = "send" /\ upd'.drv > 1)
    <3>1. CASE upd' = [upd EXCEPT !.pc = "send", !.drv = 1, !.docs = << >>]
      BY <3>1, UpdAfter
    <3>2. CASE upd' = [upd EXCEPT !.pc = "ended"]
      BY <3>2, UpdAfter
    <3> QED
      BY <2>2, <3>1, <3>2
  <2> QED
    BY <1>f, <2>2, <2>3 DEF SeenInv, NoPhantomDrive
<1>5. CASE BeforeWait
  <2>1. upd.pc = "send" /\ UNCHANGED <<srvVal, inSet, client, known, shown>>
    BY <1>5, SendsValues
  <2>2. CASE upd' = [upd EXCEPT !.pc = "crashed"] /\ UNCHANGED chan
    <3>1. upd'.pc = "crashed"
      BY <2>2, UpdAfter
    <3> QED
      BY <1>f, <2>1, <2>2, <3>1 DEF SeenInv, NoPhantomDrive
  <2>3. ASSUME NEW m \in Messages, m.kind = "val",
               Root(m) = IF upd.docs = << >>
                         THEN [drive |-> upd.drv, ver |-> srvVal[upd.drv]] ELSE upd.docs[1],
               IF inSet THEN Len(chan) < BufCap /\ chan' = Append(chan, m) ELSE UNCHANGED chan
        PROVE  SeenInv'
    <3>1. Root(m) = [drive |-> 1, ver |-> srvVal[1]]
      BY <2>1, <2>3, FirstAtRoot
    <3>2. CASE ~inSet
      <4>1. chan' = chan
        BY <2>3, <3>2
      <4> QED
        BY <1>f, <2>1, <3>2, <4>1 DEF SeenInv, NoPhantomDrive
    <3>3. CASE inSet
      <4>1. ValsSent(chan, chan', m)
        BY <2>3, <3>3, ValIdxSent DEF TypeInv, TypeOK
      <4>2. Fresh'
        BY <2>1, <2>3, <3>1, <4>1, FreshSent
      <4> QED
        BY <1>f, <2>1, <3>3, <4>2 DEF SeenInv, NoPhantomDrive
    <3> QED
      BY <3>2, <3>3
  <2> QED
    BY <1>5, <2>2, <2>3, SendsValues
<1>6. CASE WaitForSignalOrTimeout
  BY <1>6, <1>f DEF WaitForSignalOrTimeout, SeenInv, NoPhantomDrive
<1>7. CASE GetSupportedSMARTidsFromSrv \/ GetSMARTvaluesAndUpdateUI \/ UpdateSMARTattrValsThreadFunc
  BY <1>7, ClientReceives, SeenReceived
<1>8. CASE ReadFails
  BY <1>8, <1>f DEF ReadFails, SeenInv, Fresh, NoPhantomDrive
<1>9. CASE UNCHANGED vars
  BY <1>9, <1>f DEF vars, SeenInv, Fresh, NoPhantomDrive
<1> QED
  BY <1>1, <1>2, <1>3, <1>4, <1>5, <1>6, <1>7, <1>8, <1>9
  DEF Next, MainThread, UpdateThread, ClientThread, Reads

(***************************************************************************)
(* The theorems.                                                           *)
(***************************************************************************)

LEMMA ProtocolInit == Init => ProtocolIInv
<1> SUFFICES ASSUME Init PROVE ProtocolIInv
  OBVIOUS
<1> USE ProtocolAssumption
<1>1. chan = << >> /\ Len(chan) = 0 /\ chan \in Seq(Messages) /\ << >> \in Seq(Docs)
  BY DEF Init
<1>2. ValIdx(chan) = {}
  BY <1>1 DEF ValIdx
<1>3. 1 \in Drives /\ shown[1] = 0 /\ srvVal[1] = 1
  BY DEF Init, Drives
<1>4. StreamInv
  BY DEF Init, StreamInv, Whole, Drives
<1>5. TypeInv
  <2>1. inSet \in BOOLEAN /\ known \subseteq Drives \cup {NoDrive} /\ Len(chan) <= BufCap
    <3>1. Len(chan) <= BufCap
      BY <1>1
    <3>2. inSet \in BOOLEAN /\ known \subseteq Drives \cup {NoDrive}
      BY Zenon DEF Init
    <3> QED
      BY <3>1, <3>2
  <2>2. shown \in [Drives -> 0..MaxRounds] /\ client = "supp" /\ Rooted
    BY <1>1 DEF Init, Rooted
  <2> QED
    BY <1>4, <2>1, <2>2 DEF StreamInv, TypeInv, TypeOK
<1>6. OrderInv
  BY <1>2, <1>3 DEF Init, OrderInv
<1>7. SeenInv
  BY <1>2, <1>3 DEF Init, SeenInv, NoPhantomDrive
<1> QED
  BY <1>4, <1>5, <1>6, <1>7 DEF ProtocolIInv

LEMMA ProtocolStep == ProtocolIInv /\ [Next]_vars => ProtocolIInv'
<1> SUFFICES ASSUME ProtocolIInv, [Next]_vars PROVE ProtocolIInv'
  OBVIOUS
<1>1. TypeInv'
  BY TypeStep DEF ProtocolIInv
<1>2. (Fits => StreamInv)'
  <2>1. Fits' <=> Fits
    BY LengthStays DEF Fits, FittingLens
  <2> QED
    BY <2>1, StreamStep DEF ProtocolIInv
<1>3. OrderInv'
  BY <1>1, OrderStep DEF ProtocolIInv
<1>4. SeenInv'
  BY <1>1, SeenStep DEF ProtocolIInv
<1> QED
  BY <1>1, <1>2, <1>3, <1>4 DEF ProtocolIInv

(* For any number of drives, any lengths of documents and any size of the  *)
(* buffers: when the documents fit and the client's loop runs the newest   *)
(* value of the first drive is shown or on its way, no drive is listed     *)
(* that the service does not have (SendBytesToAllClients,                  *)
(* GetSMARTattrValsFromSrv), and every variable stays in its range.        *)
THEOREM NoValueSkipped == Spec => []ProtocolInv
<1>1. ProtocolIInv => ProtocolInv
  <2> SUFFICES ASSUME ProtocolIInv PROVE TypeOK /\ NoneSkipped /\ NoPhantomDrive
    BY DEF ProtocolInv
  <2>1. NoneSkipped
    <3> SUFFICES ASSUME Fits, client = "loop", upd.pc = "send", upd.drv > 1
                 PROVE  \/ shown[1] = srvVal[1]
                        \/ \E i \in 1..Len(chan) : Root(chan[i]).ver = srvVal[1]
      BY DEF NoneSkipped
    <3>1. Fresh
      BY DEF ProtocolIInv, SeenInv
    <3> QED
      BY <3>1 DEF Fresh, ValIdx
  <2> QED
    BY <2>1 DEF ProtocolIInv, TypeInv, SeenInv
<1> QED
  BY <1>1, ProtocolInit, ProtocolStep, PTL DEF Spec

(* A value the client has is never replaced by an older one, also when     *)
(* lengths wrap, messages are cut or taken for others, or the service      *)
(* crashes (GetSMARTattrValsFromSrv, BeforeWait).                          *)
THEOREM ValuesNeverOlder == Spec => NeverOlder
<1>1. ProtocolIInv /\ ProtocolIInv' /\ [Next]_vars => [\A d \in Drives : shown'[d] >= shown[d]]_vars
  BY ShownGrows DEF ProtocolIInv
<1> QED
  BY <1>1, ProtocolInit, ProtocolStep, PTL DEF Spec, NeverOlder
=============================================================================
