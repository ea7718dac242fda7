--------------------------- MODULE SMARTattrProofs ---------------------------
(***************************************************************************)
(* Proofs about SMARTattr: what a row shows is never newer than the time   *)
(* next to it, for any attributes of any widths, any uptimes, any number   *)
(* of samples and whatever the critical section does.                      *)
(***************************************************************************)
EXTENDS SMARTattr, TLAPS

(* The exclusive or of two longs is a long.                                *)
LEMMA XorType == ASSUME NEW x \in Longs, NEW y \in Longs PROVE Xor(x, y) \in Longs
BY DEF Longs, Xor

(* The parts of an uptime are longs.                                       *)
LEMMA TimeType ==
  ASSUME AttrConstants, NEW n \in Samples, n # 0
  PROVE  TimeOf[n][1] \in Longs /\ TimeOf[n][2] \in Longs
<1>1. n \in 1..NSamples
  BY DEF AttrConstants, Samples
<1>2. TimeOf[n] \in Longs \X Longs
  BY <1>1 DEF AttrConstants
<1> QED
  BY <1>2

(* A new object satisfies the invariant.                                   *)
LEMMA InitAttr == AttrConstants /\ Init => AttrInv
<1> SUFFICES ASSUME AttrConstants, Init PROVE AttrInv
  OBVIOUS
<1>1. TypeOK
  BY DEF AttrConstants, Init, TypeOK, Samples, WrPcs, RdPcs, Longs
<1>2. SampleInv
  BY DEF Init, SampleInv
<1>3. TimeInv
  BY DEF Init, TimeInv, LowStored, HighStored, WrPcs, TimeSince, Since
<1>4. CopyInv
  BY DEF Init, CopyInv, Copied
<1> QED
  BY <1>1, <1>2, <1>3, <1>4 DEF AttrInv

(* Every step of the two threads keeps the types.                          *)
LEMMA TypeStep == AttrConstants /\ TypeOK /\ SampleInv /\ [Next]_vars => TypeOK'
<1> SUFFICES ASSUME AttrConstants, TypeOK, SampleInv, [Next]_vars PROVE TypeOK'
  OBVIOUS
<1> USE DEF TypeOK, WrPcs, RdPcs, WrUnchanged, RdUnchanged
<1>1. CASE ReadDrive
  <2>1. wr.sample + 1 \in Samples
    BY <1>1 DEF AttrConstants, ReadDrive, Samples
  <2> QED
    BY <1>1, <2>1 DEF ReadDrive
<1>2. CASE \E a \in Attrs : SetFlag(a)
  <2>1. PICK a \in Attrs : SetFlag(a)
    BY <1>2
  <2>2. flag' = [flag EXCEPT ![a] = TRUE]
    BY <2>1 DEF SetFlag
  <2>3. flag' \in [Attrs -> BOOLEAN]
    BY <2>2
  <2> QED
    BY <2>1, <2>3 DEF SetFlag
<1>3. CASE SetTimeLow
  <2>1. TimeOf[wr.sample][1] \in Longs
    BY <1>3, TimeType DEF SetTimeLow, SampleInv
  <2> QED
    BY <1>3, <2>1 DEF SetTimeLow
<1>4. CASE SetCheckSum
  <2>1. TimeOf[wr.sample][1] \in Longs
    BY <1>4, TimeType DEF SetCheckSum, SampleInv
  <2> QED
    BY <1>4, <2>1 DEF SetCheckSum
<1>5. CASE SetTimeHigh
  <2>1. TimeOf[wr.sample][2] \in Longs
    BY <1>5, TimeType DEF SetTimeHigh, SampleInv
  <2> QED
    BY <1>5, <2>1 DEF SetTimeHigh
<1>6. CASE XorCheckSum
  <2>1. TimeOf[wr.sample][2] \in Longs
    BY <1>6, TimeType DEF XorCheckSum, SampleInv
  <2>2. Xor(check[wr.attr], TimeOf[wr.sample][2]) \in Longs
    BY <2>1, XorType
  <2> QED
    BY <1>6, <2>2 DEF XorCheckSum
<1>7. CASE SetEnter
  BY <1>7 DEF SetEnter, Enter
<1>8. CASE SetRawLow \/ SetRawHigh
  <2>1. CASE SetRawLow
    <3>1. wr' = [wr EXCEPT !.pc = "high"] \/ wr' = [wr EXCEPT !.pc = "leave"]
      BY <2>1 DEF SetRawLow
    <3>2. \/ raw' = [raw EXCEPT ![wr.attr].low = wr.sample]
          \/ raw' = [raw EXCEPT ![wr.attr] = [low |-> wr.sample, high |-> wr.sample]]
      BY <2>1 DEF SetRawLow
    <3>3. raw' \in [Attrs -> [low : Samples, high : Samples]]
      BY <3>2
    <3> QED
      BY <2>1, <3>1, <3>3 DEF SetRawLow
  <2>2. CASE SetRawHigh
    BY <2>2 DEF SetRawHigh
  <2> QED
    BY <1>8, <2>1, <2>2
<1>9. CASE SetLeave
  BY <1>9 DEF SetLeave, Leave
<1>10. CASE (\E a \in Attrs : TestFlag(a)) \/ GetRawLow \/ GetRawHigh
  <2>1. CASE \E a \in Attrs : TestFlag(a)
    BY <2>1 DEF TestFlag
  <2>2. CASE GetRawLow
    <3>1. raw[rd.attr].low \in Samples /\ raw[rd.attr].high \in Samples
      OBVIOUS
    <3>2. CASE rd.attr \in Wide
      BY <2>2, <3>1, <3>2 DEF GetRawLow
    <3>3. CASE rd.attr \notin Wide
      BY <2>2, <3>1, <3>3 DEF GetRawLow
    <3> QED
      BY <3>2, <3>3
  <2>3. CASE GetRawHigh
    BY <2>3 DEF GetRawHigh
  <2> QED
    BY <1>10, <2>1, <2>2, <2>3
<1>11. CASE GetEnter \/ GetLeave
  BY <1>11 DEF GetEnter, GetLeave, Enter, Leave
<1>12. CASE GetSum \/ GetTimeLow
  <2>1. time[rd.attr].low \in Longs /\ rd.time \in [low : Longs, high : Longs]
    OBVIOUS
  <2>2. CASE GetSum
    BY <2>1, <2>2 DEF GetSum
  <2>3. CASE GetTimeLow
    <3>1. [rd.time EXCEPT !.low = time[rd.attr].low] \in [low : Longs, high : Longs]
      BY <2>1
    <3> QED
      BY <2>3, <3>1 DEF GetTimeLow
  <2> QED
    BY <1>12, <2>2, <2>3
<1>13. CASE GetTimeHigh
  <2>1. Xor(rd.sum, time[rd.attr].high) \in Longs
    BY XorType
  <2> QED
    BY <1>13, <2>1 DEF GetTimeHigh
<1>14. CASE CompareCheckSum \/ Show
  BY <1>14 DEF CompareCheckSum, Show
<1>15. CASE UNCHANGED vars
  BY <1>15 DEF vars
<1> QED
  BY <1>1, <1>2, <1>3, <1>4, <1>5, <1>6, <1>7, <1>8, <1>9, <1>10, <1>11, <1>12, <1>13,
     <1>14, <1>15 DEF Next, WrStep, RdStep

(* How the drive's reading moves on: the last sample never gets older, and *)
(* the raw value and the time of one attribute at a time are replaced by   *)
(* what belongs to it.                                                     *)
LEMMA WriterStep ==
  ASSUME TypeOK, WrStep
  PROVE  /\ rd' = rd
         /\ wr'.sample \in Nat /\ wr.sample \in Nat /\ wr.sample <= wr'.sample
         /\ wr'.sample # wr.sample => wr'.pc = "next" /\ raw' = raw /\ time' = time
<1> USE DEF TypeOK, WrUnchanged
<1>0. wr.sample \in Nat
  BY DEF Samples
<1>1. CASE ReadDrive
  BY <1>1, <1>0 DEF ReadDrive
<1>2. CASE \E a \in Attrs : SetFlag(a)
  BY <1>2, <1>0 DEF SetFlag
<1>3. CASE SetTimeLow \/ SetCheckSum \/ SetTimeHigh \/ XorCheckSum
  BY <1>3, <1>0 DEF SetTimeLow, SetCheckSum, SetTimeHigh, XorCheckSum
<1>4. CASE SetEnter \/ SetRawLow \/ SetRawHigh \/ SetLeave
  BY <1>4, <1>0 DEF SetEnter, SetRawLow, SetRawHigh, SetLeave
<1> QED
  BY <1>1, <1>2, <1>3, <1>4 DEF WrStep

(* The user interface stores nothing.                                      *)
LEMMA ReaderStores == RdStep => UNCHANGED <<raw, time, wr>>
BY DEF RdStep, TestFlag, GetEnter, GetRawLow, GetRawHigh, GetLeave, GetSum, GetTimeLow,
  GetTimeHigh, CompareCheckSum, Show, RdUnchanged

(* A store into the raw value is of the sample that is being stored.       *)
LEMMA RawStep ==
  ASSUME TypeOK, WrStep, NEW a \in Attrs
  PROVE  /\ raw'[a].low = raw[a].low \/ (raw'[a].low = wr.sample /\ a = wr.attr /\ wr.pc = "low")
         /\ \/ raw'[a].high = raw[a].high
            \/ raw'[a].high = wr.sample /\ a = wr.attr /\ wr.pc \in {"low", "high"}
<1> USE DEF WrUnchanged
<1>0. raw \in [Attrs -> [low : Samples, high : Samples]]
  BY DEF TypeOK
<1>1. CASE SetRawLow
  <2>1. \/ raw' = [raw EXCEPT ![wr.attr].low = wr.sample]
        \/ raw' = [raw EXCEPT ![wr.attr] = [low |-> wr.sample, high |-> wr.sample]]
    BY <1>1 DEF SetRawLow
  <2>2. wr.pc = "low"
    BY <1>1 DEF SetRawLow
  <2> QED
    BY <1>0, <2>1, <2>2
<1>2. CASE SetRawHigh
  BY <1>0, <1>2 DEF SetRawHigh
<1>3. CASE ~ SetRawLow /\ ~ SetRawHigh
  <2>1. raw' = raw
    BY <1>3, WrStep DEF WrStep, ReadDrive, SetFlag, SetTimeLow, SetCheckSum, SetTimeHigh,
      XorCheckSum, SetEnter, SetLeave
  <2> QED
    BY <2>1
<1> QED
  BY <1>1, <1>2, <1>3

(* A store into the time is of the sample that is being stored.            *)
LEMMA TimeStored ==
  ASSUME TypeOK, WrStep, NEW a \in Attrs
  PROVE  /\ \/ time'[a].low = time[a].low
            \/ time'[a].low = TimeOf[wr.sample][1] /\ a = wr.attr /\ wr.pc = "timeLow"
         /\ \/ time'[a].high = time[a].high
            \/ time'[a].high = TimeOf[wr.sample][2] /\ a = wr.attr /\ wr.pc = "timeHigh"
<1> USE DEF WrUnchanged
<1>0. time \in [Attrs -> [low : Longs, high : Longs]]
  BY DEF TypeOK
<1>1. CASE SetTimeLow
  BY <1>0, <1>1 DEF SetTimeLow
<1>2. CASE SetTimeHigh
  BY <1>0, <1>2 DEF SetTimeHigh
<1>3. CASE ~ SetTimeLow /\ ~ SetTimeHigh
  <2>1. time' = time
    BY <1>3, WrStep DEF WrStep, ReadDrive, SetFlag, SetCheckSum, XorCheckSum, SetEnter,
      SetRawLow, SetRawHigh, SetLeave
  <2> QED
    BY <2>1
<1> QED
  BY <1>1, <1>2, <1>3

(* Values are stored for a sample that was read.                           *)
LEMMA SampleStep == TypeOK /\ SampleInv /\ [Next]_vars => SampleInv'
<1> SUFFICES ASSUME TypeOK, SampleInv, [Next]_vars PROVE SampleInv'
  OBVIOUS
<1>1. CASE WrStep
  <2>0. wr.sample \in Nat /\ wr'.sample \in Nat /\ wr.sample <= wr'.sample
    BY <1>1, WriterStep
  <2>1. wr'.pc # "next" \/ wr'.todo # {} => wr'.sample # 0
    <3> USE DEF TypeOK, SampleInv, WrUnchanged
    <3>1. CASE ReadDrive
      <4>1. wr'.sample = wr.sample + 1
        BY <3>1 DEF ReadDrive
      <4> QED
        BY <2>0, <4>1
    <3>2. CASE \E a \in Attrs : SetFlag(a)
      BY <3>2 DEF SetFlag
    <3>3. CASE SetTimeLow \/ SetCheckSum \/ SetTimeHigh \/ XorCheckSum
      BY <3>3 DEF SetTimeLow, SetCheckSum, SetTimeHigh, XorCheckSum
    <3>4. CASE SetEnter \/ SetRawLow \/ SetRawHigh \/ SetLeave
      BY <3>4 DEF SetEnter, SetRawLow, SetRawHigh, SetLeave
    <3> QED
      BY <1>1, <3>1, <3>2, <3>3, <3>4 DEF WrStep
  <2>2. ASSUME NEW a \in Attrs
        PROVE  raw'[a].low <= wr'.sample /\ raw'[a].high <= wr'.sample
    <3>1. raw[a].low \in Nat /\ raw[a].high \in Nat
      BY DEF TypeOK, Samples
    <3>2. raw[a].low <= wr.sample /\ raw[a].high <= wr.sample
      BY DEF SampleInv
    <3>3. /\ raw'[a].low \in {raw[a].low, wr.sample}
          /\ raw'[a].high \in {raw[a].high, wr.sample}
      BY <1>1, RawStep
    <3> QED
      BY <2>0, <3>1, <3>2, <3>3
  <2> QED
    BY <2>1, <2>2 DEF SampleInv
<1>2. CASE RdStep
  BY <1>2, ReaderStores DEF SampleInv
<1>3. CASE UNCHANGED vars
  BY <1>3 DEF vars, SampleInv
<1> QED
  BY <1>1, <1>2, <1>3 DEF Next

(* The time of the sample that is being stored is that of any sample up to *)
(* it or of a later one.                                                   *)
LEMMA SinceNow ==
  ASSUME TypeOK, NEW n \in Nat, n <= wr.sample, NEW i
  PROVE  Since(TimeOf[wr.sample][i], i, n)
<1>1. wr.sample \in Nat /\ wr.sample <= NSamples
  BY DEF TypeOK, Samples
<1>2. n # 0 => wr.sample \in n..NSamples
  BY <1>1 DEF TypeOK, Samples
<1> QED
  BY <1>2 DEF Since

(* While the time of an attribute is replaced it only gets newer.          *)
LEMMA TimeKept ==
  ASSUME TypeOK, WrStep, NEW a \in Attrs, NEW n \in Nat, n <= wr.sample, TimeSince(a, n)
  PROVE  TimeSince(a, n)'
<1>1. Since(TimeOf[wr.sample][1], 1, n) /\ Since(TimeOf[wr.sample][2], 2, n)
  BY SinceNow
<1>2. time'[a].low \in {time[a].low, TimeOf[wr.sample][1]}
  BY TimeStored
<1>3. time'[a].high \in {time[a].high, TimeOf[wr.sample][2]}
  BY TimeStored
<1> QED
  BY <1>1, <1>2, <1>3 DEF TimeSince

(* setRawVal has stored the time when it stores the value.                 *)
LEMMA TimeStep ==
  TypeOK /\ SampleInv /\ TimeInv /\ [Next]_vars => TimeInv'
<1> SUFFICES ASSUME TypeOK, SampleInv, TimeInv, [Next]_vars PROVE TimeInv'
  OBVIOUS
<1>1. CASE WrStep
  <2>w. wr \in [pc : WrPcs, attr : Attrs, todo : SUBSET Attrs, sample : Samples]
    BY DEF TypeOK
  <2>t. time \in [Attrs -> [low : Longs, high : Longs]]
    BY DEF TypeOK
  <2>1. /\ wr'.pc \in LowStored => time'[wr'.attr].low = TimeOf[wr'.sample][1]
        /\ wr'.pc \in HighStored => time'[wr'.attr].high = TimeOf[wr'.sample][2]
    <3> USE DEF TimeInv, LowStored, HighStored, WrPcs, WrUnchanged
    <3>1. CASE ReadDrive \/ \E a \in Attrs : SetFlag(a)
      BY <3>1, <2>w DEF ReadDrive, SetFlag
    <3>2. CASE SetTimeLow
      BY <3>2, <2>w, <2>t DEF SetTimeLow
    <3>3. CASE SetTimeHigh
      <4>1. wr'.attr = wr.attr /\ wr'.sample = wr.sample /\ wr.pc = "timeHigh"
        BY <3>3, <2>w DEF SetTimeHigh
      <4>2. time'[wr.attr].high = TimeOf[wr.sample][2] /\ time'[wr.attr].low = time[wr.attr].low
        BY <3>3, <2>w, <2>t DEF SetTimeHigh
      <4> QED
        BY <4>1, <4>2
    <3>4. CASE SetCheckSum \/ XorCheckSum
      BY <3>4, <2>w DEF SetCheckSum, XorCheckSum
    <3>5. CASE SetEnter \/ SetRawLow \/ SetRawHigh \/ SetLeave
      BY <3>5, <2>w DEF SetEnter, SetRawLow, SetRawHigh, SetLeave
    <3> QED
      BY <1>1, <3>1, <3>2, <3>3, <3>4, <3>5 DEF WrStep
  <2>2. ASSUME NEW a \in Attrs
        PROVE  (TimeSince(a, raw[a].low) /\ TimeSince(a, raw[a].high))'
    <3>1. /\ raw[a].low \in Nat /\ raw[a].high \in Nat /\ wr.sample \in Nat
          /\ raw[a].low <= wr.sample /\ raw[a].high <= wr.sample
      BY DEF TypeOK, Samples, SampleInv
    <3>2. TimeSince(a, raw[a].low) /\ TimeSince(a, raw[a].high)
      BY DEF TimeInv
    <3>3. wr.pc \in {"low", "high"} /\ a = wr.attr => TimeSince(a, wr.sample)
      <4> SUFFICES ASSUME wr.pc \in {"low", "high"}, a = wr.attr
                   PROVE  TimeSince(a, wr.sample)
        OBVIOUS
      <4>1. time[a].low = TimeOf[wr.sample][1] /\ time[a].high = TimeOf[wr.sample][2]
        BY DEF TimeInv, LowStored, HighStored, WrPcs
      <4>2. Since(TimeOf[wr.sample][1], 1, wr.sample) /\ Since(TimeOf[wr.sample][2], 2, wr.sample)
        BY <3>1, SinceNow
      <4> QED
        BY <4>1, <4>2 DEF TimeSince
    <3> DEFINE S(n) == Since(time'[a].low, 1, n) /\ Since(time'[a].high, 2, n)
    <3>4. S(raw[a].low) /\ S(raw[a].high)
      BY <1>1, <3>1, <3>2, TimeKept DEF TimeSince
    <3>5. wr.pc \in {"low", "high"} /\ a = wr.attr => S(wr.sample)
      BY <1>1, <3>1, <3>3, TimeKept DEF TimeSince
    <3>6. S(raw'[a].low) /\ S(raw'[a].high)
      <4> HIDE DEF S
      <4> QED
        BY <1>1, <3>4, <3>5, RawStep
    <3> QED
      BY <3>6 DEF TimeSince
  <2> QED
    BY <2>1, <2>2 DEF TimeInv
<1>2. CASE RdStep
  BY <1>2, ReaderStores DEF TimeInv, TimeSince
<1>3. CASE UNCHANGED vars
  BY <1>3 DEF vars, TimeInv, TimeSince
<1> QED
  BY <1>1, <1>2, <1>3 DEF Next

(* While the writer stores, the copies stay and their time gets newer.     *)
LEMMA CopyWhileStoring ==
  ASSUME TypeOK, CopyInv, WrStep PROVE CopyInv'
<1>1. /\ rd' = rd
      /\ wr'.sample \in Nat /\ wr.sample \in Nat /\ wr.sample <= wr'.sample
  BY WriterStep
<1>2. rd.attr \in Attrs /\ rd.low \in Nat /\ rd.high \in Nat
  BY DEF TypeOK, Samples
<1>3. rd.pc \in Copied \cup {"high"} => rd.low <= wr'.sample /\ TimeSince(rd.attr, rd.low)'
  <2>1. rd.pc \in Copied \cup {"high"} => rd.low <= wr.sample /\ TimeSince(rd.attr, rd.low)
    BY DEF CopyInv
  <2>2. rd.low <= wr.sample /\ TimeSince(rd.attr, rd.low)
          => Since(time'[rd.attr].low, 1, rd.low) /\ Since(time'[rd.attr].high, 2, rd.low)
    BY <1>2, TimeKept DEF TimeSince
  <2> QED
    BY <1>1, <1>2, <2>1, <2>2 DEF TimeSince
<1>4. rd.pc \in Copied => rd.high <= wr'.sample /\ TimeSince(rd.attr, rd.high)'
  <2>1. rd.pc \in Copied => rd.high <= wr.sample /\ TimeSince(rd.attr, rd.high)
    BY DEF CopyInv
  <2>2. rd.high <= wr.sample /\ TimeSince(rd.attr, rd.high)
          => Since(time'[rd.attr].low, 1, rd.high) /\ Since(time'[rd.attr].high, 2, rd.high)
    BY <1>2, TimeKept DEF TimeSince
  <2> QED
    BY <1>1, <1>2, <2>1, <2>2 DEF TimeSince
<1> QED
  BY <1>1, <1>3, <1>4 DEF CopyInv

(* The user interface copies the value first and its time afterwards.      *)
LEMMA CopyStep ==
  TypeOK /\ SampleInv /\ TimeInv /\ CopyInv /\ [Next]_vars => CopyInv'
<1> SUFFICES ASSUME TypeOK, SampleInv, TimeInv, CopyInv, [Next]_vars PROVE CopyInv'
  OBVIOUS
<1>r. rd \in [pc : RdPcs, attr : Attrs, low : Samples, high : Samples, sum : Longs,
              time : [low : Longs, high : Longs]]
  BY DEF TypeOK
<1>1. CASE WrStep
  BY <1>1, CopyWhileStoring
<1>2. CASE RdStep
  <2>0. raw' = raw /\ time' = time /\ wr' = wr
    BY <1>2, ReaderStores
  <2>1. TimeSince(rd.attr, raw[rd.attr].low) /\ TimeSince(rd.attr, raw[rd.attr].high)
    BY <1>r DEF TimeInv
  <2>2. raw[rd.attr].low <= wr.sample /\ raw[rd.attr].high <= wr.sample
    BY <1>r DEF SampleInv
  <2> USE DEF CopyInv, Copied, TimeSince
  <2>3. CASE (\E a \in Attrs : TestFlag(a)) \/ GetEnter
    BY <2>0, <2>3, <1>r DEF TestFlag, GetEnter
  <2>4. CASE GetRawLow
    <3>1. CASE rd.attr \in Wide
      BY <2>0, <2>1, <2>2, <2>4, <3>1, <1>r DEF GetRawLow
    <3>2. CASE rd.attr \notin Wide
      BY <2>0, <2>1, <2>2, <2>4, <3>2, <1>r DEF GetRawLow
    <3> QED
      BY <3>1, <3>2
  <2>5. CASE GetRawHigh
    BY <2>0, <2>1, <2>2, <2>5, <1>r DEF GetRawHigh
  <2>6. CASE GetLeave \/ GetSum
    BY <2>0, <2>6, <1>r DEF GetLeave, GetSum
  <2>7. CASE GetTimeLow
    BY <2>0, <2>7, <1>r DEF GetTimeLow
  <2>8. CASE GetTimeHigh
    BY <2>0, <2>8, <1>r DEF GetTimeHigh
  <2>9. CASE CompareCheckSum \/ Show
    BY <2>0, <2>9, <1>r DEF CompareCheckSum, Show
  <2> QED
    BY <1>2, <2>3, <2>4, <2>5, <2>6, <2>7, <2>8, <2>9 DEF RdStep
<1>3. CASE UNCHANGED vars
  BY <1>3 DEF vars, CopyInv, TimeSince
<1> QED
  BY <1>1, <1>2, <1>3 DEF Next

(* The invariant holds for any attributes, whatever their widths.          *)
LEMMA AttrInvariance == AttrConstants => (Spec => []AttrInv)
<1> SUFFICES ASSUME AttrConstants PROVE Spec => []AttrInv
  OBVIOUS
<1>1. Init => AttrInv
  BY InitAttr
<1>2. AttrInv /\ [Next]_vars => AttrInv'
  BY TypeStep, SampleStep, TimeStep, CopyStep DEF AttrInv
<1> QED
  BY <1>1, <1>2, PTL DEF Spec

(* For any attributes of any widths on either side, any uptimes and any    *)
(* number of samples, and although copies may be torn and the critical     *)
(* section spoilt (setRawVal, getRawVal), a row never shows a value that   *)
(* is newer than the time next to it (SetRetrievalTime, GetRetrievalTime). *)
THEOREM ShownNotNewer == AttrConstants => (Spec => []TimeNotOlder)
<1> SUFFICES ASSUME AttrConstants PROVE Spec => []TimeNotOlder
  OBVIOUS
<1>1. AttrInv => TimeNotOlder
  BY DEF AttrInv, CopyInv, TimeNotOlder
<1>2. Spec => []AttrInv
  BY AttrInvariance
<1> QED
  BY <1>1, <1>2, PTL
=============================================================================
