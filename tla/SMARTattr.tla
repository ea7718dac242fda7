------------------------------ MODULE SMARTattr ------------------------------
(***************************************************************************)
(* One drive's attribute values (src/src/attributes/SMARTattrVal.cpp,      *)
(* SMARTuniqueIDandValues.cpp) between the thread that reads the drive     *)
(* directly (readSMARTviaNVMe calls setRawVal for every attribute) and the *)
(* user interface thread that shows them (upd8rawAndH_andTime).            *)
(*                                                                         *)
(* A raw value is up to 16 bytes, more than one store. One static critical *)
(* section is there for all attributes, but setRawVal and getRawVal enter  *)
(* it only for values wider than a long and leave it in any case; and the  *)
(* width that getRawVal asks for is never assigned. The time of the        *)
(* retrieval has no lock: it is stored in two longs with their exclusive   *)
(* or as a check sum.                                                      *)
(***************************************************************************)
EXTENDS Naturals

CONSTANTS
  Attrs,     \* attributes that are observed
  Wide,      \* those whose value setRawVal is told to be wider than a long
  Bits,      \* bits of a long
  NSamples,  \* times the drive is read
  TimeOf     \* uptime in ms at the n-th time, as <<low long, high long>>

(* A long is the set of its bits that are 1.                               *)
Longs == SUBSET Bits
Xor(x, y) == (x \ y) \cup (y \ x)

(* What the constants are.                                                 *)
AttrConstants ==
  /\ Wide \subseteq Attrs
  /\ NSamples \in Nat
  /\ TimeOf \in [1..NSamples -> Longs \X Longs]

VARIABLES
  flag,   \* m_successfullyReadSMARTrawValue
  raw,    \* m_rawValue: the sample its lower and its upper part are of
  time,   \* m_timeStampOfRetrieval
  check,  \* m_timeCheckSum
  owner,  \* owner of s_critSect
  wr,     \* the reading of the drive: sample, attributes still to be stored
  rd,     \* the user interface: the copies it makes
  rdWide  \* attributes whose m_numSMARTattrRawValBytes, which no code sets,
          \* happens to be larger than the size of a long

vars == <<flag, raw, time, check, owner, wr, rd, rdWide>>

Samples == 0..NSamples
WrPcs == {"next", "timeLow", "check", "timeHigh", "checkXor", "enter", "low", "high", "leave"}
RdPcs == {"idle", "enter", "low", "high", "leave", "sum", "timeLow", "timeHigh", "compare", "show"}

(* "broken": a Leave() without Enter() has spoilt the critical section.    *)
TypeOK ==
  /\ flag \in [Attrs -> BOOLEAN]
  /\ raw \in [Attrs -> [low : Samples, high : Samples]]
  /\ time \in [Attrs -> [low : Longs, high : Longs]]
  /\ check \in [Attrs -> Longs]
  /\ owner \in {"none", "wr", "rd", "broken"}
  /\ wr \in [pc : WrPcs, attr : Attrs, todo : SUBSET Attrs, sample : Samples]
  /\ rd \in [pc : RdPcs, attr : Attrs, low : Samples, high : Samples, sum : Longs,
             time : [low : Longs, high : Longs]]
  /\ rdWide \subseteq Attrs

(* A new SMARTattr: the raw value is 0; time, check sum and the number of  *)
(* bytes are not initialized.                                              *)
Init ==
  /\ flag = [a \in Attrs |-> FALSE]
  /\ raw = [a \in Attrs |-> [low |-> 0, high |-> 0]]
  /\ time \in [Attrs -> [low : Longs, high : Longs]]
  /\ check \in [Attrs -> Longs]
  /\ owner = "none"
  /\ \E a \in Attrs :
       /\ wr = [pc |-> "next", attr |-> a, todo |-> {}, sample |-> 0]
       /\ rd = [pc |-> "idle", attr |-> a, low |-> 0, high |-> 0, sum |-> {},
                time |-> [low |-> {}, high |-> {}]]
  /\ rdWide \in SUBSET Attrs

-----------------------------------------------------------------------------
(* The critical section. What Leave() does for a thread that is not in it  *)
(* is undefined: nothing, or it throws another thread out, or nobody can   *)
(* enter any more.                                                         *)
Enter(t) == owner = "none" /\ owner' = t
Leave(t) ==
  \/ owner = t /\ owner' = "none"
  \/ owner # t /\ owner' = owner
  \/ owner # t /\ owner \notin {"none", "broken"} /\ owner' = "none"
  \/ owner = "none" /\ owner' = "broken"

-----------------------------------------------------------------------------
(* The thread that reads the drive.                                        *)

WrUnchanged == UNCHANGED <<rd, rdWide>>

ReadDrive ==
  /\ wr.pc = "next" /\ wr.todo = {} /\ wr.sample < NSamples
  /\ wr' = [wr EXCEPT !.todo = Attrs, !.sample = @ + 1]
  /\ WrUnchanged /\ UNCHANGED <<flag, raw, time, check, owner>>

(* setRawVal: the flag comes first, ...                                    *)
SetFlag(a) ==
  /\ wr.pc = "next" /\ a \in wr.todo
  /\ flag' = [flag EXCEPT ![a] = TRUE]
  /\ wr' = [wr EXCEPT !.pc = "timeLow", !.attr = a, !.todo = @ \ {a}]
  /\ WrUnchanged /\ UNCHANGED <<raw, time, check, owner>>

(* ... then SetRetrievalTime, ...                                          *)
SetTimeLow ==
  /\ wr.pc = "timeLow"
  /\ time' = [time EXCEPT ![wr.attr].low = TimeOf[wr.sample][1]]
  /\ wr' = [wr EXCEPT !.pc = "check"]
  /\ WrUnchanged /\ UNCHANGED <<flag, raw, check, owner>>

SetCheckSum ==
  /\ wr.pc = "check"
  /\ check' = [check EXCEPT ![wr.attr] = TimeOf[wr.sample][1]]
  /\ wr' = [wr EXCEPT !.pc = "timeHigh"]
  /\ WrUnchanged /\ UNCHANGED <<flag, raw, time, owner>>

SetTimeHigh ==
  /\ wr.pc = "timeHigh"
  /\ time' = [time EXCEPT ![wr.attr].high = TimeOf[wr.sample][2]]
  /\ wr' = [wr EXCEPT !.pc = "checkXor"]
  /\ WrUnchanged /\ UNCHANGED <<flag, raw, check, owner>>

XorCheckSum ==
  /\ wr.pc = "checkXor"
  /\ check' = [check EXCEPT ![wr.attr] = Xor(@, TimeOf[wr.sample][2])]
  /\ wr' = [wr EXCEPT !.pc = "enter"]
  /\ WrUnchanged /\ UNCHANGED <<flag, raw, time, owner>>

(* ... then the raw value.                                                 *)
SetEnter ==
  /\ wr.pc = "enter"
  /\ IF wr.attr \in Wide THEN Enter("wr") ELSE UNCHANGED owner
  /\ wr' = [wr EXCEPT !.pc = "low"]
  /\ WrUnchanged /\ UNCHANGED <<flag, raw, time, check>>

(* A value that is not wide is stored, and copied, at once.                *)
SetRawLow ==
  /\ wr.pc = "low"
  /\ IF wr.attr \in Wide
     THEN /\ raw' = [raw EXCEPT ![wr.attr].low = wr.sample]
          /\ wr' = [wr EXCEPT !.pc = "high"]
     ELSE /\ raw' = [raw EXCEPT ![wr.attr] = [low |-> wr.sample, high |-> wr.sample]]
          /\ wr' = [wr EXCEPT !.pc = "leave"]
  /\ WrUnchanged /\ UNCHANGED <<flag, time, check, owner>>

SetRawHigh ==
  /\ wr.pc = "high"
  /\ raw' = [raw EXCEPT ![wr.attr].high = wr.sample]
  /\ wr' = [wr EXCEPT !.pc = "leave"]
  /\ WrUnchanged /\ UNCHANGED <<flag, time, check, owner>>

SetLeave ==
  /\ wr.pc = "leave"
  /\ Leave("wr")
  /\ wr' = [wr EXCEPT !.pc = "next"]
  /\ WrUnchanged /\ UNCHANGED <<flag, raw, time, check>>

WrStep ==
  \/ ReadDrive
  \/ \E a \in Attrs : SetFlag(a)
  \/ SetTimeLow \/ SetCheckSum \/ SetTimeHigh \/ XorCheckSum
  \/ SetEnter \/ SetRawLow \/ SetRawHigh \/ SetLeave

-----------------------------------------------------------------------------
(* The user interface thread.                                              *)

RdUnchanged == UNCHANGED <<flag, raw, time, check, wr, rdWide>>

(* An attribute whose flag is not set is shown as "not read yet".          *)
TestFlag(a) ==
  /\ rd.pc = "idle"
  /\ flag[a]
  /\ rd' = [rd EXCEPT !.pc = "enter", !.attr = a]
  /\ RdUnchanged /\ UNCHANGED owner

(* getRawVal                                                               *)
GetEnter ==
  /\ rd.pc = "enter"
  /\ IF rd.attr \in rdWide THEN Enter("rd") ELSE UNCHANGED owner
  /\ rd' = [rd EXCEPT !.pc = "low"]
  /\ RdUnchanged

GetRawLow ==
  /\ rd.pc = "low"
  /\ rd' = IF rd.attr \in Wide
            THEN [rd EXCEPT !.pc = "high", !.low = raw[rd.attr].low]
            ELSE [rd EXCEPT !.pc = "leave", !.low = raw[rd.attr].low,
                            !.high = raw[rd.attr].high]
  /\ RdUnchanged /\ UNCHANGED owner

GetRawHigh ==
  /\ rd.pc = "high"
  /\ rd' = [rd EXCEPT !.pc = "leave", !.high = raw[rd.attr].high]
  /\ RdUnchanged /\ UNCHANGED owner

GetLeave ==
  /\ rd.pc = "leave"
  /\ Leave("rd")
  /\ rd' = [rd EXCEPT !.pc = "sum"]
  /\ RdUnchanged

(* GetRetrievalTime reads the low long for its check sum and once more for *)
(* the result.                                                             *)
GetSum ==
  /\ rd.pc = "sum"
  /\ rd' = [rd EXCEPT !.pc = "timeLow", !.sum = time[rd.attr].low]
  /\ RdUnchanged /\ UNCHANGED owner

GetTimeLow ==
  /\ rd.pc = "timeLow"
  /\ rd' = [rd EXCEPT !.pc = "timeHigh", !.time.low = time[rd.attr].low]
  /\ RdUnchanged /\ UNCHANGED owner

GetTimeHigh ==
  /\ rd.pc = "timeHigh"
  /\ rd' = [rd EXCEPT !.pc = "compare", !.time.high = time[rd.attr].high,
                      !.sum = Xor(@, time[rd.attr].high)]
  /\ RdUnchanged /\ UNCHANGED owner

(* The row is filled in if the sums agree and the time is not 0.           *)
CompareCheckSum ==
  /\ rd.pc = "compare"
  /\ LET zero == rd.time.low = {} /\ rd.time.high = {} IN
     rd' = [rd EXCEPT !.pc = IF rd.sum = check[rd.attr] /\ ~ zero THEN "show" ELSE "idle"]
  /\ RdUnchanged /\ UNCHANGED owner

Show ==
  /\ rd.pc = "show"
  /\ rd' = [rd EXCEPT !.pc = "idle"]
  /\ RdUnchanged /\ UNCHANGED owner

RdStep ==
  \/ \E a \in Attrs : TestFlag(a)
  \/ GetEnter \/ GetRawLow \/ GetRawHigh \/ GetLeave
  \/ GetSum \/ GetTimeLow \/ GetTimeHigh \/ CompareCheckSum \/ Show

Next == WrStep \/ RdStep

Spec == Init /\ [][Next]_vars

-----------------------------------------------------------------------------
(* Properties.                                                             *)

(* The copy of a raw value that getRawVal made is one value that setRawVal *)
(* stored, not the lower half of one and the upper half of another:        *)
(* "Concurrent threads should enter this critical section (directly)       *)
(* before reading or writing the S.M.A.R.T. attribute (raw) value and      *)
(* leave this critical section afterwards" (SMARTattrVal.cpp 117-119, and  *)
(* 48-50).                                                                 *)
Copied == {"leave", "sum", "timeLow", "timeHigh", "compare", "show"}
ReadWhole == rd.pc \in Copied => rd.low = rd.high

(* A long that was part i of the time of the n-th reading of the drive or  *)
(* of a later one; nothing is said of the value that was there before the  *)
(* first.                                                                  *)
Since(x, i, n) == n # 0 => \E k \in n..NSamples : x = TimeOf[k][i]

(* What a row shows is not newer than the time next to it: setRawVal       *)
(* stores the time before the value, the user interface copies the value   *)
(* before the time. It holds also of torn copies, after an unbalanced      *)
(* Leave() and where the check sums agree by chance.                       *)
TimeNotOlder ==
  rd.pc = "show" =>
    \A n \in {rd.low, rd.high} : Since(rd.time.low, 1, n) /\ Since(rd.time.high, 2, n)

(* What makes TimeNotOlder inductive. The drive was read before values are *)
(* stored; what is stored is not newer than the last reading, ...          *)
SampleInv ==
  /\ wr.pc # "next" \/ wr.todo # {} => wr.sample # 0
  /\ \A a \in Attrs : raw[a].low <= wr.sample /\ raw[a].high <= wr.sample

(* ... setRawVal has stored the time of this reading when it comes to the  *)
(* value, so that a time is never older than the parts of its value, ...   *)
LowStored == WrPcs \ {"next", "timeLow"}
HighStored == LowStored \ {"check", "timeHigh"}
TimeSince(a, n) == Since(time[a].low, 1, n) /\ Since(time[a].high, 2, n)
TimeInv ==
  /\ wr.pc \in LowStored => time[wr.attr].low = TimeOf[wr.sample][1]
  /\ wr.pc \in HighStored => time[wr.attr].high = TimeOf[wr.sample][2]
  /\ \A a \in Attrs : TimeSince(a, raw[a].low) /\ TimeSince(a, raw[a].high)

(* ... and the copies of the user interface keep that order.               *)
CopyInv ==
  /\ rd.pc \in Copied \cup {"high"} => rd.low <= wr.sample /\ TimeSince(rd.attr, rd.low)
  /\ rd.pc \in Copied => rd.high <= wr.sample /\ TimeSince(rd.attr, rd.high)
  /\ \A n \in {rd.low, rd.high} :
       /\ rd.pc \in {"timeHigh", "compare", "show"} => Since(rd.time.low, 1, n)
       /\ rd.pc \in {"compare", "show"} => Since(rd.time.high, 2, n)

AttrInv == TypeOK /\ SampleInv /\ TimeInv /\ CopyInv
=============================================================================
