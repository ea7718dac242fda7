------------------------------ MODULE SMARTids -------------------------------
(***************************************************************************)
(* The IDs of S.M.A.R.T. attributes of one drive, from the configuration   *)
(* file to the tables of the user interfaces: the list of IDs to observe   *)
(* (src/src/tinyxml2/ConfigLoader.cpp), its intersection with the IDs the  *)
(* drive supports (src/src/attributes/SMARTuniqueID.hpp), the retrieval    *)
(* that walks through both (src/src/libATA_SMART), and the values the      *)
(* service sends to a client. An array of IDs ends at its first 0 or after *)
(* N elements; it is modelled by the sequence of the IDs before that.      *)
(***************************************************************************)
EXTENDS Integers, Sequences, SequencesExt

CONSTANTS
  N,            \* TU_Bln361095dataCarrierNumSATA_SMARTattrIDs: size of the arrays
  Texts,        \* contents of the element SMART_parameters_to_observe
  Tables,       \* attribute tables of drives, in the order of the drive
  CopyCounts,   \* what the uninitialized m_numDiffrntSMARTattrIDs can hold
  Tails,        \* what can follow in an array behind the elements copied to it
  NotANumber,   \* an item of the text that is no number
  MaxBlind      \* bound: times the drive does not tell its supported IDs

IDs == 1..N - 1  \* "the last SMART attrubute ID (254)", SMARTuniqueID.hpp:36
Lists == Seq(1..N)
AllIDs == [i \in 1..N |-> i]
Ascending(s) == \A i, j \in 1..Len(s) : i < j => s[i] < s[j]

(* The elements of s that are in S, in the order of s.                     *)
AppendIf(r, x, S) == IF x \in S THEN Append(r, x) ELSE r
Only(s, S) ==
  LET r[k \in 0..Len(s)] == IF k = 0 THEN << >> ELSE AppendIf(r[k - 1], s[k], S)
  IN r[Len(s)]

Sorted(S) == Only(AllIDs, S)

(* A list in the file has fewer items than the arrays have elements.       *)
ASSUME IdsAssumption ==
  /\ N \in Nat \ {0, 1} /\ MaxBlind \in Nat
  /\ \A t \in Texts : /\ t.items \in Seq(IDs \cup {0, NotANumber}) /\ Len(t.items) < N
                      /\ t.comma \in BOOLEAN
  /\ \A t \in Tables : t \in Seq(IDs) /\ t # << >> /\ IsInjective(t)
  /\ CopyCounts \subseteq 0..N /\ CopyCounts # {}
  /\ Tails \subseteq Seq(IDs) /\ << >> \in Tails

VARIABLES
  text,     \* SMART_parameters_to_observe in the configuration file
  toObs,    \* m_SMARTattrIDsToObs
  table,    \* the drive's attributes
  role,     \* the program: user interface with direct access, or service
  api,      \* libatasmart, or NVMe under MS Windows
  stored,   \* the drive's element of m_SMARTuniqueIDsandVals
  ok,       \* its attributes with m_successfullyReadSMARTrawValue
  rd,       \* the update thread's retrieval
  nBlind,   \* how often the supported IDs could not be read
  cl        \* the client of a service

drive == <<text, toObs, table, role, api>>
vars == <<text, toObs, table, role, api, stored, ok, rd, nBlind, cl>>

Idle == [pc |-> "idle", list |-> << >>, cur |-> 1, pos |-> 1]

(* A list that ends with its 0 inside the array.                           *)
Fits(list) == Len(list) < N

(* The lists that are read from the drive and the cursor in them stay in   *)
(* the arrays; a copy that was cut may fill its array without a final 0.   *)
TypeOK ==
  /\ text \in Texts /\ table \in Tables
  /\ toObs \in Lists
  /\ role \in {"gui", "service"} /\ api \in {"libatasmart", "NVMe"}
  /\ stored \in [in : BOOLEAN, supp : Lists, toRead : Lists]
  /\ ok \subseteq IDs
  /\ rd \in [pc : {"idle", "read", "done"}, list : Lists, cur : 1..N, pos : 1..N]
  /\ nBlind \in 0..MaxBlind
  /\ cl \in [pc : {"off", "first", "loop", "noThread"}, supp : Lists,
             lines : Lists, ok : SUBSET IDs]
  /\ Fits(toObs) /\ Fits(rd.list) /\ Fits(cl.lines)
  /\ Len(stored.supp) <= N /\ Len(stored.toRead) <= N /\ Len(cl.supp) <= N

-----------------------------------------------------------------------------
(* The lists.                                                              *)

(* What readers see of an array: the elements before the first 0.          *)
UpTo0(s) ==
  LET zeros == {i \in 1..Len(s) : s[i] = 0} IN
  IF zeros = {} THEN s ELSE SubSeq(s, 1, Min(zeros) - 1)

(* GetSMARTattributesToObserve: an item is converted when the comma after  *)
(* it is reached, so one that no comma follows is not taken.               *)
Converted(t) ==
  LET items == IF t.comma \/ t.items = << >> THEN t.items ELSE Front(t.items) IN
  Only(items, IDs \cup {0})
GetSMARTattributesToObserve(t) == UpTo0(Converted(t))

(* StartAsyncUpdateThread: m_IDsOfSMARTattrsToObserve is not empty.        *)
ThreadStarts == Converted(text) # << >>

(* getDriveSupportedSMART_IDs inserts into a std::set ordered by the ID.   *)
getDriveSupportedSMART_IDs(tab) == Sorted(ToSet(tab))

(* The loops over an ascending list with a cursor that only moves forward: *)
(* the first element from cur on that is not below id, or the final 0.     *)
Forward(list, cur, id) ==
  CHOOSE j \in cur..Len(list) + 1 :
    /\ j <= Len(list) => list[j] >= id
    /\ \A k \in cur..j - 1 : list[k] < id

At(list, j) == IF j <= Len(list) THEN list[j] ELSE 0

(* Mutant: the cursor also moves on when the IDs differ.                   *)
MergeSkips(m, id, wanted) ==
  LET j == Forward(wanted, m.cur, id) IN
  [cur |-> IF j <= Len(wanted) THEN j + 1 ELSE j,
   ids |-> IF At(wanted, j) = id THEN Append(m.ids, id) ELSE m.ids]

(* One supported ID in SetSMART_IDsToRead's loops.                         *)
Merge(m, id, wanted) ==
  LET j == Forward(wanted, m.cur, id) IN
  IF At(wanted, j) = id THEN [cur |-> j + 1, ids |-> Append(m.ids, id)]
                        ELSE [m EXCEPT !.cur = j]

(* Mutant: everything that is supported is read.                           *)
SetSMART_IDsToReadAll(supp, wanted) == supp

SetSMART_IDsToRead(supp, wanted) ==
  LET m[k \in 0..Len(supp)] ==
        IF k = 0 THEN [cur |-> 1, ids |-> << >>] ELSE Merge(m[k - 1], supp[k], wanted)
  IN IF wanted = << >> THEN supp ELSE m[Len(supp)].ids

(* copyArr copies at most m_numDiffrntSMARTattrIDs elements, which nothing *)
(* initializes, and ends with the final 0. What follows the elements it    *)
(* copied is the new array's own: a 0 at its start, then what was there.   *)
(* An element of a std::set is the copy of a copy: count is the smaller    *)
(* number of both.                                                         *)
copyArr(list, count) ==
  IF Len(list) < count THEN {list}
  ELSE IF count = 0 THEN {<< >>}
  ELSE {SubSeq(list, 1, count) \o t : t \in {u \in Tails : count + Len(u) <= N}}

-----------------------------------------------------------------------------
(* Retrieval.                                                              *)

Init ==
  /\ text \in Texts /\ toObs = GetSMARTattributesToObserve(text)
  /\ table \in Tables
  /\ role \in {"gui", "service"} /\ api \in {"libatasmart", "NVMe"}
  /\ api = "NVMe" => Ascending(table) /\ role = "gui"
  /\ stored = [in |-> FALSE, supp |-> << >>, toRead |-> << >>]
  /\ ok = {} /\ nBlind = 0
  /\ rd = Idle
  /\ cl = [pc |-> "off", supp |-> << >>, lines |-> << >>, ok |-> {}]

(* Mutant: the lists of a drive that is in the set already are replaced.   *)
ReplaceDrive(supp, toRead) ==
  \E count \in CopyCounts : \E s \in copyArr(supp, count), t \in copyArr(toRead, count) :
    stored' = [in |-> TRUE, supp |-> s, toRead |-> t]

(* readSMARTforDevice: a drive that is in the set already stays as it is.  *)
InsertDrive(supp, toRead) ==
  IF stored.in THEN UNCHANGED stored
  ELSE \E count \in CopyCounts : \E s \in copyArr(supp, count), t \in copyArr(toRead, count) :
         stored' = [in |-> TRUE, supp |-> s, toRead |-> t]

(* InitializeSMART retrieves once; all else the update thread does.        *)
MayRetrieve == ~stored.in \/ ThreadStarts

(* readSMARTAttrs with a new attr_helper.                                  *)
StartReading(list) == rd' = [pc |-> "read", list |-> list, cur |-> 1, pos |-> 1]

(* ReadSMARTValuesForAllDrives with libatasmart: the lists are made anew   *)
(* in every interval. When the drive can not be read at all nothing        *)
(* changes; ...                                                            *)
ReadSMARTValuesForAllDrives ==
  /\ api = "libatasmart" /\ rd.pc = "idle" /\ MayRetrieve
  /\ LET supp == getDriveSupportedSMART_IDs(table)
         toRead == SetSMART_IDsToRead(supp, toObs)
     IN InsertDrive(supp, toRead) /\ StartReading(toRead)
  /\ UNCHANGED <<drive, ok, nBlind, cl>>

(* ... when only GetSupportedSMART_IDs failed, with empty lists.           *)
ReadWithoutSupportedIDs ==
  /\ api = "libatasmart" /\ rd.pc = "idle" /\ MayRetrieve
  /\ nBlind < MaxBlind /\ nBlind' = nBlind + 1
  /\ InsertDrive(<< >>, << >>) /\ StartReading(<< >>)
  /\ UNCHANGED <<drive, ok, cl>>

(* Mutant: the cursor is moved past the ID itself.                         *)
CursorPastID(list, cur, id) == Forward(list, cur, id + 1)

(* Mutant: the list may end without its final 0 being noticed.             *)
CursorPastEnd(list, cur, id) ==
  IF Forward(list, cur, id) > Len(list) THEN N + 1 ELSE Forward(list, cur, id)

(* The flag of the attribute with this ID, and its value, ...              *)
Flag(list, j, id) == IF At(list, j) = id THEN ok \cup {id} ELSE ok \ {id}

(* ... after the cursor was moved.                                         *)
Cursor(list, cur, id) == Forward(list, cur, id)

NextPos(h) ==
  [h EXCEPT !.pc = IF h.pos = Len(table) THEN "done" ELSE "read",
            !.pos = IF h.pos = Len(table) THEN @ ELSE @ + 1]

(* getSMARTrawValueCallback, called for the drive's next attribute.        *)
getSMARTrawValueCallback ==
  LET id == table[rd.pos]
      j == Cursor(rd.list, rd.cur, id)
  IN /\ api = "libatasmart" /\ rd.pc = "read"
     /\ ok' = Flag(rd.list, j, id)
     /\ rd' = NextPos([rd EXCEPT !.cur = j])
     /\ UNCHANGED <<drive, stored, nBlind, cl>>

(* MS Windows: the element is inserted with empty lists, which then are    *)
(* set in it; what is passed as the IDs to read is the list of the new,    *)
(* empty SMARTuniqueID (readSMARTviaNVMe, GetSuppSMARTattrIDs).            *)
ReadSMARTviaNVMe ==
  /\ api = "NVMe" /\ rd.pc = "idle" /\ MayRetrieve
  /\ LET supp == getDriveSupportedSMART_IDs(table)
         toRead == IF stored.supp = << >> THEN SetSMART_IDsToRead(supp, << >>)
                                          ELSE stored.toRead
     IN /\ stored' = [in |-> TRUE, supp |-> supp, toRead |-> toRead]
        /\ StartReading(toRead)
  /\ UNCHANGED <<drive, ok, nBlind, cl>>

(* Its loop over the IDs to read.                                          *)
SetRawValNVMe ==
  /\ api = "NVMe" /\ rd.pc = "read"
  /\ ok' = ok \cup {rd.list[rd.pos]}
  /\ rd' = NextPos(rd)
  /\ UNCHANGED <<drive, stored, nBlind, cl>>

(* Mutant: an empty list of IDs is used again in the next interval.        *)
WaitAndKeepEmptyList ==
  /\ rd.pc = "done" /\ (role = "gui" \/ cl.pc \in {"off", "noThread"} \/ ~ThreadStarts)
  /\ rd' = IF rd.list = << >> THEN [Idle EXCEPT !.pc = "read"] ELSE Idle
  /\ UNCHANGED <<drive, stored, ok, nBlind, cl>>

(* The wait for the next interval, or the end of InitializeSMART.          *)
WaitForSignalOrTimeout ==
  /\ rd.pc = "done" /\ (role = "gui" \/ cl.pc \in {"off", "noThread"} \/ ~ThreadStarts)
  /\ rd' = Idle
  /\ UNCHANGED <<drive, stored, ok, nBlind, cl>>

(* The main table: its lines (CreateLines), and those that show a value    *)
(* (upd8rawAndH_andTime).                                                  *)
CreateLines == ToSet(stored.toRead)
Shown == CreateLines \cap ok

-----------------------------------------------------------------------------
(* A service and its client.                                               *)

(* The client connects, again or for the first time, and gets the          *)
(* supported IDs; the last ID of the message is taken too                  *)
(* (GetSupportedSMARTattributesViaXML).                                    *)
GetSupportedSMARTattributesViaXML ==
  /\ role = "service" /\ stored.in /\ cl.pc # "first"
  /\ \E count \in CopyCounts : \E s \in copyArr(getDriveSupportedSMART_IDs(table), count) :
       cl' = [pc |-> "first", supp |-> s, lines |-> << >>, ok |-> {}]
  /\ UNCHANGED <<drive, stored, ok, rd, nBlind>>

(* BeforeWait: the document of values.                                     *)
SentIDs == {id \in ToSet(stored.toRead) : id \in ok}

(* setSMART_IDsToReadFromSuccSMARTrawValUpd8, when there are no lines yet. *)
LinesOf(got) == Sorted(got \cap 1..N - 1)

(* SetSMARTattributesToObserve collects the attributes that were read;     *)
(* without any, StartAsyncUpdateThread does nothing.                       *)
NothingToObserve(got) == {id \in IDs : id \in got} = {}

(* GetSMARTvaluesAndUpdateUI: the first values make the table's lines and  *)
(* the IDs to observe.                                                     *)
GetSMARTvaluesAndUpdateUI ==
  /\ rd.pc = "done" /\ cl.pc = "first" /\ ThreadStarts
  /\ cl' = [cl EXCEPT !.ok = SentIDs, !.lines = LinesOf(SentIDs),
                      !.pc = IF NothingToObserve(SentIDs) THEN "noThread" ELSE "loop"]
  /\ rd' = Idle
  /\ UNCHANGED <<drive, stored, ok, nBlind>>

(* Later ones only give values; an attribute that is not in the document   *)
(* keeps what it has (HandleSingleSMARTentry).                             *)
GetSMARTattrValsFromSrv ==
  /\ rd.pc = "done" /\ cl.pc = "loop" /\ ThreadStarts
  /\ cl' = [cl EXCEPT !.ok = @ \cup SentIDs]
  /\ rd' = Idle
  /\ UNCHANGED <<drive, stored, ok, nBlind>>

-----------------------------------------------------------------------------
UpdateThread ==
  \/ ReadSMARTValuesForAllDrives \/ ReadWithoutSupportedIDs
  \/ ReadSMARTviaNVMe \/ SetRawValNVMe
  \/ getSMARTrawValueCallback \/ WaitForSignalOrTimeout
  \/ GetSMARTvaluesAndUpdateUI \/ GetSMARTattrValsFromSrv
Client == GetSupportedSMARTattributesViaXML

(* "No S.M.A.R.T. attributes to observe": nothing is retrieved any more.   *)
NoThread == rd.pc = "idle" /\ ~MayRetrieve /\ UNCHANGED vars

Next == UpdateThread \/ Client \/ NoThread
Spec == Init /\ [][Next]_vars

(* The update thread goes on.                                              *)
FairSpec == Spec /\ WF_vars(UpdateThread)

-----------------------------------------------------------------------------
(* The attributes both wanted by the file, as it was read, and supported.  *)
Selected ==
  IF toObs = << >> \/ api = "NVMe" THEN ToSet(table)
  ELSE ToSet(toObs) \cap ToSet(table)

(* The same for any order of the list in the file: what the walk finds.    *)
Wanted ==
  IF Ascending(toObs) \/ api = "NVMe" THEN Selected
  ELSE ToSet(SetSMART_IDsToRead(getDriveSupportedSMART_IDs(table), toObs))

(* The attributes before which the drive's table has no higher ID.         *)
InOrder == {table[i] : i \in {j \in 1..Len(table) : \A k \in 1..j - 1 : table[k] < table[j]}}

(* The walk through two ascending lists finds their intersection, in       *)
(* order, or all that is supported if nothing is configured; a retrieval   *)
(* without supported IDs reads nothing (SetSMART_IDsToRead: "Intersection  *)
(* of both SMART IDs supported by data carrier and SMART IDs to read").    *)
ReadsIntersection ==
  LET list == rd.list IN
  rd.pc # "idle" /\ Ascending(toObs) =>
    Ascending(list) /\ ToSet(list) \in {{}, Selected}

(* When a retrieval has been through the attribute table, exactly those    *)
(* attributes have a value that were to be read and that no higher ID      *)
(* precedes in the table: all of an ascending table, fewer of any other    *)
(* (getSMARTrawValueCallback's cursor never moves back).                   *)
ReadsWhatIsInOrder == rd.pc = "done" => ok = ToSet(rd.list) \cap InOrder

(* A client that updates its values has a line for exactly the attributes  *)
(* it has values of, all of them selected at the service, for any order of *)
(* the attribute table (BeforeWait,                                        *)
(* setSMART_IDsToReadFromSuccSMARTrawValUpd8).                             *)
ClientLinesMatch ==
  cl.pc = "loop" => /\ ToSet(cl.lines) = cl.ok
                    /\ Ascending(toObs) => cl.ok \subseteq Selected

(* For any order of the list in the file and of the drive's attributes,    *)
(* and wherever the copies are cut: what SMARTselection promises           *)
(* (readSMARTforDevice, copyArr, CreateLines).                             *)
Promised == INSTANCE SMARTselection WITH
  Cuts <- CopyCounts # {N},
  selected <- Wanted,
  found <- stored.in,
  lines <- CreateLines,
  valid <- Shown,
  blind <- rd.pc = "read" /\ rd.list = << >>
ImplementsSelection == Promised!Spec

(* In the end, although the drive has failed to tell what it supports,     *)
(* exactly those lines have a value, for good, whose attribute is selected *)
(* and in order in the drive's table (UpdateSMARTattrValsThreadFunc).      *)
LinesSettle == <>[](Shown = CreateLines \cap Wanted \cap InOrder)
=============================================================================
