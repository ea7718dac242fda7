------------------------- MODULE SMARTmonitorStatus --------------------------
(***************************************************************************)
(* From what the drive reports to the icon of the client: one thread       *)
(* stores the values of the attributes (libatasmart's callback, setRawVal  *)
(* for NVMe, HandleSingleSMARTentry for data of the service), the user     *)
(* interface thread rates one attribute after the other                    *)
(* (UpdateSMARTvaluesUI) and, if the summary has changed, shows an icon.   *)
(***************************************************************************)
EXTENDS SMARTvalueRater, Sequences

CONSTANTS
  Attrs,     \* attributes that are observed
  Kind,      \* what each of them is to the rating
  ValuesOf,  \* values the drive can report of each attribute
  Garbage,   \* what normalized values can be that are never initialized
  Source     \* who stores the values: "libatasmart", "NVMe" or "service"

ASSUME StatusAssumption ==
  /\ Kind \in [Attrs -> Kinds]
  /\ ValuesOf \in [Attrs -> SUBSET Values]
  /\ Garbage \subseteq Bytes
  /\ Source \in {"libatasmart", "NVMe", "service"}
  /\ \A a \in Attrs : Kind[a] \in NVMeKinds <=> Source = "NVMe"

VARIABLES
  drive,      \* what the drive reports of each attribute
  attr,       \* m_SMARTattrs: what the client has of it
  wr,         \* the thread that stores: attributes still to be stored, the
              \* one that is being stored and its next field
  connected,  \* values arrive, from the service or directly
  posted,     \* an UpdateSMARTparamValsInGUI event waits for the UI thread
  pass,       \* UpdateSMARTvaluesUI: attributes still to be rated, the
              \* summary so far
  status,     \* s_entireSMARTstatus
  icon        \* the (task bar) icon

vars == <<drive, attr, wr, connected, posted, pass, status, icon>>

(* "read" is m_successfullyReadSMARTrawValue; "timed" is whether           *)
(* GetRetrievalTime returns a time.                                        *)
Copies == [read : BOOLEAN, timed : BOOLEAN, raw : Int, curr : Bytes, thresh : Bytes]

(* The fields in the order they are stored. While the time is stored it is *)
(* inconsistent. The service does not send normalized values at all.       *)
Fields ==
  CASE Source = "libatasmart" -> <<"raw", "read", "untime", "time", "thresh", "curr">>
    [] Source = "NVMe"        -> <<"read", "untime", "time", "raw", "thresh">>
    [] Source = "service"     -> <<"read", "untime", "time", "raw">>

TypeOK ==
  /\ drive \in [Attrs -> Values]
  /\ attr \in [Attrs -> Copies]
  /\ wr \in [todo : SUBSET Attrs, attr : Attrs, pos : 0..Len(Fields)]
  /\ connected \in BOOLEAN /\ posted \in BOOLEAN
  /\ pass \in [on : BOOLEAN, todo : SUBSET Attrs, entire : {"unknown", "atLeast1Warn"}]
  /\ status \in {"unknown", "atLeast1Warn"}
  /\ icon \in {"unknown", "warning", "OK"}

(* A new SMARTattr: only the flag and the raw value are initialized.       *)
NewAttrs == [Attrs -> [read : {FALSE}, timed : BOOLEAN, raw : {0}, curr : Garbage, thresh : Garbage]]

Init ==
  /\ drive \in [Attrs -> UNION {ValuesOf[a] : a \in Attrs}]
  /\ \A a \in Attrs : drive[a] \in ValuesOf[a]
  /\ attr \in NewAttrs
  /\ \E a \in Attrs : wr = [todo |-> {}, attr |-> a, pos |-> 0]
  /\ connected = FALSE /\ posted = FALSE
  /\ pass = [on |-> FALSE, todo |-> {}, entire |-> "unknown"]
  /\ status = "unknown" /\ icon = "unknown"

-----------------------------------------------------------------------------
WriterIdle == wr.pos = 0 /\ wr.todo = {}

(* The drive's values change between two readings of the drive.            *)
DriveChanges ==
  /\ WriterIdle
  /\ \E a \in Attrs : \E v \in ValuesOf[a] : drive' = [drive EXCEPT ![a] = v]
  /\ UNCHANGED <<attr, wr, connected, posted, pass, status, icon>>

(* A new connection starts with an empty container of data carriers.       *)
Connect ==
  /\ ~connected /\ ~pass.on
  /\ connected' = TRUE
  /\ IF Source = "service" THEN attr' \in NewAttrs ELSE UNCHANGED attr
  /\ UNCHANGED <<drive, wr, posted, pass, status, icon>>

ReadSMARTattrs ==
  /\ connected /\ WriterIdle
  /\ wr' = [wr EXCEPT !.todo = Attrs]
  /\ UNCHANGED <<drive, attr, connected, posted, pass, status, icon>>

NextAttr(a) ==
  /\ wr.pos = 0 /\ a \in wr.todo
  /\ wr' = [todo |-> wr.todo \ {a}, attr |-> a, pos |-> 1]
  /\ UNCHANGED <<drive, attr, connected, posted, pass, status, icon>>

(* The service's value of an attribute is negative: the flag is reset, and *)
(* nothing else is stored (HandleSingleSMARTentry).                        *)
Refused(v) == Source = "service" /\ v.raw < 0

Stored(c, v, f) ==
  CASE f = "raw"    -> [c EXCEPT !.raw = v.raw]
    [] f = "read"   -> [c EXCEPT !.read = ~Refused(v)]
    [] f = "untime" -> [c EXCEPT !.timed = FALSE]
    [] f = "time"   -> [c EXCEPT !.timed = TRUE]
    [] f = "thresh" -> [c EXCEPT !.thresh = v.thresh]
    [] f = "curr"   -> [c EXCEPT !.curr = v.curr]

(* After the last attribute BeforeWait posts the event.                    *)
Store ==
  /\ wr.pos > 0
  /\ attr' = [attr EXCEPT ![wr.attr] = Stored(@, drive[wr.attr], Fields[wr.pos])]
  /\ LET last == wr.pos = Len(Fields) \/ Refused(drive[wr.attr]) IN
     /\ wr' = [wr EXCEPT !.pos = IF last THEN 0 ELSE @ + 1]
     /\ posted' = (posted \/ (last /\ wr.todo = {}))
  /\ UNCHANGED <<drive, connected, pass, status, icon>>

-----------------------------------------------------------------------------
(* The user interface thread.                                              *)

UpdateSMARTvaluesUI ==
  /\ posted /\ ~pass.on
  /\ posted' = FALSE
  /\ pass' = [on |-> TRUE, todo |-> Attrs, entire |-> "unknown"]
  /\ UNCHANGED <<drive, attr, wr, connected, status, icon>>

(* upd8rawAndH_andTime: if the attribute was read but has no consistent    *)
(* time the rating that is returned was never assigned.                    *)
Ratings(a) ==
  IF ~attr[a].read THEN {Unknown}
  ELSE IF attr[a].timed THEN {GetSMARTattrValRtng(Kind[a], attr[a])}
  ELSE {WorstRtgVal, Unknown}

(* Mutant: the last attribute decides.                                     *)
RateLastWins(a) ==
  /\ pass.on /\ a \in pass.todo
  /\ \E r \in Ratings(a) :
       pass' = [pass EXCEPT !.todo = @ \ {a},
                            !.entire = IF Less(r, WarnThresh) THEN "atLeast1Warn" ELSE "unknown"]
  /\ UNCHANGED <<drive, attr, wr, connected, posted, status, icon>>

Rate(a) ==
  /\ pass.on /\ a \in pass.todo
  /\ \E r \in Ratings(a) :
       pass' = [pass EXCEPT !.todo = @ \ {a},
                            !.entire = IF Less(r, WarnThresh) THEN "atLeast1Warn" ELSE @]
  /\ UNCHANGED <<drive, attr, wr, connected, posted, status, icon>>

(* The icon is changed for a warning only: "unknown" shows none.           *)
ShowStateAccordingToSMARTvalues(rating) ==
  icon' = IF rating = "atLeast1Warn" THEN "warning" ELSE icon

EndUpdate ==
  /\ pass.on /\ pass.todo = {}
  /\ IF status # pass.entire THEN ShowStateAccordingToSMARTvalues(pass.entire) ELSE UNCHANGED icon
  /\ status' = pass.entire
  /\ pass' = [pass EXCEPT !.on = FALSE]
  /\ UNCHANGED <<drive, attr, wr, connected, posted>>

(* Mutant: the summary is not reset.                                       *)
SetStateKeepsStatus ==
  /\ connected /\ WriterIdle /\ ~pass.on
  /\ connected' = FALSE
  /\ icon' = "unknown"
  /\ UNCHANGED <<drive, attr, wr, posted, pass, status>>

(* SetState(uncnnctdToSrv or endedDrctSMART): the thread that stores has   *)
(* ended, an update it has posted may still be waiting.                    *)
SetState ==
  /\ connected /\ WriterIdle /\ ~pass.on
  /\ connected' = FALSE
  /\ status' = "unknown" /\ icon' = "unknown"
  /\ UNCHANGED <<drive, attr, wr, posted, pass>>

Next ==
  \/ DriveChanges \/ Connect \/ ReadSMARTattrs \/ Store
  \/ UpdateSMARTvaluesUI \/ EndUpdate \/ SetState
  \/ \E a \in Attrs : NextAttr(a) \/ Rate(a)

Spec == Init /\ [][Next]_vars

(* Both threads go on as long as there is a connection.                    *)
FairSpec ==
  /\ Spec
  /\ WF_vars(ReadSMARTattrs) /\ WF_vars(Store)
  /\ WF_vars(UpdateSMARTvaluesUI) /\ WF_vars(EndUpdate)
  /\ \A a \in Attrs : WF_vars(NextAttr(a)) /\ WF_vars(Rate(a))

-----------------------------------------------------------------------------
(* While the summary is "at least 1 warning" the icon shows it: the        *)
(* comparison of the summary with the last one (UpdateSMARTvaluesUI) and   *)
(* the reset of both when the connection ends (SetState) never leave a     *)
(* warning that is taken as shown but is not. It rests on the summary      *)
(* having two values only, so that "different from the last one" means     *)
(* that the other one is to be shown.                                      *)
WarnStatusShown == status = "atLeast1Warn" => icon = "warning"
StatusInv == TypeOK /\ WarnStatusShown

(* An attribute that stays in alarm while values arrive gets its warning,  *)
(* and the warning stays, after any number of connections and however the  *)
(* stores interleave with UpdateSMARTvaluesUI; unless it is always rated   *)
(* just while its time is being stored.                                    *)
AlarmShown ==
  \A a \in Attrs :
    (/\ <>[](connected /\ InAlarm(Kind[a], drive[a]))
     /\ []<><<attr[a].timed /\ Rate(a)>>_vars)
    => <>[](icon = "warning")
=============================================================================
