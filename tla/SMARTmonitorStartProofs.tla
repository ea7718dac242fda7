----------------------- MODULE SMARTmonitorStartProofs -----------------------
(***************************************************************************)
(* Proofs about the start of the service and of the window, for every      *)
(* command line and whatever the configuration files hold.                 *)
(***************************************************************************)
EXTENDS SMARTmonitorStart, WellFoundedInduction, TLAPS

-----------------------------------------------------------------------------
(* What the start comes to.                                                *)

Failed == "readingConfigFileFailed"
CnnctnFile == FirstOf("cnnctn", Complete)

(* Nothing was posted or started before the program's last step; a failure *)
(* to read the configuration ends the start at once, so no later message   *)
(* hides its own.                                                          *)
FailureInv ==
  /\ pc \notin {"serving", "window"} => posted = FALSE /\ thread = FALSE
  /\ result = Failed => /\ pc \in {"ended", "window"}
                        /\ msg \in {"config", "configBlank"}
                        /\ posted = FALSE /\ thread = FALSE

(* The second directory is tried for lack of a complete file in the first; *)
(* then the settings are those of the first complete file, until the file  *)
(* of the option replaces both of them.                                    *)
SettingsInv ==
  /\ pc = "cnnctn" /\ dir = 2 => ~Complete(start.disk[1]["cnnctn"])
  /\ pc \in {"access", "bind", "serving", "option"} =>
       Complete(CnnctnFile) /\ Settings(conn) = Settings(CnnctnFile)
  /\ pc \notin {"decide", "window", "crashed"} => optFile = NoFile
  /\ pc = "decide" \/ (pc = "window" /\ result # Failed) =>
       Settings(conn) = Settings(IF Complete(optFile) THEN optFile ELSE CnnctnFile)

(* What the last step decided still holds.                                 *)
DecisionInv ==
  /\ pc \in {"bind", "serving"} => result = "success"
  /\ pc = "window" /\ result # Failed => posted = (opt.connFile # "")

OutcomeIInv == dir \in Dirs /\ FailureInv /\ SettingsInv /\ DecisionInv

(* A file that tryCfgFilePaths is content with, by kind.                   *)
Usable(kind, f) ==
  CASE kind \in {"ata", "nvme"} -> HasElements(f)
    [] kind = "carriers" -> f.root
    [] kind = "cnnctn" -> Complete(f)

FirstFile(kind) ==
  LET ds == {d \in Dirs : Usable(kind, start.disk[d][kind])} IN
  IF ds = {} THEN NoFile ELSE start.disk[Min(ds)][kind]

LEMMA FirstOfKind ==
  LET root(f) == f.root IN
  /\ FirstOf("ata", HasElements) = FirstFile("ata")
  /\ FirstOf("nvme", HasElements) = FirstFile("nvme")
  /\ FirstOf("carriers", root) = FirstFile("carriers")
  /\ FirstOf("cnnctn", Complete) = FirstFile("cnnctn")
BY DEF FirstOf, FirstFile, Usable

(* The first directory that has such a file, by cases.                     *)
LEMMA FirstUsable ==
  ASSUME NEW kind
  PROVE  /\ Usable(kind, start.disk[1][kind]) => FirstFile(kind) = start.disk[1][kind]
         /\ ~Usable(kind, start.disk[1][kind]) /\ Usable(kind, start.disk[2][kind]) =>
              FirstFile(kind) = start.disk[2][kind]
<1> DEFINE ds == {d \in Dirs : Usable(kind, start.disk[d][kind])}
<1>1. FirstFile(kind) = IF ds = {} THEN NoFile ELSE start.disk[Min(ds)][kind]
  BY DEF FirstFile
<1>2. ASSUME Usable(kind, start.disk[1][kind])
      PROVE  FirstFile(kind) = start.disk[1][kind]
  <2>1. 1 \in ds /\ \A y \in ds : 1 <= y
    BY <1>2 DEF Dirs
  <2>2. Min(ds) = 1
    BY <2>1 DEF Min, Dirs
  <2> QED BY <1>1, <2>1, <2>2
<1>3. ASSUME ~Usable(kind, start.disk[1][kind]), Usable(kind, start.disk[2][kind])
      PROVE  FirstFile(kind) = start.disk[2][kind]
  <2>1. ds = {2}
    BY <1>3 DEF Dirs
  <2>2. Min(ds) = 2
    BY <2>1 DEF Min
  <2> QED BY <1>1, <2>1, <2>2
<1> QED BY <1>2, <1>3

LEMMA FirstComplete ==
  /\ Complete(start.disk[1]["cnnctn"]) => CnnctnFile = start.disk[1]["cnnctn"]
  /\ ~Complete(start.disk[1]["cnnctn"]) /\ Complete(start.disk[2]["cnnctn"]) =>
       CnnctnFile = start.disk[2]["cnnctn"]
BY FirstUsable, FirstOfKind DEF Usable, CnnctnFile

(* ReadSrvCnnctnCfg reads a file with a root element iff it is complete,   *)
(* and then takes both settings from it.                                   *)
LEMMA CnnctnRead ==
  ASSUME NEW f, NEW c, f.root
  PROVE  LET r == ReadSrvCnnctnCfg(f, c) IN
         /\ r.read <=> Complete(f)
         /\ Complete(f) => Settings(r.conn) = Settings(f) /\ r.text = FALSE
         /\ ~Complete(f) /\ r.text = FALSE => r.conn = c
<1> DEFINE r == ReadSrvCnnctnCfg(f, c)
<1>1. CASE f.port = 0
  <2>1. r = [conn |-> c, read |-> FALSE, text |-> FALSE]
    BY <1>1 DEF ReadSrvCnnctnCfg
  <2>2. ~Complete(f)
    BY <1>1 DEF Complete
  <2>3. r.read = FALSE /\ r.text = FALSE /\ r.conn = c
    BY <2>1
  <2> QED BY <2>2, <2>3
<1>2. CASE f.port # 0 /\ f.host = None
  <2>1. r = [conn |-> [c EXCEPT !.port = f.port], read |-> FALSE, text |-> TRUE]
    BY <1>2 DEF ReadSrvCnnctnCfg
  <2>2. ~Complete(f)
    BY <1>2 DEF Complete
  <2>3. r.read = FALSE /\ r.text = TRUE
    BY <2>1
  <2> QED BY <2>2, <2>3
<1>3. CASE f.port # 0 /\ f.host # None
  <2>1. r = [conn |-> [port |-> f.port, host |-> f.host,
                       ids |-> IF f.ids = None THEN c.ids ELSE f.ids],
             read |-> TRUE, text |-> FALSE]
    BY <1>3 DEF ReadSrvCnnctnCfg
  <2>2. Complete(f)
    BY <1>3 DEF Complete
  <2> QED BY <2>1, <2>2 DEF Settings
<1> QED BY <1>1, <1>2, <1>3

LEMMA OutcomeInit == Init => OutcomeIInv
<1> SUFFICES ASSUME Init PROVE OutcomeIInv
  OBVIOUS
<1>1. /\ pc = "args" /\ dir = 1 /\ result = "none" /\ optFile = NoFile
      /\ posted = FALSE /\ thread = FALSE
  BY DEF Init
<1> QED BY <1>1 DEF OutcomeIInv, FailureInv, SettingsInv, DecisionInv, Dirs, Failed

(* Where a start goes on when a file was read, and when not.               *)
Moves(read) ==
  \/ /\ read /\ dir' = 1 /\ result' = result
     /\ \/ pc = "ata" /\ pc' = "nvme"
        \/ pc = "nvme" /\ pc' = "carriers"
        \/ pc = "carriers" /\ pc' = "cnnctn"
        \/ pc = "cnnctn" /\ pc' = "access"
  \/ ~read /\ dir = 1 /\ dir' = 2 /\ pc' = pc /\ result' = result
  \/ /\ ~read /\ dir = 2 /\ dir' = 2 /\ pc' \in {"ended", "window"}
     /\ result' = Failed /\ msg' \in {"config", "configBlank"}

LEMMA FileMoves ==
  ASSUME NEW read, NEW text, NEW shown, tryCfgFilePaths(read, text, shown), pc \in Kinds
  PROVE  Moves(read)
BY DEF tryCfgFilePaths, Moves, NextKind, Kinds, Failed

(* Steps before the connection file leave the settings and the outcome     *)
(* alone.                                                                  *)
LEMMA EarlierFileStep ==
  ASSUME OutcomeIInv, readSMARTattrDefs \/ ReadSMARTdataCarrierDefs
  PROVE  OutcomeIInv'
<1>1. pc \in {"ata", "nvme", "carriers"} /\ pc \in Kinds
  BY DEF readSMARTattrDefs, ReadSMARTdataCarrierDefs, Kinds
<1>2. UNCHANGED <<start, opt, conn, optFile, posted, thread>>
  BY DEF readSMARTattrDefs, ReadSMARTdataCarrierDefs, outcome
<1>3. \E read : Moves(read)
  BY <1>1, FileMoves DEF readSMARTattrDefs, ReadSMARTdataCarrierDefs
<1>4. /\ dir' \in Dirs
      /\ \/ pc' \in {"ata", "nvme", "carriers", "cnnctn"} /\ result' = result
            /\ (pc' = "cnnctn" => dir' = 1)
         \/ /\ pc' \in {"ended", "window"} /\ result' = Failed
            /\ msg' \in {"config", "configBlank"}
  BY <1>1, <1>3 DEF Moves, Dirs
<1>5. result # Failed /\ posted = FALSE /\ thread = FALSE /\ optFile = NoFile
  BY <1>1 DEF OutcomeIInv, FailureInv, SettingsInv
<1>6. FailureInv'
  BY <1>2, <1>4, <1>5 DEF FailureInv, Failed
<1>7. SettingsInv'
  BY <1>2, <1>4, <1>5 DEF SettingsInv
<1>8. DecisionInv'
  BY <1>4 DEF DecisionInv
<1> QED BY <1>4, <1>6, <1>7, <1>8 DEF OutcomeIInv

(* The connection file: read iff it is complete, in either directory.      *)
LEMMA CnnctnFileStep ==
  ASSUME OutcomeIInv, ReadConnectionFile
  PROVE  OutcomeIInv'
<1> DEFINE f == start.disk[dir]["cnnctn"]
           r == IF f.root THEN ReadSrvCnnctnCfg(f, conn)
                ELSE [conn |-> conn, read |-> FALSE, text |-> TRUE]
<1>1. pc = "cnnctn" /\ pc \in Kinds
  BY DEF ReadConnectionFile, Kinds
<1>2. UNCHANGED <<start, opt, optFile, posted, thread>>
  BY DEF ReadConnectionFile, outcome
<1>3. conn' = r.conn /\ tryCfgFilePaths(r.read, r.text, msg)
  BY <1>1 DEF ReadConnectionFile, ConstructConfigFilePath
<1>4. /\ r.read <=> Complete(f)
      /\ Complete(f) => Settings(r.conn) = Settings(f)
  <2>1. CASE f.root
    <3>1. r = ReadSrvCnnctnCfg(f, conn)
      BY <2>1
    <3> HIDE DEF f, r
    <3> QED BY <2>1, <3>1, CnnctnRead
  <2>2. CASE ~f.root
    <3>1. r.read = FALSE
      BY <2>2
    <3>2. ~Complete(f)
      BY <2>2 DEF Complete
    <3> QED BY <3>1, <3>2
  <2> QED BY <2>1, <2>2
<1>5. Moves(r.read)
  <2> HIDE DEF r
  <2> QED BY <1>1, <1>3, FileMoves
<1> HIDE DEF r
<1>6. \/ /\ Complete(f) /\ dir' = 1 /\ result' = result /\ pc' = "access"
      \/ ~Complete(f) /\ dir = 1 /\ dir' = 2 /\ pc' = "cnnctn" /\ result' = result
      \/ /\ pc' \in {"ended", "window"} /\ dir' = 2 /\ result' = Failed
         /\ msg' \in {"config", "configBlank"}
  BY <1>1, <1>4, <1>5 DEF Moves
<1>7. result # Failed /\ posted = FALSE /\ thread = FALSE /\ optFile = NoFile /\ dir \in Dirs
  BY <1>1 DEF OutcomeIInv, FailureInv, SettingsInv
<1>8. FailureInv'
  BY <1>2, <1>6, <1>7 DEF FailureInv, Failed
<1>9. ASSUME pc' = "access"
      PROVE  (Complete(CnnctnFile) /\ Settings(conn) = Settings(CnnctnFile))'
  <2>1. Complete(f) /\ Settings(conn') = Settings(f)
    BY <1>3, <1>4, <1>6, <1>9
  <2>2. f = CnnctnFile
    <3>1. CASE dir = 1
      BY <2>1, <3>1, FirstComplete
    <3>2. CASE dir = 2
      BY <1>1, <2>1, <3>2, FirstComplete DEF OutcomeIInv, SettingsInv
    <3> QED BY <1>7, <3>1, <3>2 DEF Dirs
  <2>3. CnnctnFile' = CnnctnFile
    BY <1>2 DEF CnnctnFile, FirstOf
  <2> QED BY <2>1, <2>2, <2>3 DEF Complete, Settings
<1>10. SettingsInv'
  BY <1>2, <1>6, <1>7, <1>9 DEF SettingsInv
<1>11. DecisionInv'
  BY <1>6 DEF DecisionInv
<1> QED BY <1>6, <1>8, <1>10, <1>11 DEF OutcomeIInv, Dirs

(* The command line and the log file come before all that.                 *)
LEMMA ArgumentsStep ==
  ASSUME OutcomeIInv, ProcessArg \/ ProcessLastArg \/ EndOfArgs \/ InitializeLogger
  PROVE  OutcomeIInv'
<1>1. /\ pc \in {"args", "logger"} /\ pc' \in {"args", "logger", "ata", "ended", "crashed"}
      /\ UNCHANGED <<start, conn, dir, result, optFile, posted, thread>>
  BY DEF ProcessArg, ProcessLastArg, EndOfArgs, InitializeLogger, config, outcome
<1>2. result # Failed /\ posted = FALSE /\ thread = FALSE /\ optFile = NoFile /\ dir \in Dirs
  BY <1>1 DEF OutcomeIInv, FailureInv, SettingsInv
<1>3. FailureInv' /\ SettingsInv' /\ DecisionInv'
  BY <1>1, <1>2 DEF FailureInv, SettingsInv, DecisionInv
<1> QED BY <1>1, <1>2, <1>3 DEF OutcomeIInv

(* What follows once the configuration was read.                           *)
LEMMA AccessStep ==
  ASSUME OutcomeIInv, FirstAccess \/ BindAndListenToSocket
  PROVE  OutcomeIInv'
<1>1. /\ pc \in {"access", "bind"} /\ pc' \in {"bind", "option", "serving", "ended"}
      /\ UNCHANGED <<start, conn, dir, optFile, posted>>
      /\ result' \in AccessResults \/ result' = result
      /\ pc' \in {"bind", "serving"} => result' = "success" \/ (pc = "bind" /\ result' = result)
      /\ pc' # "serving" => thread' = thread
  BY DEF FirstAccess, BindAndListenToSocket, config, outcome, AccessResults
<1>2. /\ result # Failed /\ posted = FALSE /\ thread = FALSE /\ optFile = NoFile /\ dir \in Dirs
      /\ Complete(CnnctnFile) /\ Settings(conn) = Settings(CnnctnFile)
      /\ pc = "bind" => result = "success"
  BY <1>1 DEF OutcomeIInv, FailureInv, SettingsInv, DecisionInv
<1>3. result' # Failed
  BY <1>1, <1>2 DEF AccessResults, Failed
<1>4. CnnctnFile' = CnnctnFile
  BY <1>1 DEF CnnctnFile, FirstOf
<1>5. Complete(CnnctnFile') /\ Settings(conn') = Settings(CnnctnFile')
  BY <1>1, <1>2, <1>4
<1>6. SettingsInv'
  BY <1>1, <1>2, <1>5 DEF SettingsInv
<1>7. FailureInv' /\ DecisionInv'
  BY <1>1, <1>2, <1>3 DEF FailureInv, DecisionInv
<1> QED BY <1>1, <1>2, <1>6, <1>7 DEF OutcomeIInv

(* The file of the option gives both settings or none; with the port only  *)
(* the program does not get any further.                                   *)
LEMMA OptionStep ==
  ASSUME OutcomeIInv, ReadServiceConnectionSettings
  PROVE  OutcomeIInv'
<1> DEFINE r == ReadSrvCnnctnCfg(optFile', conn)
           chosen == IF Complete(optFile') THEN optFile' ELSE CnnctnFile
<1>1. /\ pc = "option" /\ pc' \in {"decide", "crashed"}
      /\ UNCHANGED <<start, dir, result, posted, thread>>
  BY DEF ReadServiceConnectionSettings
<1>2. /\ result # Failed /\ posted = FALSE /\ thread = FALSE /\ optFile = NoFile /\ dir \in Dirs
      /\ Complete(CnnctnFile) /\ Settings(conn) = Settings(CnnctnFile)
  BY <1>1 DEF OutcomeIInv, FailureInv, SettingsInv
<1>3. CnnctnFile' = CnnctnFile
  BY <1>1 DEF CnnctnFile, FirstOf
<1>4. ASSUME pc' = "decide"
      PROVE  Settings(conn') = Settings(chosen)
  <2>1. CASE conn' = conn /\ optFile' = optFile
    <3>1. ~Complete(optFile')
      BY <1>2, <2>1 DEF Complete, NoFile
    <3> QED BY <1>2, <2>1, <3>1
  <2>2. CASE conn' = conn /\ ~optFile'.root
    <3>1. ~Complete(optFile')
      BY <2>2 DEF Complete
    <3> QED BY <1>2, <2>2, <3>1
  <2>3. CASE optFile'.root /\ conn' = r.conn /\ ~r.text
    <3>1. r.text = FALSE
      <4>1. r.text \in BOOLEAN
        BY DEF ReadSrvCnnctnCfg
      <4> HIDE DEF r
      <4> QED BY <2>3, <4>1
    <3>2. /\ Complete(optFile') => Settings(r.conn) = Settings(optFile')
          /\ ~Complete(optFile') => r.conn = conn
      BY <2>3, <3>1, CnnctnRead
    <3> HIDE DEF r
    <3> QED BY <1>2, <2>3, <3>2
  <2> QED BY <1>4, <2>1, <2>2, <2>3 DEF ReadServiceConnectionSettings
<1> HIDE DEF r
<1>5. pc' = "decide" =>
        Settings(conn') = Settings(IF Complete(optFile') THEN optFile' ELSE CnnctnFile')
  BY <1>3, <1>4
<1>6. SettingsInv'
  BY <1>1, <1>5 DEF SettingsInv
<1>7. FailureInv' /\ DecisionInv'
  BY <1>1, <1>2 DEF FailureInv, DecisionInv
<1> QED BY <1>1, <1>2, <1>6, <1>7 DEF OutcomeIInv

LEMMA DecideStep ==
  ASSUME OutcomeIInv, ConnectOrRead
  PROVE  OutcomeIInv'
<1> DEFINE chosen == IF Complete(optFile) THEN optFile ELSE CnnctnFile
<1>1. /\ pc = "decide" /\ pc' = "window"
      /\ UNCHANGED <<start, opt, conn, dir, result, optFile>>
      /\ posted' = (opt.connFile # "")
  BY DEF ConnectOrRead, config
<1>2. result # Failed /\ dir \in Dirs /\ Settings(conn) = Settings(chosen)
  BY <1>1 DEF OutcomeIInv, FailureInv, SettingsInv
<1>3. CnnctnFile' = CnnctnFile
  BY <1>1 DEF CnnctnFile, FirstOf
<1>4. Settings(conn') = Settings(IF Complete(optFile') THEN optFile' ELSE CnnctnFile')
  BY <1>1, <1>2, <1>3
<1>5. SettingsInv'
  BY <1>1, <1>4 DEF SettingsInv
<1>6. FailureInv'
  BY <1>1, <1>2 DEF FailureInv
<1>7. DecisionInv'
  BY <1>1 DEF DecisionInv
<1> QED BY <1>1, <1>2, <1>5, <1>6, <1>7 DEF OutcomeIInv

LEMMA OutcomeStep == OutcomeIInv /\ [Next]_vars => OutcomeIInv'
<1> SUFFICES ASSUME OutcomeIInv, [Next]_vars PROVE OutcomeIInv'
  OBVIOUS
<1>1. CASE UNCHANGED vars
  <2>1. UNCHANGED <<start, pc, opt, dir, conn, result, msg, optFile, posted, thread>>
    BY <1>1 DEF vars
  <2>2. CnnctnFile' = CnnctnFile
    BY <2>1 DEF CnnctnFile, FirstOf
  <2> QED BY <2>1, <2>2 DEF OutcomeIInv, FailureInv, SettingsInv, DecisionInv, Settings, Complete
<1>2. CASE Started
  <2>1. UNCHANGED vars
    BY <1>2 DEF Started
  <2> QED BY <1>1, <2>1
<1> QED
  BY <1>1, <1>2, ArgumentsStep, EarlierFileStep, CnnctnFileStep, AccessStep, OptionStep,
     DecideStep DEF Next

LEMMA OutcomeInvariance == Spec => []OutcomeIInv
BY OutcomeInit, OutcomeStep, PTL DEF Spec

-----------------------------------------------------------------------------
(* The update thread.                                                      *)

EarlyPCs == {"args", "logger"} \cup Kinds

(* The list of IDs is the one of the first complete file once a file was   *)
(* read, until the file of the option: then no thread is started.          *)
IDsInv ==
  /\ start \in Starts
  /\ pc \in EarlyPCs => "ids" \in DOMAIN conn /\ conn.ids = "uninitialized"
  /\ pc \in {"access", "bind", "option"} \/ (pc = "decide" /\ opt.connFile = "") =>
       (AttrToObs <=> NamesAttrs(CnnctnFile))

ThreadInv ==
  /\ pc = "serving" => /\ thread <=> NamesAttrs(CnnctnFile)
                       /\ ~thread => msg = "noAttrs"
  /\ pc = "window" /\ result # Failed =>
       (thread <=> /\ start.direct /\ opt.connFile = "" /\ result = "success"
                   /\ NamesAttrs(CnnctnFile))

LEMMA ThreadInit == Init => IDsInv /\ ThreadInv
<1> SUFFICES ASSUME Init PROVE IDsInv /\ ThreadInv
  OBVIOUS
<1>1. start \in Starts /\ pc = "args" /\ conn = [port |-> 2000, host |-> "", ids |-> "uninitialized"]
  BY DEF Init
<1> QED BY <1>1 DEF IDsInv, ThreadInv, EarlyPCs, Kinds

(* The list that ReadSrvCnnctnCfg leaves.                                  *)
LEMMA CnnctnIDs ==
  ASSUME NEW f, NEW c, f.root, "ids" \in DOMAIN c
  PROVE  LET r == ReadSrvCnnctnCfg(f, c) IN
         /\ Complete(f) => r.conn.ids = IF f.ids = None THEN c.ids ELSE f.ids
         /\ ~Complete(f) => "ids" \in DOMAIN r.conn /\ r.conn.ids = c.ids
<1> DEFINE r == ReadSrvCnnctnCfg(f, c)
<1>1. CASE f.port = 0
  <2>1. r = [conn |-> c, read |-> FALSE, text |-> FALSE] /\ ~Complete(f)
    BY <1>1 DEF ReadSrvCnnctnCfg, Complete
  <2> QED BY <2>1
<1>2. CASE f.port # 0 /\ f.host = None
  <2>1. r = [conn |-> [c EXCEPT !.port = f.port], read |-> FALSE, text |-> TRUE] /\ ~Complete(f)
    BY <1>2 DEF ReadSrvCnnctnCfg, Complete
  <2>2. r.conn = [c EXCEPT !.port = f.port]
    BY <2>1
  <2>3. "ids" \in DOMAIN r.conn /\ r.conn.ids = c.ids
    <3> HIDE DEF r
    <3> QED BY <2>2
  <2> QED BY <2>1, <2>3
<1>3. CASE f.port # 0 /\ f.host # None
  <2>1. r = [conn |-> [port |-> f.port, host |-> f.host,
                       ids |-> IF f.ids = None THEN c.ids ELSE f.ids],
             read |-> TRUE, text |-> FALSE] /\ Complete(f)
    BY <1>3 DEF ReadSrvCnnctnCfg, Complete
  <2> QED BY <2>1
<1> QED BY <1>1, <1>2, <1>3

(* The connection file of a directory: a complete one gives the list.      *)
LEMMA ThreadCnnctn ==
  ASSUME OutcomeIInv, IDsInv, ReadConnectionFile
  PROVE  IDsInv' /\ ThreadInv'
<1> DEFINE f == start.disk[dir]["cnnctn"]
           r == IF f.root THEN ReadSrvCnnctnCfg(f, conn)
                ELSE [conn |-> conn, read |-> FALSE, text |-> TRUE]
<1>1. /\ pc = "cnnctn" /\ pc \in Kinds /\ pc \in EarlyPCs
      /\ UNCHANGED <<start, opt, thread>>
  BY DEF ReadConnectionFile, Kinds, EarlyPCs, outcome
<1>2. conn' = r.conn /\ tryCfgFilePaths(r.read, r.text, msg)
  BY <1>1 DEF ReadConnectionFile, ConstructConfigFilePath
<1>3. start \in Starts /\ "ids" \in DOMAIN conn /\ conn.ids = "uninitialized" /\ dir \in Dirs
  BY <1>1 DEF IDsInv, OutcomeIInv
<1>4. /\ r.read <=> Complete(f)
      /\ Complete(f) => conn'.ids = IF f.ids = None THEN conn.ids ELSE f.ids
      /\ ~Complete(f) => "ids" \in DOMAIN conn' /\ conn'.ids = conn.ids
  <2>1. CASE f.root
    <3>1. r = ReadSrvCnnctnCfg(f, conn)
      BY <2>1
    <3> HIDE DEF f, r
    <3> QED BY <1>2, <1>3, <2>1, <3>1, CnnctnRead, CnnctnIDs
  <2>2. CASE ~f.root
    <3>1. r.read = FALSE /\ r.conn = conn
      BY <2>2
    <3>2. ~Complete(f)
      BY <2>2 DEF Complete
    <3> HIDE DEF f, r
    <3> QED BY <1>2, <1>3, <3>1, <3>2
  <2> QED BY <2>1, <2>2
<1>5. Moves(r.read)
  <2> HIDE DEF r
  <2> QED BY <1>1, <1>2, FileMoves
<1>6. f.root => f.ids # "uninitialized"
  BY <1>3, StartAssumption DEF IsFile, Kinds, Dirs
<1>7. ASSUME Complete(f)
      PROVE  (AttrToObs <=> NamesAttrs(CnnctnFile))'
  <2>1. f = CnnctnFile
    <3>1. CASE dir = 1
      BY <1>7, <3>1, FirstComplete
    <3>2. CASE dir = 2
      BY <1>1, <1>7, <3>2, FirstComplete DEF OutcomeIInv, SettingsInv
    <3> QED BY <1>3, <3>1, <3>2 DEF Dirs
  <2>2. CnnctnFile' = CnnctnFile
    BY <1>1 DEF CnnctnFile, FirstOf
  <2>3. f.root
    BY <1>7 DEF Complete
  <2> HIDE DEF f, r
  <2>4. conn'.ids \notin {"uninitialized", NoIDs} <=> f.ids \notin {None, NoIDs}
    BY <1>3, <1>4, <1>6, <1>7, <2>3
  <2> QED BY <2>1, <2>2, <2>4 DEF AttrToObs, NamesAttrs
<1> HIDE DEF f, r
<1>8. \/ Complete(f) /\ pc' = "access"
      \/ ~Complete(f) /\ pc' = "cnnctn"
      \/ pc' \in {"ended", "window"} /\ result' = Failed
  BY <1>1, <1>4, <1>5 DEF Moves
<1>9. IDsInv'
  BY <1>1, <1>3, <1>4, <1>7, <1>8 DEF IDsInv, EarlyPCs, Kinds
<1>10. ThreadInv'
  BY <1>8 DEF ThreadInv
<1> QED BY <1>9, <1>10

LEMMA ThreadEarly ==
  ASSUME IDsInv, \/ ProcessArg \/ ProcessLastArg \/ EndOfArgs \/ InitializeLogger
                 \/ readSMARTattrDefs \/ ReadSMARTdataCarrierDefs
  PROVE  IDsInv' /\ ThreadInv'
<1>1. CASE ProcessArg \/ ProcessLastArg \/ EndOfArgs \/ InitializeLogger
  <2>1. /\ pc \in {"args", "logger"} /\ UNCHANGED <<start, conn>>
        /\ pc' \in {"args", "logger", "ata", "ended", "crashed"}
    BY <1>1 DEF ProcessArg, ProcessLastArg, EndOfArgs, InitializeLogger, config
  <2> QED BY <2>1 DEF IDsInv, ThreadInv, EarlyPCs, Kinds
<1>2. CASE readSMARTattrDefs \/ ReadSMARTdataCarrierDefs
  <2>1. pc \in {"ata", "nvme", "carriers"} /\ pc \in Kinds /\ UNCHANGED <<start, conn>>
    BY <1>2 DEF readSMARTattrDefs, ReadSMARTdataCarrierDefs, Kinds
  <2>2. \E read : Moves(read)
    BY <1>2, <2>1, FileMoves DEF readSMARTattrDefs, ReadSMARTdataCarrierDefs
  <2>3. pc' \in Kinds \/ (pc' \in {"ended", "window"} /\ result' = Failed)
    BY <2>1, <2>2 DEF Moves, Kinds
  <2> QED BY <2>1, <2>3 DEF IDsInv, ThreadInv, EarlyPCs, Kinds
<1> QED BY <1>1, <1>2

(* The steps that start a thread, and the ones before.                     *)
LEMMA ThreadLate ==
  ASSUME IDsInv, \/ FirstAccess \/ BindAndListenToSocket
                 \/ ReadServiceConnectionSettings \/ ConnectOrRead
  PROVE  IDsInv' /\ ThreadInv'
<1>1. start' = start /\ opt' = opt
  BY DEF FirstAccess, BindAndListenToSocket, ReadServiceConnectionSettings, ConnectOrRead
<1>2. CnnctnFile' = CnnctnFile
  BY <1>1 DEF CnnctnFile, FirstOf
<1>3. NamesAttrs(CnnctnFile)' <=> NamesAttrs(CnnctnFile)
  BY <1>2 DEF NamesAttrs
<1>4. ASSUME conn' = conn PROVE AttrToObs' <=> AttrToObs
  BY <1>4 DEF AttrToObs
<1>5. CASE FirstAccess
  <2>1. pc = "access" /\ pc' \in {"option", "bind", "ended"} /\ conn' = conn
    BY <1>5 DEF FirstAccess, config
  <2> QED BY <1>1, <1>3, <1>4, <2>1 DEF IDsInv, ThreadInv, EarlyPCs, Kinds
<1>6. CASE BindAndListenToSocket
  <2>1. /\ pc = "bind" /\ pc' \in {"serving", "ended"}
        /\ pc' = "serving" => (thread' <=> AttrToObs) /\ (~AttrToObs => msg' = "noAttrs")
    BY <1>6 DEF BindAndListenToSocket
  <2> QED BY <1>1, <1>3, <2>1 DEF IDsInv, ThreadInv, EarlyPCs, Kinds
<1>7. CASE ReadServiceConnectionSettings
  <2>1. /\ pc = "option" /\ pc' \in {"decide", "crashed"}
        /\ opt.connFile = "" => conn' = conn
    BY <1>7 DEF ReadServiceConnectionSettings
  <2> QED BY <1>1, <1>3, <1>4, <2>1 DEF IDsInv, ThreadInv, EarlyPCs, Kinds
<1>8. CASE ConnectOrRead
  <2>1. /\ pc = "decide" /\ pc' = "window" /\ result' = result
        /\ thread' <=> (start.direct /\ opt.connFile = "" /\ result = "success" /\ AttrToObs)
    BY <1>8 DEF ConnectOrRead
  <2> QED BY <1>1, <1>3, <2>1 DEF IDsInv, ThreadInv, EarlyPCs, Kinds
<1> QED BY <1>5, <1>6, <1>7, <1>8

LEMMA ThreadStep ==
  OutcomeIInv /\ IDsInv /\ ThreadInv /\ [Next]_vars => IDsInv' /\ ThreadInv'
<1> SUFFICES ASSUME OutcomeIInv, IDsInv, ThreadInv, [Next]_vars PROVE IDsInv' /\ ThreadInv'
  OBVIOUS
<1>1. CASE UNCHANGED vars
  <2>1. UNCHANGED <<start, pc, opt, conn, result, msg, thread>>
    BY <1>1 DEF vars
  <2>2. CnnctnFile' = CnnctnFile
    BY <2>1 DEF CnnctnFile, FirstOf
  <2> QED BY <2>1, <2>2 DEF IDsInv, ThreadInv, NamesAttrs, AttrToObs
<1>2. CASE Started
  BY <1>1, <1>2 DEF Started
<1> QED BY <1>1, <1>2, ThreadEarly, ThreadCnnctn, ThreadLate DEF Next

LEMMA ThreadInvariance == Spec => [](IDsInv /\ ThreadInv)
BY ThreadInit, ThreadStep, OutcomeInvariance, PTL DEF Spec

(* The service accepts clients only when all files were read, at the port  *)
(* and for the host of the first complete connection file, never with the  *)
(* port of one file and the host of another; it reads drives then iff that *)
(* file has an ID to observe, and else shows that there is none (main,     *)
(* tryCfgFilePaths, ReadSrvCnnctnCfg, StartAsyncUpdateThread).             *)
THEOREM ServesOneFile == Spec => []ServesAsConfigured
<1>1. OutcomeIInv /\ ThreadInv => ServesAsConfigured
  BY DEF OutcomeIInv, SettingsInv, DecisionInv, ThreadInv, ServesAsConfigured, CnnctnFile
<1> QED BY <1>1, OutcomeInvariance, ThreadInvariance, PTL

(* The message of a configuration that could not be read is the last one,  *)
(* and the program neither connects nor reads then (OnInit,                *)
(* InitializeSMART).                                                       *)
THEOREM ConfigErrorStays == Spec => []ConfigErrorShown
<1>1. OutcomeIInv => ConfigErrorShown
  BY DEF OutcomeIInv, FailureInv, ConfigErrorShown, Failed
<1> QED BY <1>1, OutcomeInvariance, PTL

(* The window connects to a service or reads drives, never both; it reads  *)
(* iff no file was named, the drives can be read and the directory's file  *)
(* has an ID to observe, and the host and port it connects to are of one   *)
(* file (OnInit, ReadServiceConnectionSettings, StartAsyncDrctUpd8Thread). *)
THEOREM WindowConnectsOrReads == Spec => []ConnectsOrReads
<1>1. OutcomeIInv /\ ThreadInv => ConnectsOrReads
  <2> SUFFICES ASSUME OutcomeIInv, ThreadInv, pc = "window", result # Failed
               PROVE  ConnectsOrReads
    BY DEF ConnectsOrReads, Failed
  <2>1. /\ posted <=> opt.connFile # ""
        /\ thread <=> /\ start.direct /\ opt.connFile = "" /\ result = "success"
                      /\ NamesAttrs(CnnctnFile)
    BY DEF OutcomeIInv, DecisionInv, ThreadInv
  <2>2. Settings(conn) = Settings(IF Complete(optFile) THEN optFile ELSE CnnctnFile)
    BY DEF OutcomeIInv, SettingsInv
  <2> QED BY <2>1, <2>2 DEF ConnectsOrReads, CnnctnFile
<1> QED BY <1>1, OutcomeInvariance, ThreadInvariance, PTL
-----------------------------------------------------------------------------
(* The default names.                                                      *)

NoneUsable == \A d \in Dirs : ~HasElements(start.disk[d]["ata"])

(* Without definitions the start does not come to the file of the NVMe     *)
(* definitions, which would clear the table.                               *)
NamesIInv ==
  NoneUsable =>
    /\ pc \in {"args", "logger", "ata", "ended", "window", "crashed"}
    /\ \A i \in DefaultIDs : defs.ata[i].name = "default"

LEMMA NoneUsableFile == FirstOf("ata", HasElements) = NoFile => NoneUsable
<1> DEFINE ds == {d \in Dirs : HasElements(start.disk[d]["ata"])}
<1> SUFFICES ASSUME FirstOf("ata", HasElements) = NoFile, ds # {}
             PROVE  FALSE
  BY DEF NoneUsable
<1>1. NoFile = start.disk[Min(ds)]["ata"]
  BY DEF FirstOf
<1>2. Min(ds) \in ds
  <2>1. CASE 1 \in ds
    <3>1. \A y \in ds : 1 <= y
      BY DEF Dirs
    <3> QED BY <2>1, <3>1 DEF Min
  <2>2. CASE 1 \notin ds
    <3>1. ds = {2}
      BY <2>2 DEF Dirs
    <3> QED BY <3>1 DEF Min
  <2> QED BY <2>1, <2>2
<1>3. HasElements(NoFile)
  BY <1>1, <1>2, Zenon
<1>4. ~HasElements(NoFile)
  BY DEF HasElements, NoFile
<1> QED BY <1>3, <1>4

LEMMA NamesStep == dir \in Dirs /\ NamesIInv /\ [Next]_vars => NamesIInv'
<1> SUFFICES ASSUME dir \in Dirs, NamesIInv, [Next]_vars, NoneUsable'
             PROVE  /\ pc' \in {"args", "logger", "ata", "ended", "window", "crashed"}
                    /\ \A i \in DefaultIDs : defs'.ata[i].name = "default"
  BY DEF NamesIInv
<1>1. start' = start
  BY DEF Next, vars, ProcessArg, ProcessLastArg, EndOfArgs, InitializeLogger, readSMARTattrDefs,
     ReadSMARTdataCarrierDefs, ReadConnectionFile, FirstAccess, BindAndListenToSocket,
     ReadServiceConnectionSettings, ConnectOrRead, Started
<1>2. /\ NoneUsable
      /\ pc \in {"args", "logger", "ata", "ended", "window", "crashed"}
      /\ \A i \in DefaultIDs : defs.ata[i].name = "default"
  BY <1>1 DEF NoneUsable, NamesIInv
<1>3. CASE ProcessArg \/ ProcessLastArg \/ EndOfArgs \/ InitializeLogger
  <2>1. pc' \in {"args", "logger", "ata", "ended", "crashed"} /\ defs' = defs
    BY <1>3 DEF ProcessArg, ProcessLastArg, EndOfArgs, InitializeLogger, config
  <2> QED BY <1>2, <2>1
<1>4. CASE readSMARTattrDefs
  <2> DEFINE f == start.disk[dir]["ata"]
             read == f.root /\ f.items # << >>
             cleared == [defs EXCEPT !.ata = clearSMARTattrDefs]
  <2>1. pc = "ata" /\ pc \in Kinds
    BY <1>2, <1>4 DEF readSMARTattrDefs, Kinds
  <2>2. ~read
    BY <1>2 DEF NoneUsable, HasElements
  <2>3. /\ defs' = IF read THEN [cleared EXCEPT ![pc] = AddDefs(cleared[pc], f.items).table]
                  ELSE defs
        /\ \E shown : tryCfgFilePaths(read, TRUE, shown)
    BY <1>4, <2>1, Zenon DEF readSMARTattrDefs, ConstructConfigFilePath
  <2>4. Moves(read)
    <3> HIDE DEF read
    <3> QED BY <2>1, <2>3, FileMoves
  <2> HIDE DEF read, cleared
  <2>5. defs' = defs /\ pc' \in {"ata", "ended", "window"}
    BY <2>1, <2>2, <2>3, <2>4 DEF Moves
  <2> QED BY <1>2, <2>5
<1>5. CASE UNCHANGED vars \/ Started
  <2>1. pc' = pc /\ defs' = defs
    BY <1>5 DEF vars, Started
  <2> QED BY <1>2, <2>1
<1> QED
  BY <1>2, <1>3, <1>4, <1>5
     DEF Next, ReadSMARTdataCarrierDefs, ReadConnectionFile, FirstAccess,
         BindAndListenToSocket, ReadServiceConnectionSettings, ConnectOrRead

(* "even if the S.M.A.R.T. attribute definition configuration file is      *)
(* missing then parameter names are possible" (setDfltSMARTattrDef): when  *)
(* no directory has a file with definitions, the default names stay.       *)
THEOREM DefaultNamesStay == Spec => []NamesIfMissing
<1>1. Init => NamesIInv
  <2> SUFFICES ASSUME Init PROVE NamesIInv
    OBVIOUS
  <2>1. PICK flag \in BOOLEAN :
          defs = [ata |-> setDfltSMARTattrDef(flag), nvme |-> clearSMARTattrDefs]
    BY DEF Init
  <2>2. \A i \in DefaultIDs : defs.ata[i].name = "default"
    BY <2>1, StartAssumption DEF setDfltSMARTattrDef
  <2> QED BY <2>2 DEF Init, NamesIInv
<1>2. OutcomeIInv => dir \in Dirs
  BY DEF OutcomeIInv
<1>3. NamesIInv => NamesIfMissing
  BY NoneUsableFile DEF NamesIInv, NamesIfMissing
<1> QED BY <1>1, <1>2, <1>3, NamesStep, OutcomeInvariance, PTL DEF Spec

-----------------------------------------------------------------------------
(* Lists of elements. FoldLeft takes its result from a function on the     *)
(* sets of positions of the list; that there is such a function, and what  *)
(* holds of every state of a fold, is shown with a least counterexample.   *)

LEMMA NatMin ==
  ASSUME NEW T, T \subseteq Nat, T # {}
  PROVE  \E x \in T : \A y \in T : x <= y
<1> DEFINE R == OpToRel(<, Nat)
<1>1. IsWellFoundedOn(R, Nat)
  BY NatLessThanWellFounded
<1>2. \E x \in T : \A y \in T : ~(<<y, x>> \in R)
  <2> HIDE DEF R
  <2> QED BY <1>1, WFMin
<1>3. R = {ss \in Nat \X Nat : ss[1] < ss[2]}
  BY DEF OpToRel
<1> HIDE DEF R
<1>4. PICK x \in T : \A y \in T : ~(<<y, x>> \in R)
  BY <1>2
<1>5. \A y \in T : ~(y < x)
  BY <1>3, <1>4
<1> QED BY <1>5

LEMMA MaxIn ==
  ASSUME NEW n \in Nat, NEW S, S \subseteq 1..n, S # {}
  PROVE  Max(S) \in S
<1> DEFINE T == {n - x : x \in S}
<1>1. T \subseteq Nat /\ T # {}
  <2>1. \A x \in S : n - x \in Nat
    OBVIOUS
  <2> QED BY <2>1
<1>2. PICK y \in T : \A z \in T : y <= z
  BY <1>1, NatMin
<1>3. PICK x \in S : y = n - x
  OBVIOUS
<1>4. \A z \in S : x >= z
  <2> SUFFICES ASSUME NEW z \in S PROVE x >= z
    OBVIOUS
  <2>1. n - z \in T /\ n - x <= n - z
    BY <1>2, <1>3
  <2> QED BY <2>1
<1> QED BY <1>4 DEF Max

LEMMA MaxTop ==
  ASSUME NEW m \in Nat, NEW s, s \subseteq 1..m, m \in s
  PROVE  Max(s) = m
<1>1. \A y \in s : m >= y
  OBVIOUS
<1>2. \A x \in s : (\A y \in s : x >= y) => x = m
  OBVIOUS
<1> QED BY <1>1, <1>2 DEF Max

(* One element of a list, for both tables that are made of lists.          *)
Take(kind, acc, e) == IF kind = "carriers" THEN InsertUnits(acc, e) ELSE AddDef(acc, e)

(* The function on sets of positions that FoldLeft takes its result from.  *)
Iter(kind, base, items, m, g) ==
  [s \in SUBSET (1..m) |->
     IF s = {} THEN base ELSE Take(kind, g[s \ {Max(s)}], items[Max(s)])]

LEMMA IterExists ==
  ASSUME NEW kind, NEW base, NEW items, NEW n \in Nat
  PROVE  \E g : g = Iter(kind, base, items, n, g)
<1> DEFINE T == {m \in Nat : ~\E g : g = Iter(kind, base, items, m, g)}
<1> SUFFICES ASSUME T # {} PROVE FALSE
  OBVIOUS
<1>1. PICK m \in T : \A y \in T : m <= y
  BY NatMin
<1>2. m # 0
  <2> SUFFICES ASSUME m = 0 PROVE FALSE
    OBVIOUS
  <2> DEFINE g == [s \in {{}} |-> base]
  <2>1. SUBSET (1..0) = {{}}
    <3>1. 1..0 = {}
      OBVIOUS
    <3> QED BY <3>1
  <2>2. g = Iter(kind, base, items, 0, g)
    BY <2>1 DEF Iter
  <2> QED BY <2>2
<1>3. PICK g : g = Iter(kind, base, items, m - 1, g)
  BY <1>1, <1>2
<1> DEFINE h == Iter(kind, base, items, m, g)
<1>4. ASSUME NEW s \in SUBSET (1..m), s # {}
      PROVE  g[s \ {Max(s)}] = h[s \ {Max(s)}]
  <2> DEFINE t == s \ {Max(s)}
  <2>1. t \in SUBSET (1..m - 1) /\ t \in SUBSET (1..m)
    <3>1. m \notin t
      BY <1>1, MaxTop
    <3>2. \A x \in t : x \in 1..m /\ x # m
      BY <3>1
    <3>3. \A x \in t : x \in 1..m - 1
      BY <1>1, <3>2
    <3> QED BY <3>2, <3>3
  <2> HIDE DEF t
  <2>2. g[t] = IF t = {} THEN base ELSE Take(kind, g[t \ {Max(t)}], items[Max(t)])
    BY <1>3, <2>1 DEF Iter
  <2>3. h[t] = IF t = {} THEN base ELSE Take(kind, g[t \ {Max(t)}], items[Max(t)])
    BY <2>1 DEF Iter
  <2> QED BY <2>2, <2>3 DEF t
<1>5. h = Iter(kind, base, items, m, h)
  <2> HIDE DEF h
  <2>1. \A s \in SUBSET (1..m) :
          (IF s = {} THEN base ELSE Take(kind, g[s \ {Max(s)}], items[Max(s)]))
            = (IF s = {} THEN base ELSE Take(kind, h[s \ {Max(s)}], items[Max(s)]))
    BY <1>4
  <2> QED BY <2>1, Zenon DEF Iter, h
<1> QED BY <1>1, <1>5

(* The states that a fold runs through.                                    *)
Runs(a, kind, base, items) ==
  a[0] = base /\ \A k \in 1..Len(items) : a[k] = Take(kind, a[k - 1], items[k])

(* A fold has such states, and ends in the last one.                       *)
LEMMA FoldRuns ==
  ASSUME NEW base, NEW items, Len(items) \in Nat, DOMAIN items = 1..Len(items)
  PROVE  /\ \E a : /\ Runs(a, "ata", base, items)
                   /\ FoldLeft(AddDef, base, items) = a[Len(items)]
         /\ \E a : /\ Runs(a, "carriers", base, items)
                   /\ FoldLeft(InsertUnits, base, items) = a[Len(items)]
<1> DEFINE n == Len(items)
           g(kind) == CHOOSE f : f = Iter(kind, base, items, n, f)
           a(kind) == [k \in 0..n |-> g(kind)[1..k]]
<1>1. ASSUME NEW kind PROVE g(kind) = Iter(kind, base, items, n, g(kind))
  BY IterExists
<1>2. FoldLeft(AddDef, base, items) = g("ata")[1..n]
  BY Zenon DEF FoldLeft, MapThenFoldSet, Iter, Take
<1>3. FoldLeft(InsertUnits, base, items) = g("carriers")[1..n]
  BY Zenon DEF FoldLeft, MapThenFoldSet, Iter, Take
<1> HIDE DEF g
<1>4. ASSUME NEW kind PROVE a(kind)[0] = base
  <2>1. 1..0 = {}
    OBVIOUS
  <2>2. {} \in SUBSET (1..n)
    OBVIOUS
  <2>3. g(kind)[{}] = base
    BY <1>1, <2>2 DEF Iter
  <2>4. a(kind)[0] = g(kind)[1..0]
    OBVIOUS
  <2> QED BY <2>1, <2>3, <2>4
<1>5. ASSUME NEW kind, NEW k \in 1..n PROVE a(kind)[k] = Take(kind, a(kind)[k - 1], items[k])
  <2>1. (1..k) \subseteq 1..n /\ k \in 1..k /\ (1..k) # {}
    <3> n \in Nat
      OBVIOUS
    <3> HIDE DEF n
    <3>1. k \in 1..k /\ k <= n
      OBVIOUS
    <3>2. \A x \in 1..k : x \in 1..n
      BY <3>1
    <3> QED BY <3>1, <3>2
  <2>2. Max(1..k) = k
    BY <2>1, MaxTop
  <2>3. (1..k) \ {k} = 1..k - 1
    OBVIOUS
  <2>4. g(kind)[1..k] = Take(kind, g(kind)[(1..k) \ {Max(1..k)}], items[Max(1..k)])
    BY <1>1, <2>1 DEF Iter
  <2>5. a(kind)[k] = g(kind)[1..k] /\ a(kind)[k - 1] = g(kind)[1..k - 1]
    OBVIOUS
  <2> QED BY <2>2, <2>3, <2>4, <2>5
<1>6. ASSUME NEW kind PROVE a(kind)[n] = g(kind)[1..n]
  OBVIOUS
<1> HIDE DEF a
<1>7. ASSUME NEW kind PROVE Runs(a(kind), kind, base, items)
  BY <1>4, <1>5 DEF Runs
<1> QED BY <1>2, <1>3, <1>6, <1>7

(* One element of a definition file, as a record.                          *)
NameAfter(nm, e) == IF e.name = None THEN nm ELSE e.name
TableAfter(t, nm, e) ==
  IF e.id = 0 \/ NameAfter(nm, e) = "" THEN t
  ELSE [t EXCEPT ![e.id] = [name |-> NameAfter(nm, e), critical |-> e.critical = "yes"]]
Acc(t, nm, b) == [table |-> t, name |-> nm, noID |-> b]

LEMMA AccTable ==
  ASSUME NEW t, NEW nm, NEW b
  PROVE  Acc(t, nm, b).table = t
BY DEF Acc

LEMMA AddDefAfter ==
  ASSUME NEW t, NEW nm, NEW b, NEW e
  PROVE  AddDef(Acc(t, nm, b), e) =
           Acc(TableAfter(t, nm, e), IF e.id = 0 THEN nm ELSE NameAfter(nm, e),
               IF e.id = 0 THEN TRUE ELSE b)
<1>1. CASE e.id = 0
  BY <1>1 DEF AddDef, Acc, TableAfter
<1>2. CASE e.id # 0 /\ NameAfter(nm, e) = ""
  BY <1>2 DEF AddDef, Acc, TableAfter, NameAfter
<1>3. CASE e.id # 0 /\ NameAfter(nm, e) # ""
  BY <1>3 DEF AddDef, Acc, TableAfter, NameAfter
<1> QED BY <1>1, <1>2, <1>3

(* What the first k elements of a definition file say.                     *)
Says(items, k, i) == {j \in 1..k : items[j].id = i /\ items[j].name # ""}
DefsUpTo(items, k) ==
  [i \in IDs |->
     LET at == Says(items, k, i) IN
     IF at = {} THEN NoDef
     ELSE [name |-> items[Max(at)].name, critical |-> items[Max(at)].critical = "yes"]]

LEMMA OneMoreDef ==
  ASSUME NEW items, NEW k \in Nat \ {0}, NEW nm,
         items[k].id \in IDs \cup {0}, items[k].name # None
  PROVE  TableAfter(DefsUpTo(items, k - 1), nm, items[k]) = DefsUpTo(items, k)
<1> DEFINE e == items[k]
<1>0. 0 \notin IDs
  BY StartAssumption
<1>1. \A i \in IDs : ~(e.id = i /\ e.name # "") => Says(items, k, i) = Says(items, k - 1, i)
  <2>1. \A j : j \in 1..k <=> (j \in 1..k - 1 \/ j = k)
    OBVIOUS
  <2> QED BY <2>1 DEF Says
<1>2. CASE e.id = 0 \/ e.name = ""
  <2>1. \A i \in IDs : Says(items, k, i) = Says(items, k - 1, i)
    BY <1>0, <1>1, <1>2
  <2>2. TableAfter(DefsUpTo(items, k - 1), nm, e) = DefsUpTo(items, k - 1)
    BY <1>2 DEF TableAfter, NameAfter
  <2> QED BY <2>1, <2>2, Zenon DEF DefsUpTo
<1>3. CASE e.id # 0 /\ e.name # ""
  <2>1. TableAfter(DefsUpTo(items, k - 1), nm, e)
          = [DefsUpTo(items, k - 1) EXCEPT ![e.id] = [name |-> e.name, critical |-> e.critical = "yes"]]
    BY <1>3 DEF TableAfter, NameAfter
  <2>2. e.id \in IDs
    BY <1>3
  <2>3. Max(Says(items, k, e.id)) = k /\ Says(items, k, e.id) # {}
    <3>1. k \in Says(items, k, e.id) /\ Says(items, k, e.id) \subseteq 1..k
      <4>1. k \in 1..k
        OBVIOUS
      <4> QED BY <1>3, <4>1 DEF Says
    <3> QED BY <3>1, MaxTop
  <2>4. \A i \in IDs : i # e.id => Says(items, k, i) = Says(items, k - 1, i)
    BY <1>1
  <2>5. \A i \in IDs :
          DefsUpTo(items, k)[i] = IF i = e.id THEN [name |-> e.name, critical |-> e.critical = "yes"]
                                  ELSE DefsUpTo(items, k - 1)[i]
    <3> SUFFICES ASSUME NEW i \in IDs
                 PROVE  DefsUpTo(items, k)[i]
                          = IF i = e.id THEN [name |-> e.name, critical |-> e.critical = "yes"]
                            ELSE DefsUpTo(items, k - 1)[i]
      OBVIOUS
    <3>1. CASE i = e.id
      BY <2>3, <3>1 DEF DefsUpTo
    <3>2. CASE i # e.id
      <4>1. Says(items, k, i) = Says(items, k - 1, i)
        BY <2>4, <3>2
      <4>2. DefsUpTo(items, k)[i] = DefsUpTo(items, k - 1)[i]
        BY <4>1 DEF DefsUpTo
      <4> QED BY <3>2, <4>2
    <3> QED BY <3>1, <3>2
  <2>6. /\ DefsUpTo(items, k) = [i \in IDs |-> DefsUpTo(items, k)[i]]
        /\ DefsUpTo(items, k - 1) = [i \in IDs |-> DefsUpTo(items, k - 1)[i]]
    BY DEF DefsUpTo
  <2> DEFINE d == [name |-> e.name, critical |-> e.critical = "yes"]
             before == DefsUpTo(items, k - 1)
             after == DefsUpTo(items, k)
  <2>7. after = [before EXCEPT ![e.id] = d]
    <3> HIDE DEF d, before, after, e
    <3> QED BY <2>2, <2>5, <2>6 DEF d, before, after
  <2> QED BY <2>1, <2>7
<1> QED BY <1>2, <1>3

(* A table of all IDs.                                                     *)
IsTable(t) == DOMAIN t = IDs /\ t = [i \in IDs |-> t[i]]

(* A file of definitions gives a table of all IDs, with what the file says *)
(* if all its elements have a name.                                        *)
LEMMA DefsRead ==
  ASSUME NEW f, NEW kind \in {"ata", "nvme"}, IsFile(f, kind), NEW t, IsTable(t)
  PROVE  LET table == AddDefs(t, f.items).table IN
         /\ IsTable(table)
         /\ t = clearSMARTattrDefs /\ AllNamed(f) => table = DefsOf(f)
<1> DEFINE items == f.items
           n == Len(items)
           base == Acc(t, "", FALSE)
<1>1. /\ n \in Nat /\ DOMAIN items = 1..n
      /\ \A j \in 1..n : items[j].id \in IDs \cup {0}
  BY DEF IsFile
<1>2. PICK a : Runs(a, "ata", base, items) /\ FoldLeft(AddDef, base, items) = a[n]
  <2> HIDE DEF items, base
  <2> QED BY <1>1, FoldRuns
<1>3. AddDefs(t, items) = a[n]
  BY <1>2 DEF AddDefs, Acc
<1> DEFINE Good(k) == /\ \E nm, b : a[k] = Acc(a[k].table, nm, b)
                      /\ IsTable(a[k].table)
                      /\ t = clearSMARTattrDefs /\ AllNamed(f) => a[k].table = DefsUpTo(items, k)
           Bad == {k \in 0..n : ~Good(k)}
<1>4. Good(0)
  <2>1. a[0] = base
    BY <1>2 DEF Runs
  <2>2. \A i : Says(items, 0, i) = {}
    BY DEF Says
  <2>3. DefsUpTo(items, 0) = clearSMARTattrDefs
    BY <2>2, Zenon DEF DefsUpTo, clearSMARTattrDefs
  <2>4. a[0].table = t
    <3>1. base.table = t
      BY DEF Acc
    <3> HIDE DEF base
    <3> QED BY <2>1, <3>1
  <2> QED BY <2>1, <2>3, <2>4
<1>5. ASSUME NEW k \in 1..n, Good(k - 1) PROVE Good(k)
  <2> DEFINE tk == a[k - 1].table
             e == items[k]
  <2>0. PICK nk, bk : a[k - 1] = Acc(tk, nk, bk)
    BY <1>5
  <2>1. a[k] = AddDef(Acc(tk, nk, bk), e)
    BY <1>2, <2>0 DEF Runs, Take
  <2>2. a[k] = Acc(TableAfter(tk, nk, e), IF e.id = 0 THEN nk ELSE NameAfter(nk, e),
                   IF e.id = 0 THEN TRUE ELSE bk)
    <3> HIDE DEF tk, e
    <3>1. AddDef(Acc(tk, nk, bk), e) =
            Acc(TableAfter(tk, nk, e), IF e.id = 0 THEN nk ELSE NameAfter(nk, e),
                IF e.id = 0 THEN TRUE ELSE bk)
      BY AddDefAfter, Zenon
    <3> QED BY <2>1, <3>1, Zenon
  <2>3. a[k].table = TableAfter(tk, nk, e) /\ \E nm, b : a[k] = Acc(a[k].table, nm, b)
    <3>1. a[k].table = TableAfter(tk, nk, e)
      BY <2>2 DEF Acc
    <3> QED BY <2>2, <3>1
  <2>4. IsTable(tk)
    BY <1>5
  <2> HIDE DEF tk
  <2>5. IsTable(TableAfter(tk, nk, e))
    BY <2>4 DEF TableAfter, IsTable
  <2>6. ASSUME t = clearSMARTattrDefs, AllNamed(f)
        PROVE  TableAfter(tk, nk, e) = DefsUpTo(items, k)
    <3>1. tk = DefsUpTo(items, k - 1)
      BY <1>5, <2>6 DEF tk
    <3>2. items[k].id \in IDs \cup {0} /\ items[k].name # None
      BY <1>1, <2>6 DEF AllNamed
    <3>3. k \in Nat \ {0}
      BY <1>1
    <3> QED BY <3>1, <3>2, <3>3, OneMoreDef
  <2> QED BY <2>3, <2>5, <2>6
<1>6. Good(n)
  <2> HIDE DEF Good, n
  <2> SUFFICES ASSUME Bad # {} PROVE FALSE
    BY <1>1
  <2>1. PICK k \in Bad : \A y \in Bad : k <= y
    <3>1. Bad \subseteq Nat
      BY <1>1
    <3> QED BY <3>1, NatMin
  <2>2. k \in 1..n /\ k - 1 \in 0..n
    BY <1>1, <1>4, <2>1
  <2>3. Good(k - 1)
    BY <2>1, <2>2
  <2> QED BY <1>5, <2>1, <2>2, <2>3
<1>7. DefsUpTo(items, n) = DefsOf(f)
  BY Zenon DEF DefsUpTo, DefsOf, Says
<1> QED BY <1>3, <1>6, <1>7

LEMMA MinIs ==
  ASSUME NEW S, S \subseteq Nat, NEW x \in S, \A y \in S : x <= y
  PROVE  Min(S) = x
<1>1. \A z \in S : (\A y \in S : z <= y) => z = x
  OBVIOUS
<1> QED BY <1>1 DEF Min

(* The units that the first k elements of a file of data carriers give.    *)
Of(items, k, m) == {j \in 1..k : items[j].model = m}
Models(items, k) == {items[j].model : j \in 1..k} \ {None}
UnitsUpTo(items, k) == [m \in Models(items, k) |-> items[Min(Of(items, k, m))].unit]

LEMMA OneMoreUnit ==
  ASSUME NEW items, NEW k \in Nat \ {0}
  PROVE  InsertUnits(UnitsUpTo(items, k - 1), items[k]) = UnitsUpTo(items, k)
<1> DEFINE e == items[k]
           before == UnitsUpTo(items, k - 1)
<1>1. \A j : j \in 1..k <=> (j \in 1..k - 1 \/ j = k)
  OBVIOUS
<1>2. DOMAIN before = Models(items, k - 1)
  BY DEF UnitsUpTo
<1>3. Models(items, k) = Models(items, k - 1) \cup ({e.model} \ {None})
  BY <1>1 DEF Models
<1>4. ASSUME NEW m \in Models(items, k - 1)
      PROVE  Min(Of(items, k, m)) = Min(Of(items, k - 1, m))
  <2>1. Of(items, k - 1, m) \subseteq Nat /\ Of(items, k - 1, m) # {}
    BY DEF Models, Of
  <2>2. PICK x \in Of(items, k - 1, m) : \A y \in Of(items, k - 1, m) : x <= y
    BY <2>1, NatMin
  <2>3. x \in 1..k - 1 /\ x < k
    BY DEF Of
  <2>4. Of(items, k, m) \subseteq Nat /\ x \in Of(items, k, m)
    BY <1>1, <2>3 DEF Of
  <2>5. \A y \in Of(items, k, m) : x <= y
    BY <1>1, <2>2, <2>3 DEF Of
  <2> QED BY <2>1, <2>2, <2>4, <2>5, MinIs
<1>5. ASSUME e.model \notin Models(items, k - 1), e.model # None
      PROVE  Min(Of(items, k, e.model)) = k
  <2>1. Of(items, k, e.model) = {k}
    BY <1>1, <1>5 DEF Of, Models
  <2> QED BY <2>1, MinIs
<1>6. CASE e.model = None \/ e.model \in Models(items, k - 1)
  <2>1. InsertUnits(before, e) = before
    BY <1>2, <1>6 DEF InsertUnits
  <2>2. Models(items, k) = Models(items, k - 1)
    BY <1>3, <1>6
  <2> QED BY <1>4, <2>1, <2>2, Zenon DEF UnitsUpTo
<1>7. CASE e.model # None /\ e.model \notin Models(items, k - 1)
  <2> DEFINE new == Models(items, k - 1) \cup {e.model}
  <2>1. InsertUnits(before, e) = [m \in new |-> IF m = e.model THEN e.unit ELSE before[m]]
    BY <1>2, <1>7, Zenon DEF InsertUnits
  <2>2. Models(items, k) = new
    BY <1>3, <1>7
  <2>3. \A m \in new : (IF m = e.model THEN e.unit ELSE before[m]) = items[Min(Of(items, k, m))].unit
    <3> SUFFICES ASSUME NEW m \in new
                 PROVE  (IF m = e.model THEN e.unit ELSE before[m]) = items[Min(Of(items, k, m))].unit
      OBVIOUS
    <3>1. CASE m = e.model
      BY <1>5, <1>7, <3>1
    <3>2. CASE m # e.model
      <4>1. m \in Models(items, k - 1)
        BY <3>2
      <4>2. before[m] = items[Min(Of(items, k - 1, m))].unit
        BY <4>1 DEF UnitsUpTo
      <4> QED BY <1>4, <3>2, <4>1, <4>2
    <3> QED BY <3>1, <3>2
  <2> DEFINE g(m) == IF m = e.model THEN e.unit ELSE before[m]
             h(m) == items[Min(Of(items, k, m))].unit
  <2>4. InsertUnits(before, e) = [m \in new |-> h(m)]
    <3>1. \A m \in new : g(m) = h(m)
      BY <2>3
    <3>2. InsertUnits(before, e) = [m \in new |-> g(m)]
      BY <2>1
    <3> HIDE DEF new, before, g, h
    <3> QED BY <3>1, <3>2, Zenon
  <2>5. UnitsUpTo(items, k) = [m \in new |-> h(m)]
    <3> HIDE DEF new
    <3> QED BY <2>2, Zenon DEF UnitsUpTo
  <2> HIDE DEF new, h
  <2> QED BY <2>4, <2>5, Zenon
<1> QED BY <1>2, <1>6, <1>7

(* The table of units is what the file says, the first unit of a model.    *)
LEMMA UnitsRead ==
  ASSUME NEW f, IsFile(f, "carriers")
  PROVE  FoldLeft(InsertUnits, << >>, f.items) = UnitsOf(f)
<1> DEFINE items == f.items
           n == Len(items)
<1>1. n \in Nat /\ DOMAIN items = 1..n
  BY DEF IsFile
<1>2. PICK a : Runs(a, "carriers", << >>, items) /\ FoldLeft(InsertUnits, << >>, items) = a[n]
  <2> HIDE DEF items
  <2> QED BY <1>1, FoldRuns
<1> DEFINE Bad == {k \in 0..n : a[k] # UnitsUpTo(items, k)}
<1>3. a[0] = UnitsUpTo(items, 0)
  <2>1. Models(items, 0) = {}
    BY DEF Models
  <2>2. UnitsUpTo(items, 0) = << >>
    BY <2>1 DEF UnitsUpTo
  <2> QED BY <1>2, <2>2 DEF Runs
<1>4. ASSUME NEW k \in 1..n, a[k - 1] = UnitsUpTo(items, k - 1)
      PROVE  a[k] = UnitsUpTo(items, k)
  <2>1. a[k] = InsertUnits(a[k - 1], items[k])
    BY <1>2 DEF Runs, Take
  <2>2. k \in Nat \ {0}
    BY <1>1
  <2> QED BY <1>4, <2>1, <2>2, OneMoreUnit
<1>5. a[n] = UnitsUpTo(items, n)
  <2> HIDE DEF n, items
  <2> SUFFICES ASSUME Bad # {} PROVE FALSE
    BY <1>1
  <2>1. PICK k \in Bad : \A y \in Bad : k <= y
    <3>1. Bad \subseteq Nat
      BY <1>1
    <3> QED BY <3>1, NatMin
  <2>2. k \in 1..n /\ k - 1 \in 0..n
    BY <1>1, <1>3, <2>1
  <2>3. a[k - 1] = UnitsUpTo(items, k - 1)
    BY <2>1, <2>2
  <2> QED BY <1>4, <2>1, <2>2, <2>3
<1>6. UnitsUpTo(items, n) = UnitsOf(f)
  BY Zenon DEF UnitsUpTo, UnitsOf, Of, Models
<1> QED BY <1>2, <1>5, <1>6

-----------------------------------------------------------------------------
(* What the tables hold.                                                   *)

IsDefs(d) == \E x, y : IsTable(x) /\ IsTable(y) /\ d = [ata |-> x, nvme |-> y]

(* The second directory is tried for lack of a usable file in the first.   *)
TriedInv ==
  /\ start \in Starts /\ dir \in Dirs
  /\ pc \in {"args", "logger"} => dir = 1
  /\ pc \in {"ata", "nvme", "carriers"} /\ dir = 2 => ~Usable(pc, start.disk[1][pc])

(* A table holds what the first usable file of its kind says from the step *)
(* that read it on, and nothing before; the ATA definitions do until the   *)
(* NVMe file is read.                                                      *)
LoadedInv ==
  /\ IsDefs(defs)
  /\ pc = "nvme" /\ AllNamed(FirstFile("ata")) => defs.ata = DefsOf(FirstFile("ata"))
  /\ pc \in {"args", "logger", "ata", "nvme"} => defs.nvme = clearSMARTattrDefs
  /\ pc \in {"carriers", "cnnctn", "access", "bind", "serving"} /\ AllNamed(FirstFile("nvme")) =>
       defs.nvme = DefsOf(FirstFile("nvme"))
  /\ pc \in {"args", "logger", "ata", "nvme", "carriers"} => units = << >>
  /\ pc \in {"cnnctn", "access", "bind", "serving"} => units = UnitsOf(FirstFile("carriers"))

TablesIInv == TriedInv /\ LoadedInv

LEMMA DefsFields ==
  ASSUME NEW d, IsDefs(d)
  PROVE  IsTable(d.ata) /\ IsTable(d.nvme)
BY DEF IsDefs

LEMMA ClearIsTable == IsTable(clearSMARTattrDefs)
BY DEF IsTable, clearSMARTattrDefs

(* readSMARTattrDefs with either file.                                     *)
LEMMA DefsReading ==
  ASSUME readSMARTattrDefs, IsDefs(defs)
  PROVE  LET f == start.disk[dir][pc] IN
         /\ pc \in {"ata", "nvme"} /\ UNCHANGED <<start, units>>
         /\ Moves(HasElements(f))
         /\ ~HasElements(f) => defs' = defs
         /\ HasElements(f) /\ pc = "ata" =>
              /\ defs'.ata = AddDefs(clearSMARTattrDefs, f.items).table
              /\ defs'.nvme = defs.nvme
              /\ defs' = [ata |-> defs'.ata, nvme |-> defs'.nvme]
         /\ HasElements(f) /\ pc = "nvme" =>
              /\ defs'.ata = clearSMARTattrDefs
              /\ defs'.nvme = AddDefs(defs.nvme, f.items).table
              /\ defs' = [ata |-> defs'.ata, nvme |-> defs'.nvme]
<1> DEFINE f == start.disk[dir][pc]
           read == f.root /\ f.items # << >>
           cleared == [defs EXCEPT !.ata = clearSMARTattrDefs]
           table == AddDefs(cleared[pc], f.items).table
<1>1. pc \in {"ata", "nvme"} /\ pc \in Kinds /\ UNCHANGED <<start, units>>
  BY DEF readSMARTattrDefs, Kinds
<1>2. /\ defs' = IF read THEN [cleared EXCEPT ![pc] = table] ELSE defs
      /\ \E shown : tryCfgFilePaths(read, TRUE, shown)
  BY Zenon DEF readSMARTattrDefs, ConstructConfigFilePath
<1>3. read <=> HasElements(f)
  BY DEF HasElements
<1>4. Moves(HasElements(f))
  <2>1. Moves(read)
    <3> HIDE DEF read
    <3> QED BY <1>1, <1>2, FileMoves
  <2> HIDE DEF f, read
  <2> QED BY <1>3, <2>1 DEF Moves
<1>5. PICK x, y : defs = [ata |-> x, nvme |-> y]
  BY DEF IsDefs
<1>6. cleared = [ata |-> clearSMARTattrDefs, nvme |-> y]
  BY <1>5
<1>7. ASSUME HasElements(f), pc = "ata"
      PROVE  defs' = [ata |-> AddDefs(clearSMARTattrDefs, f.items).table, nvme |-> y]
  <2>1. cleared[pc] = clearSMARTattrDefs
    BY <1>6, <1>7
  <2>2. defs' = [cleared EXCEPT ![pc] = AddDefs(clearSMARTattrDefs, f.items).table]
    BY <1>2, <1>3, <1>7, <2>1
  <2> HIDE DEF cleared, f
  <2> QED BY <1>6, <1>7, <2>2
<1>8. ASSUME HasElements(f), pc = "nvme"
      PROVE  defs' = [ata |-> clearSMARTattrDefs, nvme |-> AddDefs(y, f.items).table]
  <2>1. cleared[pc] = y
    BY <1>6, <1>8
  <2>2. defs' = [cleared EXCEPT ![pc] = AddDefs(y, f.items).table]
    BY <1>2, <1>3, <1>8, <2>1
  <2> HIDE DEF cleared, f
  <2> QED BY <1>6, <1>8, <2>2
<1>9. ~HasElements(f) => defs' = defs
  <2> HIDE DEF f, read, cleared, table
  <2> QED BY <1>2, <1>3
<1>10. defs.nvme = y
  BY <1>5
<1> HIDE DEF f, read, cleared, table
<1>11. ASSUME NEW u, NEW v, defs' = [ata |-> u, nvme |-> v]
       PROVE  defs'.ata = u /\ defs'.nvme = v
  BY <1>11
<1>12. ASSUME HasElements(f), pc = "ata"
       PROVE  /\ defs'.ata = AddDefs(clearSMARTattrDefs, f.items).table
              /\ defs'.nvme = y
              /\ defs' = [ata |-> defs'.ata, nvme |-> defs'.nvme]
  BY <1>7, <1>11, <1>12
<1>13. ASSUME HasElements(f), pc = "nvme"
       PROVE  /\ defs'.ata = clearSMARTattrDefs
              /\ defs'.nvme = AddDefs(y, f.items).table
              /\ defs' = [ata |-> defs'.ata, nvme |-> defs'.nvme]
  BY <1>8, <1>11, <1>13
<1> QED BY <1>1, <1>4, <1>9, <1>10, <1>12, <1>13 DEF f

LEMMA SameFiles ==
  ASSUME start' = start
  PROVE  \A k : FirstFile(k)' = FirstFile(k)
BY DEF FirstFile

(* The file that tryCfgFilePaths is at is the first usable one if it is    *)
(* usable at all.                                                          *)
LEMMA CurrentIsFirst ==
  ASSUME TriedInv, pc \in {"ata", "nvme", "carriers"}, Usable(pc, start.disk[dir][pc])
  PROVE  FirstFile(pc) = start.disk[dir][pc]
<1>1. CASE dir = 1
  BY <1>1, FirstUsable
<1>2. CASE dir = 2
  BY <1>2, FirstUsable DEF TriedInv
<1> QED BY <1>1, <1>2 DEF TriedInv, Dirs

LEMMA FilesOnDisk ==
  ASSUME TriedInv, NEW k \in Kinds
  PROVE  IsFile(start.disk[dir][k], k)
BY StartAssumption DEF TriedInv

LEMMA DefsStep ==
  ASSUME TablesIInv, readSMARTattrDefs
  PROVE  TablesIInv'
<1> DEFINE f == start.disk[dir][pc]
<1>1. /\ pc \in {"ata", "nvme"} /\ UNCHANGED <<start, units>> /\ Moves(HasElements(f))
      /\ IsDefs(defs) /\ TriedInv /\ pc \in Kinds /\ units = << >>
      /\ defs.nvme = clearSMARTattrDefs
  BY DefsReading DEF TablesIInv, LoadedInv, Kinds
<1>2. IsFile(f, pc) /\ (Usable(pc, f) <=> HasElements(f))
  BY <1>1, FilesOnDisk DEF Usable
<1>3. TriedInv'
  <2>1. pc' \in {"ata", "nvme", "carriers"} /\ dir' = 2 => pc' = pc /\ dir = 1 /\ ~Usable(pc, f)
    BY <1>1, <1>2 DEF Moves
  <2>2. dir' \in Dirs /\ pc' \notin {"args", "logger"}
    BY <1>1 DEF Moves, Dirs
  <2> QED BY <1>1, <2>1, <2>2 DEF TriedInv
<1>4. \A k : FirstFile(k)' = FirstFile(k)
  BY <1>1, SameFiles
<1>5. CASE ~HasElements(f)
  <2>1. defs' = defs /\ (pc' = pc \/ pc' \in {"ended", "window"})
    BY <1>5, DefsReading, <1>1 DEF Moves
  <2>2. LoadedInv'
    BY <1>1, <1>4, <2>1 DEF TablesIInv, LoadedInv
  <2> QED BY <1>3, <2>2 DEF TablesIInv
<1>6. CASE HasElements(f) /\ pc = "ata"
  <2> DEFINE t == AddDefs(clearSMARTattrDefs, f.items).table
  <2>1. /\ defs'.ata = t /\ defs'.nvme = defs.nvme
        /\ defs' = [ata |-> defs'.ata, nvme |-> defs'.nvme]
    BY <1>1, <1>6, DefsReading
  <2>2. IsTable(t) /\ (AllNamed(f) => t = DefsOf(f))
    BY <1>1, <1>2, ClearIsTable, DefsRead
  <2>3. pc' = "nvme" /\ FirstFile("ata") = f
    BY <1>1, <1>2, <1>6, CurrentIsFirst DEF Moves
  <2> HIDE DEF t, f
  <2>4. IsDefs(defs')
    BY <1>1, <2>1, <2>2, ClearIsTable DEF IsDefs
  <2>5. LoadedInv'
    BY <1>1, <1>4, <2>1, <2>2, <2>3, <2>4 DEF LoadedInv
  <2> QED BY <1>3, <2>5 DEF TablesIInv
<1>7. CASE HasElements(f) /\ pc = "nvme"
  <2> DEFINE t == AddDefs(clearSMARTattrDefs, f.items).table
  <2>1. /\ defs'.ata = clearSMARTattrDefs /\ defs'.nvme = t
        /\ defs' = [ata |-> defs'.ata, nvme |-> defs'.nvme]
    BY <1>1, <1>7, DefsReading
  <2>2. IsTable(t) /\ (AllNamed(f) => t = DefsOf(f))
    BY <1>1, <1>2, ClearIsTable, DefsRead
  <2>3. pc' = "carriers" /\ FirstFile("nvme") = f
    BY <1>1, <1>2, <1>7, CurrentIsFirst DEF Moves
  <2> HIDE DEF t, f
  <2>4. IsDefs(defs')
    BY <1>1, <2>1, <2>2, ClearIsTable DEF IsDefs
  <2>5. LoadedInv'
    BY <1>1, <1>4, <2>1, <2>2, <2>3, <2>4 DEF LoadedInv
  <2> QED BY <1>3, <2>5 DEF TablesIInv
<1> QED BY <1>1, <1>5, <1>6, <1>7

LEMMA CarriersStep ==
  ASSUME TablesIInv, ReadSMARTdataCarrierDefs
  PROVE  TablesIInv'
<1> DEFINE f == start.disk[dir]["carriers"]
<1>1. /\ pc = "carriers" /\ UNCHANGED <<start, defs>> /\ TriedInv /\ units = << >> /\ pc \in Kinds
      /\ IsDefs(defs)
  BY DEF ReadSMARTdataCarrierDefs, TablesIInv, LoadedInv, Kinds
<1>2. units' = FoldLeft(InsertUnits, << >>, f.items) /\ tryCfgFilePaths(f.root, TRUE, msg)
  BY <1>1 DEF ReadSMARTdataCarrierDefs, ConstructConfigFilePath
<1>3. IsFile(f, "carriers") /\ (Usable("carriers", f) <=> f.root)
  BY <1>1, FilesOnDisk DEF Usable
<1>4. units' = UnitsOf(f)
  BY <1>2, <1>3, UnitsRead
<1>5. Moves(f.root)
  BY <1>1, <1>2, FileMoves
<1>6. \A k : FirstFile(k)' = FirstFile(k)
  BY <1>1, SameFiles
<1>7. TriedInv'
  <2>1. pc' \in {"ata", "nvme", "carriers"} /\ dir' = 2 =>
          pc' = "carriers" /\ dir = 1 /\ ~Usable("carriers", f)
    BY <1>1, <1>3, <1>5 DEF Moves
  <2>2. dir' \in Dirs /\ pc' \notin {"args", "logger"}
    BY <1>1, <1>5 DEF Moves, Dirs
  <2> QED BY <1>1, <2>1, <2>2 DEF TriedInv
<1>8. CASE f.root
  <2>1. pc' = "cnnctn" /\ FirstFile("carriers") = f
    BY <1>1, <1>3, <1>5, <1>8, CurrentIsFirst DEF Moves
  <2>2. LoadedInv'
    BY <1>1, <1>4, <1>6, <2>1 DEF TablesIInv, LoadedInv
  <2> QED BY <1>7, <2>2 DEF TablesIInv
<1>9. CASE ~f.root
  <2>1. f.items = << >>
    BY <1>3, <1>9 DEF IsFile
  <2>2. UnitsOf(f) = << >>
    <3>1. Len(f.items) = 0
      BY <2>1
    <3>2. \A j : j \notin 1..Len(f.items)
      BY <3>1
    <3> QED BY <3>2 DEF UnitsOf
  <2>3. pc' = "carriers" \/ pc' \in {"ended", "window"}
    BY <1>1, <1>5, <1>9 DEF Moves
  <2>4. LoadedInv'
    BY <1>1, <1>4, <1>6, <2>2, <2>3 DEF TablesIInv, LoadedInv
  <2> QED BY <1>7, <2>4 DEF TablesIInv
<1> QED BY <1>8, <1>9

(* The other steps leave the tables alone.                                 *)
LEMMA OtherStep ==
  ASSUME TablesIInv, UNCHANGED <<start, defs, units>>, dir' \in Dirs,
         \/ pc' = pc /\ dir' = dir
         \/ pc \in {"args", "logger"} /\ pc' \in {"args", "logger", "ata"} /\ dir' = dir
         \/ pc \in {"cnnctn", "access", "bind"} /\ pc' \in {"cnnctn", "access", "bind", "serving"}
         \/ pc' \in {"option", "decide", "window", "ended", "crashed"}
  PROVE  TablesIInv'
<1>1. \A k : FirstFile(k)' = FirstFile(k)
  BY SameFiles
<1>2. TriedInv'
  BY DEF TablesIInv, TriedInv
<1>3. LoadedInv'
  BY <1>1 DEF TablesIInv, LoadedInv
<1> QED BY <1>2, <1>3 DEF TablesIInv

LEMMA TablesStep == TablesIInv /\ [Next]_vars => TablesIInv'
<1> SUFFICES ASSUME TablesIInv, [Next]_vars PROVE TablesIInv'
  OBVIOUS
<1>0. dir \in Dirs
  BY DEF TablesIInv, TriedInv
<1>1. CASE ProcessArg \/ ProcessLastArg \/ EndOfArgs \/ InitializeLogger
  <2>1. /\ pc \in {"args", "logger"} /\ pc' \in {"args", "logger", "ata", "ended", "crashed"}
        /\ UNCHANGED <<start, defs, units, dir>>
    BY <1>1 DEF ProcessArg, ProcessLastArg, EndOfArgs, InitializeLogger, config
  <2> QED BY <1>0, <2>1, OtherStep
<1>2. CASE ReadConnectionFile
  <2>1. pc = "cnnctn" /\ pc \in Kinds /\ UNCHANGED <<start, defs, units>>
    BY <1>2 DEF ReadConnectionFile, Kinds
  <2>2. \E read : Moves(read)
    BY <1>2, <2>1, FileMoves DEF ReadConnectionFile
  <2>3. dir' \in Dirs /\ pc' \in {"cnnctn", "access", "ended", "window"}
    BY <2>1, <2>2 DEF Moves, Dirs
  <2> QED BY <2>1, <2>3, OtherStep
<1>3. CASE FirstAccess \/ BindAndListenToSocket
  <2>1. /\ pc \in {"access", "bind"} /\ pc' \in {"bind", "option", "serving", "ended"}
        /\ UNCHANGED <<start, defs, units, dir>>
    BY <1>3 DEF FirstAccess, BindAndListenToSocket, config
  <2> QED BY <1>0, <2>1, OtherStep
<1>4. CASE ReadServiceConnectionSettings \/ ConnectOrRead
  <2>1. pc' \in {"decide", "crashed", "window"} /\ UNCHANGED <<start, defs, units, dir>>
    BY <1>4 DEF ReadServiceConnectionSettings, ConnectOrRead, config
  <2> QED BY <1>0, <2>1, OtherStep
<1>5. CASE UNCHANGED vars \/ Started
  <2>1. UNCHANGED <<start, defs, units, dir, pc>>
    BY <1>5 DEF vars, Started
  <2> QED BY <1>0, <2>1, OtherStep
<1> QED BY <1>1, <1>2, <1>3, <1>4, <1>5, DefsStep, CarriersStep DEF Next

LEMMA TablesInit == Init => TablesIInv
<1> SUFFICES ASSUME Init PROVE TablesIInv
  OBVIOUS
<1>1. pc = "args" /\ dir = 1 /\ start \in Starts /\ units = << >>
  BY DEF Init
<1>2. PICK flag \in BOOLEAN :
        defs = [ata |-> setDfltSMARTattrDef(flag), nvme |-> clearSMARTattrDefs]
  BY DEF Init
<1>3. IsTable(setDfltSMARTattrDef(flag))
  BY DEF IsTable, setDfltSMARTattrDef
<1>4. IsDefs(defs)
  BY <1>2, <1>3, ClearIsTable DEF IsDefs
<1>5. defs.nvme = clearSMARTattrDefs
  BY <1>2
<1> QED BY <1>1, <1>4, <1>5 DEF TablesIInv, TriedInv, LoadedInv, Dirs

LEMMA TablesInvariance == Spec => []TablesIInv
BY TablesInit, TablesStep, PTL DEF Spec

(* The tables hold what the first usable file says, the last definition of *)
(* an ID and the first unit of a model, and nothing of the other           *)
(* directory's file (readSMARTattrDefs, ReadSMARTdataCarrierDefs).         *)
THEOREM TablesAsWritten == Spec => []LoadedAsWritten
<1>1. TablesIInv => LoadedAsWritten
  BY FirstOfKind DEF TablesIInv, LoadedInv, LoadedAsWritten
<1> QED BY <1>1, TablesInvariance, PTL

-----------------------------------------------------------------------------
(* The command line.                                                       *)

Text == STRING \cup {"", "stray"}
Opts == [value : Text, unknown : BOOLEAN, usage : BOOLEAN, help : BOOLEAN,
         connFile : Text, folder : Text, level : LogLevels \cup {"unset"}]

(* Handle, field by field.                                                 *)
Handled(o, q, name, value) ==
  /\ q.connFile = IF name = "svcConnConfFile" /\ value # "" THEN value ELSE o.connFile
  /\ q.folder = IF name = "logfilefolder" /\ value # "" THEN value ELSE o.folder
  /\ q.level = IF name = "loglevel" /\ value \in LogLevels THEN value ELSE o.level
  /\ q.unknown = IF name # "--help" /\ value = "" THEN TRUE ELSE o.unknown
  /\ q.help = IF name = "--help" THEN TRUE ELSE o.help
  /\ o.usage \/ name = "--help" => q.usage

LEMMA HandleFields ==
  ASSUME opt \in Opts, NEW name \in STRING, NEW value \in Text
  PROVE  Handle(name, value) \in Opts /\ Handled(opt, Handle(name, value), name, value)
<1> DEFINE o == [opt EXCEPT !.value = value]
           h == Handle(name, value)
<1>0. "" \notin LogLevels
  BY StartAssumption
<1>1. CASE name = "--help"
  <2>1. h = [o EXCEPT !.usage = TRUE, !.help = TRUE]
    BY <1>1 DEF Handle
  <2> QED BY <1>1, <2>1 DEF Opts, Handled
<1>2. CASE name # "--help" /\ value = ""
  <2>1. h = [o EXCEPT !.unknown = TRUE]
    BY <1>2 DEF Handle
  <2> QED BY <1>0, <1>2, <2>1 DEF Opts, Handled
<1>3. CASE value # "" /\ name = "svcConnConfFile"
  <2>1. h = [o EXCEPT !.connFile = value]
    BY <1>3 DEF Handle
  <2> QED BY <1>3, <2>1 DEF Opts, Handled
<1>4. CASE value # "" /\ name = "logfilefolder"
  <2>1. h = [o EXCEPT !.folder = value]
    BY <1>4 DEF Handle
  <2> QED BY <1>4, <2>1 DEF Opts, Handled
<1>5. CASE value # "" /\ name = "loglevel" /\ value \in LogLevels
  <2>1. h = [o EXCEPT !.level = value]
    BY <1>5 DEF Handle
  <2> QED BY <1>5, <2>1 DEF Opts, Handled
<1>6. CASE value # "" /\ name = "loglevel" /\ value \notin LogLevels
  <2>1. h = [o EXCEPT !.usage = TRUE]
    BY <1>6 DEF Handle
  <2> QED BY <1>6, <2>1 DEF Opts, Handled
<1>7. CASE value # "" /\ name \notin Known \cup {"--help"}
  <2>1. h = o
    BY <1>7 DEF Handle, Known
  <2> QED BY <1>7, <2>1 DEF Opts, Handled, Known
<1> QED BY <1>1, <1>2, <1>3, <1>4, <1>5, <1>6, <1>7 DEF Known

(* The options among the first n - 1 arguments, and the last of them.      *)
ValueAt(args, j) == IF args[j].eq THEN args[j].value ELSE args[j + 1].whole
At(args, n, name) == {j \in 1..Len(args) : j < n /\ args[j].name = name}
LevelsAt(args, n) == {j \in At(args, n, "loglevel") : ValueAt(args, j) \in LogLevels}
LastOf(args, S, dflt) == IF S = {} THEN dflt ELSE ValueAt(args, Max(S))

ParsedUpTo(args, n, o) ==
  /\ o.connFile = LastOf(args, At(args, n, "svcConnConfFile"), "")
  /\ o.folder = LastOf(args, At(args, n, "logfilefolder"), "")
  /\ o.level = LastOf(args, LevelsAt(args, n), "unset")
  /\ o.unknown = FALSE
  /\ o.help <=> At(args, n, "--help") # {}
  /\ o.help => o.usage

LEMMA LastAdded ==
  ASSUME NEW args, Len(args) \in Nat, NEW n \in 1..Len(args), NEW S, NEW dflt,
         \A j \in S : j \in 1..Len(args) /\ j < n
  PROVE  LastOf(args, S \cup {n}, dflt) = ValueAt(args, n)
<1>1. n \in Nat /\ S \cup {n} \subseteq 1..n /\ n \in S \cup {n}
  OBVIOUS
<1>2. Max(S \cup {n}) = n
  BY <1>1, MaxTop
<1> QED BY <1>2 DEF LastOf

(* The walk along a command line that follows the usage stops at options   *)
(* only, never at the value of one.                                        *)
LEMMA WalkCases ==
  ASSUME NEW args \in Seq(Arguments), WellFormed(args), NEW n \in 1..Len(args),
         n = 1 \/ ~IsOption(args[n - 1])
  PROVE  /\ args[n] \in Arguments
         /\ \/ ~args[n].eq /\ args[n].name = "--help"
            \/ args[n].eq /\ args[n].name \in Known /\ args[n].value # ""
            \/ /\ IsOption(args[n]) /\ n < Len(args) /\ IsValue(args[n + 1])
               /\ args[n + 1] \in Arguments
<1>1. args[n] \in Arguments /\ (n < Len(args) => args[n + 1] \in Arguments)
  OBVIOUS
<1>2. \/ args[n].whole = "--help"
      \/ args[n].eq /\ args[n].name \in Known /\ args[n].value # ""
      \/ IsOption(args[n]) /\ n < Len(args) /\ IsValue(args[n + 1])
  <2>1. \/ args[n].whole = "--help"
        \/ args[n].eq /\ args[n].name \in Known /\ args[n].value # ""
        \/ IsOption(args[n]) /\ n < Len(args) /\ IsValue(args[n + 1])
        \/ IsValue(args[n]) /\ n > 1 /\ IsOption(args[n - 1])
    BY Zenon DEF WellFormed
  <2>2. n > 1 => n # 1
    OBVIOUS
  <2> QED BY <2>1, <2>2
<1>3. args[n].whole = "--help" => ~args[n].eq /\ args[n].name = "--help"
  BY <1>1 DEF Arguments
<1> QED BY <1>1, <1>2, <1>3

(* What one pass of the loop makes of that.                                *)
LEMMA ParsedStep ==
  ASSUME NEW args \in Seq(Arguments), WellFormed(args), NEW n \in 1..Len(args),
         n = 1 \/ ~IsOption(args[n - 1]),
         NEW o \in Opts, NEW q \in Opts, NEW name, NEW value, NEW m \in Int,
         ParsedUpTo(args, n, o), Handled(o, q, name, value), name = args[n].name,
         \/ args[n].eq /\ value = args[n].value /\ m = n + 1
         \/ ~args[n].eq /\ name = "--help" /\ m = n + 1
         \/ ~args[n].eq /\ name \in Known /\ value = args[n + 1].whole /\ m = n + 2
  PROVE  /\ ParsedUpTo(args, m, q)
         /\ m \in 2..Len(args) + 1
         /\ ~IsOption(args[m - 1])
<1>1. Len(args) \in Nat
  OBVIOUS
<1>2. /\ args[n] \in Arguments
      /\ \/ ~args[n].eq /\ name = "--help" /\ m = n + 1
         \/ args[n].eq /\ name \in Known /\ value # "" /\ value = args[n].value /\ m = n + 1
         \/ /\ IsOption(args[n]) /\ n < Len(args) /\ IsValue(args[n + 1])
            /\ args[n + 1] \in Arguments
            /\ value = args[n + 1].whole /\ m = n + 2
  BY WalkCases DEF IsOption, Known
<1>3. m \in {n + 1, n + 2} /\ m \in 2..Len(args) + 1
  <2>1. n \in Int /\ 1 <= n /\ n <= Len(args)
    BY <1>1
  <2>2. m = n + 1 \/ (m = n + 2 /\ n < Len(args))
    BY <1>2
  <2> QED BY <1>1, <2>1, <2>2
<1>4. ASSUME m = n + 2
      PROVE  /\ IsOption(args[n]) /\ IsValue(args[n + 1]) /\ args[n + 1] \in Arguments
             /\ value = args[n + 1].whole /\ m - 1 = n + 1
             /\ args[n + 1].name \notin Known \cup {"--help", ""}
             /\ args[n + 1].name = args[n + 1].whole /\ ~args[n + 1].eq
  <2>1. m # n + 1 /\ m - 1 = n + 1
    BY <1>1, <1>4
  <2>2. /\ IsOption(args[n]) /\ IsValue(args[n + 1]) /\ args[n + 1] \in Arguments
        /\ value = args[n + 1].whole
    BY <1>2, <2>1
  <2>3. args[n + 1].name \notin Known \cup {"--help", ""} /\ ~args[n + 1].eq
    BY <2>2 DEF IsValue
  <2>4. args[n + 1].name = args[n + 1].whole
    BY <2>2, <2>3 DEF Arguments
  <2> QED BY <2>1, <2>2, <2>3, <2>4
<1>5. ASSUME m = n + 1
      PROVE  /\ m - 1 = n
             /\ \/ ~args[n].eq /\ name = "--help"
                \/ args[n].eq /\ value # "" /\ value = args[n].value
  <2>1. m # n + 2 /\ m - 1 = n
    BY <1>1, <1>5
  <2> QED BY <1>2, <2>1
<1>6. ~IsOption(args[m - 1])
  <2>1. CASE m = n + 1
    BY <1>5, <2>1 DEF IsOption, Known
  <2>2. CASE m = n + 2
    BY <1>4, <2>2 DEF IsOption
  <2> QED BY <1>3, <2>1, <2>2
<1>7. ASSUME NEW x \in Known \cup {"--help"}
      PROVE  At(args, m, x) = At(args, n, x) \cup (IF name = x THEN {n} ELSE {})
  <2>1. m = n + 2 => args[n + 1].name # x
    BY <1>4
  <2>2. At(args, m, x) = At(args, n, x) \cup (IF args[n].name = x THEN {n} ELSE {})
    <3>1. \A j \in 1..Len(args) : j < m <=> j < n \/ j = n \/ (m = n + 2 /\ j = n + 1)
      BY <1>1, <1>3
    <3> QED BY <2>1, <3>1 DEF At
  <2> QED BY <2>2
<1>8. name # "--help" => value # "" /\ value = ValueAt(args, n)
  <2>1. CASE m = n + 2
    BY <1>4, <2>1 DEF ValueAt, IsOption
  <2>2. CASE m = n + 1
    BY <1>5, <2>2 DEF ValueAt
  <2> QED BY <1>3, <2>1, <2>2
<1>9. ASSUME NEW x \in Known, NEW dflt
      PROVE  LastOf(args, At(args, m, x), dflt) =
               IF name = x THEN value ELSE LastOf(args, At(args, n, x), dflt)
  <2>1. CASE name = x
    <3>1. At(args, m, x) = At(args, n, x) \cup {n}
      BY <1>7, <2>1
    <3>2. \A j \in At(args, n, x) : j \in 1..Len(args) /\ j < n
      BY DEF At
    <3>3. name # "--help"
      BY <2>1 DEF Known
    <3>4. LastOf(args, At(args, n, x) \cup {n}, dflt) = ValueAt(args, n)
      BY <1>1, <3>2, LastAdded
    <3> QED BY <1>8, <2>1, <3>1, <3>3, <3>4
  <2>2. CASE name # x
    BY <1>7, <2>2
  <2> QED BY <2>1, <2>2
<1>10. LastOf(args, LevelsAt(args, m), "unset") =
        IF name = "loglevel" /\ value \in LogLevels THEN value
        ELSE LastOf(args, LevelsAt(args, n), "unset")
  <2>1. CASE name = "loglevel" /\ value \in LogLevels
    <3>1. LevelsAt(args, m) = LevelsAt(args, n) \cup {n}
      BY <1>7, <1>8, <2>1 DEF LevelsAt, Known
    <3>2. \A j \in LevelsAt(args, n) : j \in 1..Len(args) /\ j < n
      BY DEF LevelsAt, At
    <3> QED BY <1>1, <1>8, <2>1, <3>1, <3>2, LastAdded
  <2>2. CASE ~(name = "loglevel" /\ value \in LogLevels)
    <3>1. LevelsAt(args, m) = LevelsAt(args, n)
      BY <1>7, <1>8, <2>2 DEF LevelsAt, Known
    <3> QED BY <2>2, <3>1
  <2> QED BY <2>1, <2>2
<1>11. ParsedUpTo(args, m, q)
  <2>1. q.connFile = LastOf(args, At(args, m, "svcConnConfFile"), "")
    BY <1>8, <1>9 DEF ParsedUpTo, Handled, Known
  <2>2. q.folder = LastOf(args, At(args, m, "logfilefolder"), "")
    BY <1>8, <1>9 DEF ParsedUpTo, Handled, Known
  <2>3. q.level = LastOf(args, LevelsAt(args, m), "unset")
    BY <1>10 DEF ParsedUpTo, Handled
  <2>4. q.unknown = FALSE
    BY <1>8 DEF ParsedUpTo, Handled
  <2>5. At(args, m, "--help") # {} <=> At(args, n, "--help") # {} \/ name = "--help"
    BY <1>7
  <2>6. (q.help <=> At(args, m, "--help") # {}) /\ (q.help => q.usage)
    BY <2>5 DEF ParsedUpTo, Handled
  <2> QED BY <2>1, <2>2, <2>3, <2>4, <2>6 DEF ParsedUpTo
<1> QED BY <1>3, <1>6, <1>11

IsConn(c) ==
  \E port, host, ids : port \in Nat \ {0} /\ c = [port |-> port, host |-> host, ids |-> ids]

ScalarInv ==
  /\ pc \in {"args", "logger", "access", "bind", "option", "decide"} \cup Kinds \cup Final
  /\ msg \in Messages /\ result \in Results
  /\ arg \in 1..Len(start.args) + 2
  /\ opt \in Opts /\ IsConn(conn)
  /\ err \in BOOLEAN /\ posted \in BOOLEAN /\ thread \in BOOLEAN

(* What the command line was found to say, when it has been walked along.  *)
All(args) == Len(args) + 1
Parsed(args, o, p, m) ==
  /\ o.connFile = LastOf(args, At(args, All(args), "svcConnConfFile"), "")
  /\ o.folder = LastOf(args, At(args, All(args), "logfilefolder"), "")
  /\ p \notin {"logger", "ended"} =>
       o.level = LastOf(args, LevelsAt(args, All(args)), "warning")
  /\ o.unknown = FALSE
  /\ At(args, All(args), "--help") # {} <=> o.help
  /\ o.help => p = "ended" /\ m = "usage"

(* Up to there the walk is at an option, and the log level is not replaced *)
(* before the log file is opened.                                          *)
WalkInv ==
  WellFormed(start.args) =>
    /\ pc = "args" => /\ arg <= All(start.args) /\ (arg = 1 \/ ~IsOption(start.args[arg - 1]))
                      /\ ParsedUpTo(start.args, arg, opt)
    /\ pc = "logger" => opt.level = LastOf(start.args, LevelsAt(start.args, All(start.args)), "unset")
    /\ pc # "args" => Parsed(start.args, opt, pc, msg)

LEMMA ParsedIsGiven ==
  ASSUME start.args \in Seq(Arguments), WellFormed(start.args) /\ pc # "args" => Parsed(start.args, opt, pc, msg)
  PROVE  ParsedAsGiven
<1> DEFINE args == start.args
           any(v) == TRUE
           lvl(v) == v \in LogLevels
<1>1. Len(args) \in Nat /\ \A j \in 1..Len(args) : j < All(args)
  BY DEF All
<1>2. Given("svcConnConfFile", any, "") = LastOf(args, At(args, All(args), "svcConnConfFile"), "")
  <2>1. At(args, All(args), "svcConnConfFile")
          = {j \in 1..Len(args) : args[j].name = "svcConnConfFile" /\ TRUE}
    BY <1>1 DEF At
  <2> QED BY <2>1 DEF Given, LastOf, ValueAt
<1>3. Given("logfilefolder", any, "") = LastOf(args, At(args, All(args), "logfilefolder"), "")
  <2>1. At(args, All(args), "logfilefolder")
          = {j \in 1..Len(args) : args[j].name = "logfilefolder" /\ TRUE}
    BY <1>1 DEF At
  <2> QED BY <2>1 DEF Given, LastOf, ValueAt
<1>4. Given("loglevel", lvl, "warning") = LastOf(args, LevelsAt(args, All(args)), "warning")
  <2>1. LevelsAt(args, All(args))
          = {j \in 1..Len(args) : args[j].name = "loglevel" /\
               (IF args[j].eq THEN args[j].value ELSE args[j + 1].whole) \in LogLevels}
    BY <1>1 DEF LevelsAt, At, ValueAt
  <2> QED BY <2>1 DEF Given, LastOf, ValueAt
<1>5. At(args, All(args), "--help") # {} <=> \E j \in 1..Len(args) : args[j].name = "--help"
  BY <1>1 DEF At
<1> HIDE DEF args
<1> QED BY <1>2, <1>3, <1>4, <1>5 DEF ParsedAsGiven, Parsed, args

(* GetCmdLineOptionNameAndValue, by the form of the argument.              *)
LEMMA ArgumentRead ==
  ASSUME start.args \in Seq(Arguments), opt \in Opts, arg \in 1..Len(start.args), ~ValueMissing
  PROVE  LET nv == GetCmdLineOptionNameAndValue(arg)
             t == start.args[arg] IN
         /\ nv.name = t.name /\ nv.name \in STRING /\ nv.value \in Text
         /\ nv.next \in {arg + 1, arg + 2}
         /\ \/ t.eq /\ nv.value = t.value /\ nv.next = arg + 1
            \/ ~t.eq /\ t.name = "--help" /\ nv.next = arg + 1
            \/ ~t.eq /\ t.name \in Known /\ nv.value = start.args[arg + 1].whole /\ nv.next = arg + 2
            \/ ~t.eq /\ t.name \notin Known \cup {"--help"}
<1> DEFINE nv == GetCmdLineOptionNameAndValue(arg)
           t == start.args[arg]
<1>1. t \in Arguments /\ t.name \in STRING /\ t.value \in Text /\ t.eq \in BOOLEAN
  <2>1. t \in Arguments
    OBVIOUS
  <2>2. t.name \in STRING /\ t.value \in STRING /\ t.eq \in BOOLEAN
    BY <2>1 DEF Arguments
  <2> QED BY <2>1, <2>2 DEF Text
<1>2. opt.value \in Text
  BY DEF Opts
<1>3. CASE t.eq
  <2>1. nv = [name |-> t.name, value |-> t.value, next |-> arg + 1]
    BY <1>3 DEF GetCmdLineOptionNameAndValue
  <2> HIDE DEF nv
  <2> QED BY <1>1, <1>3, <2>1 DEF nv
<1>4. CASE ~t.eq /\ t.name = "--help"
  <2>1. nv = [name |-> t.name, value |-> opt.value, next |-> arg + 1]
    BY <1>4 DEF GetCmdLineOptionNameAndValue
  <2> HIDE DEF nv
  <2> QED BY <1>1, <1>2, <1>4, <2>1 DEF nv
<1>5. CASE ~t.eq /\ t.name # "--help"
  <2>1. nv = [name |-> t.name, value |-> GetCommandOptionValue(arg), next |-> arg + 2]
    BY <1>5 DEF GetCmdLineOptionNameAndValue
  <2>2. CASE t.name \in Known
    <3>1. GetCommandOptionValue(arg) = start.args[arg + 1].whole
      BY <2>2 DEF GetCommandOptionValue
    <3>2. start.args[arg + 1] \in Arguments
      <4>1. arg # Len(start.args)
        BY <1>5, <2>2 DEF ValueMissing
      <4> QED BY <4>1
    <3>3. start.args[arg + 1].whole \in Text
      BY <3>2 DEF Arguments, Text
    <3> HIDE DEF nv
    <3> QED BY <1>1, <1>5, <2>1, <2>2, <3>1, <3>3 DEF nv
  <2>3. CASE t.name \notin Known
    <3>1. GetCommandOptionValue(arg) = ""
      BY <2>3 DEF GetCommandOptionValue
    <3> HIDE DEF nv
    <3>2. nv.name = t.name /\ nv.value = "" /\ nv.next = arg + 2
      BY <2>1, <3>1
    <3>3. ~t.eq /\ t.name \notin Known \cup {"--help"}
      BY <1>5, <2>3
    <3>4. nv.value \in Text /\ nv.next \in {arg + 1, arg + 2}
      BY <3>2 DEF Text
    <3>5. nv.name = t.name /\ nv.name \in STRING
      BY <1>1, <3>2
    <3> HIDE DEF t
    <3> QED BY <3>3, <3>4, <3>5 DEF nv, t
  <2> QED BY <2>2, <2>3
<1> QED BY <1>3, <1>4, <1>5

LEMMA ArgsAreSeq ==
  ASSUME NEW s \in Starts
  PROVE  s.args \in Seq(Arguments) /\ Len(s.args) \in Nat
<1>1. s.args \in Seq(Arguments)
  BY StartAssumption
<1> QED BY <1>1

LEMMA ProcessArgStep ==
  ASSUME start \in Starts, ScalarInv, WalkInv, ProcessArg
  PROVE  ScalarInv' /\ WalkInv'
<1> DEFINE nv == GetCmdLineOptionNameAndValue(arg)
           args == start.args
<1>1. args \in Seq(Arguments) /\ Len(args) \in Nat
  BY ArgsAreSeq
<1>2. /\ pc = "args" /\ arg \in 1..Len(args) /\ ~ValueMissing /\ opt \in Opts
      /\ opt' = Handle(nv.name, nv.value) /\ arg' = nv.next
      /\ UNCHANGED <<start, pc, conn, err, result, msg, posted, thread>>
  BY DEF ProcessArg, ScalarInv, config, outcome
<1>3. /\ nv.name = args[arg].name /\ nv.name \in STRING /\ nv.value \in Text
      /\ nv.next \in {arg + 1, arg + 2}
      /\ \/ args[arg].eq /\ nv.value = args[arg].value /\ nv.next = arg + 1
         \/ ~args[arg].eq /\ args[arg].name = "--help" /\ nv.next = arg + 1
         \/ /\ ~args[arg].eq /\ args[arg].name \in Known /\ nv.value = args[arg + 1].whole
            /\ nv.next = arg + 2
         \/ ~args[arg].eq /\ args[arg].name \notin Known \cup {"--help"}
  BY <1>1, <1>2, ArgumentRead
<1> HIDE DEF nv
<1>4. opt' \in Opts /\ Handled(opt, opt', nv.name, nv.value)
  BY <1>2, <1>3, HandleFields
<1>5. arg' \in 1..Len(args) + 2
  BY <1>1, <1>2, <1>3
<1>6. ScalarInv'
  BY <1>2, <1>4, <1>5 DEF ScalarInv
<1>7. ASSUME WellFormed(args)
      PROVE  /\ arg' <= All(args) /\ (arg' = 1 \/ ~IsOption(args[arg' - 1]))
             /\ ParsedUpTo(args, arg', opt')
  <2>1. (arg = 1 \/ ~IsOption(args[arg - 1])) /\ ParsedUpTo(args, arg, opt)
    BY <1>2, <1>7 DEF WalkInv
  <2>2. nv.next \in Int
    BY <1>1, <1>2, <1>3
  <2>3. ~(~args[arg].eq /\ args[arg].name \notin Known \cup {"--help"})
    BY <1>1, <1>2, <1>7, <2>1, WalkCases DEF IsOption
  <2>4. /\ ParsedUpTo(args, nv.next, opt') /\ nv.next \in 2..Len(args) + 1
        /\ ~IsOption(args[nv.next - 1])
    <3> DEFINE name == nv.name
               value == nv.value
               m == nv.next
    <3>1. /\ name = args[arg].name /\ m \in Int /\ Handled(opt, opt', name, value)
          /\ \/ args[arg].eq /\ value = args[arg].value /\ m = arg + 1
             \/ ~args[arg].eq /\ name = "--help" /\ m = arg + 1
             \/ ~args[arg].eq /\ name \in Known /\ value = args[arg + 1].whole /\ m = arg + 2
      BY <1>3, <1>4, <2>2, <2>3
    <3>2. arg \in 1..Len(args) /\ opt \in Opts /\ opt' \in Opts
      BY <1>2, <1>4
    <3> HIDE DEF name, value, m, args
    <3>3. ParsedUpTo(args, m, opt') /\ m \in 2..Len(args) + 1 /\ ~IsOption(args[m - 1])
      BY <1>1, <1>7, <2>1, <3>1, <3>2, ParsedStep, ZenonT(30)
    <3> QED BY <3>3 DEF m, args
  <2> QED BY <1>1, <1>2, <2>4 DEF All
<1>8. WalkInv'
  BY <1>2, <1>7 DEF WalkInv
<1> QED BY <1>6, <1>8

(* With a well-formed command line no value is missing.                    *)
LEMMA LastArgStep ==
  ASSUME start \in Starts, ScalarInv, WalkInv, ProcessLastArg
  PROVE  ScalarInv' /\ WalkInv'
<1> DEFINE args == start.args
<1>1. args \in Seq(Arguments) /\ Len(args) \in Nat
  BY ArgsAreSeq
<1>2. /\ pc = "args" /\ arg \in 1..Len(args) /\ ValueMissing /\ opt \in Opts
      /\ UNCHANGED <<start, conn, err, result, msg, posted, thread>>
  <2>1. /\ pc = "args" /\ arg <= Len(args) /\ ValueMissing
        /\ UNCHANGED <<start, conn, err, result, msg, posted, thread>>
    BY DEF ProcessLastArg, config, outcome
  <2>2. arg \in 1..Len(args) + 2 /\ opt \in Opts
    BY DEF ScalarInv
  <2> QED BY <1>1, <2>1, <2>2
<1>3. args[arg].name \in STRING
  <2>1. args[arg] \in Arguments
    BY <1>1, <1>2
  <2> QED BY <2>1 DEF Arguments
<1>4. ScalarInv'
  <2>0. arg + 2 \in 1..Len(args) + 2
    BY <1>1, <1>2
  <2>1. CASE pc' = "crashed" /\ UNCHANGED <<opt, arg>>
    BY <1>2, <2>1 DEF ScalarInv, Final
  <2>2. ASSUME NEW value \in {"", "stray"}, opt' = Handle(args[arg].name, value),
               arg' = arg + 2, pc' = pc
        PROVE  ScalarInv'
    <3>1. opt' \in Opts
      BY <1>2, <1>3, <2>2, HandleFields DEF Text
    <3>2. arg' \in 1..Len(args) + 2
      BY <2>2, <2>0
    <3> QED BY <1>2, <2>2, <3>1, <3>2 DEF ScalarInv
  <2> QED BY <2>1, <2>2 DEF ProcessLastArg
<1>5. ~WellFormed(args)
  <2> SUFFICES ASSUME WellFormed(args) PROVE FALSE
    OBVIOUS
  <2>1. arg = 1 \/ ~IsOption(args[arg - 1])
    BY <1>2 DEF WalkInv
  <2>2. /\ arg = Len(args) /\ ~args[arg].eq /\ args[arg].name \in Known
    BY <1>2 DEF ValueMissing
  <2>3. IsOption(args[arg]) /\ args[arg].name # "--help"
    BY <2>2 DEF IsOption, Known
  <2>4. arg < Len(args)
    BY <1>1, <1>2, <2>1, <2>2, <2>3, WalkCases
  <2> QED BY <1>1, <2>2, <2>4
<1>6. WalkInv'
  BY <1>2, <1>5 DEF WalkInv
<1> QED BY <1>4, <1>6

LEMMA EndOfArgsStep ==
  ASSUME start \in Starts, ScalarInv, WalkInv, EndOfArgs
  PROVE  ScalarInv' /\ WalkInv'
<1> DEFINE args == start.args
<1>1. args \in Seq(Arguments) /\ Len(args) \in Nat
  BY ArgsAreSeq
<1>2. /\ pc = "args" /\ arg > Len(args)
      /\ msg' = (IF OutputUsage THEN "usage" ELSE msg)
      /\ pc' = (IF opt.help THEN "ended" ELSE "logger")
      /\ UNCHANGED <<start, arg, opt, conn, err, result, posted, thread>>
  BY DEF EndOfArgs, config, outcome
<1>3. ScalarInv'
  BY <1>2 DEF ScalarInv, Messages, Final
<1>4. ASSUME WellFormed(args)
      PROVE  /\ Parsed(args, opt', pc', msg')
             /\ pc' = "logger" => opt'.level = LastOf(args, LevelsAt(args, All(args)), "unset")
  <2>1. arg <= All(args) /\ ParsedUpTo(args, arg, opt)
    BY <1>2, <1>4 DEF WalkInv
  <2>2. arg = All(args)
    <3>1. arg \in Int
      BY DEF ScalarInv
    <3> QED BY <1>1, <1>2, <2>1, <3>1 DEF All
  <2>3. ParsedUpTo(args, All(args), opt)
    BY <2>1, <2>2
  <2>4. opt.help => pc' = "ended" /\ msg' = "usage"
    BY <1>2, <2>3 DEF ParsedUpTo, OutputUsage
  <2>5. pc' \in {"logger", "ended"}
    BY <1>2
  <2> QED BY <1>2, <2>3, <2>4, <2>5 DEF ParsedUpTo, Parsed
<1>5. WalkInv'
  BY <1>2, <1>4 DEF WalkInv
<1> QED BY <1>3, <1>5

LEMMA LoggerStep ==
  ASSUME start \in Starts, ScalarInv, WalkInv, InitializeLogger
  PROVE  ScalarInv' /\ WalkInv'
<1> DEFINE args == start.args
<1>1. /\ pc = "logger" /\ opt \in Opts
      /\ opt' = (IF opt.level = "unset" THEN [opt EXCEPT !.level = "warning"] ELSE opt)
      /\ (pc' = "ata" /\ msg' = msg) \/ (pc' = "ended" /\ msg' = "logFile")
      /\ UNCHANGED <<start, arg, conn, err, result, posted, thread>>
  BY DEF InitializeLogger, ScalarInv, config, outcome
<1>2. /\ opt' \in Opts /\ opt'.connFile = opt.connFile /\ opt'.folder = opt.folder
      /\ opt'.unknown = opt.unknown /\ opt'.help = opt.help
      /\ opt'.level = IF opt.level = "unset" THEN "warning" ELSE opt.level
  BY <1>1, StartAssumption DEF Opts
<1>3. ScalarInv'
  BY <1>1, <1>2 DEF ScalarInv, Messages, Final, Kinds
<1>4. ASSUME WellFormed(args)
      PROVE  Parsed(args, opt', pc', msg')
  <2>1. /\ Parsed(args, opt, pc, msg)
        /\ opt.level = LastOf(args, LevelsAt(args, All(args)), "unset")
    BY <1>1, <1>4 DEF WalkInv
  <2>2. ~opt.help
    BY <1>1, <2>1 DEF Parsed
  <2>3. opt'.level = LastOf(args, LevelsAt(args, All(args)), "warning")
    <3> DEFINE S == LevelsAt(args, All(args))
    <3>1. CASE S = {}
      BY <1>2, <2>1, <3>1 DEF LastOf
    <3>2. CASE S # {}
      <4>1. Max(S) \in S
        <5>1. S \subseteq 1..Len(args) /\ Len(args) \in Nat
          BY ArgsAreSeq DEF LevelsAt, At
        <5> HIDE DEF S
        <5> QED BY <3>2, <5>1, MaxIn
      <4>2. ValueAt(args, Max(S)) \in LogLevels
        BY <4>1 DEF LevelsAt
      <4>3. ValueAt(args, Max(S)) # "unset"
        BY <4>2, StartAssumption
      <4> QED BY <1>2, <2>1, <3>2, <4>3 DEF LastOf
    <3> QED BY <3>1, <3>2
  <2> QED BY <1>1, <1>2, <2>1, <2>2, <2>3 DEF Parsed
<1>5. WalkInv'
  BY <1>1, <1>4 DEF WalkInv
<1> QED BY <1>3, <1>5

(* Later steps do not touch the options, and there was no help.            *)
LEMMA LaterWalk ==
  ASSUME WalkInv, pc \notin {"args", "logger", "ended"}, pc' \notin {"args", "logger"},
         UNCHANGED <<start, opt>>
  PROVE  WalkInv'
<1> SUFFICES ASSUME WellFormed(start.args) PROVE Parsed(start.args, opt, pc', msg')
  BY DEF WalkInv
<1>1. Parsed(start.args, opt, pc, msg)
  BY DEF WalkInv
<1>2. ~opt.help
  BY <1>1 DEF Parsed
<1> QED BY <1>1, <1>2 DEF Parsed

LEMMA FileScalars ==
  ASSUME ScalarInv, NEW read, NEW text \in BOOLEAN, NEW shown \in Messages,
         tryCfgFilePaths(read, text, shown), pc \in Kinds,
         UNCHANGED <<start, arg, opt, posted, thread>>, IsConn(conn')
  PROVE  ScalarInv' /\ pc' \in Kinds \cup {"access", "ended", "window"}
<1>1. Moves(read)
  BY FileMoves
<1>2. pc' \in Kinds \cup {"access", "ended", "window"}
  BY <1>1 DEF Moves, Kinds
<1>3. result' \in Results
  BY <1>1 DEF Moves, ScalarInv, Results, Failed
<1>4. err' \in BOOLEAN
  BY DEF tryCfgFilePaths, ScalarInv
<1>5. msg' \in Messages
  BY DEF tryCfgFilePaths, Messages
<1>6. pc' \in {"args", "logger", "access", "bind", "option", "decide"} \cup Kinds \cup Final
  BY <1>2 DEF Final
<1> QED BY <1>2, <1>3, <1>4, <1>5, <1>6 DEF ScalarInv

(* A port number is replaced by one that is not 0.                         *)
LEMMA ConnRead ==
  ASSUME NEW f, IsFile(f, "cnnctn"), f.root, NEW c, IsConn(c)
  PROVE  IsConn(ReadSrvCnnctnCfg(f, c).conn) /\ ReadSrvCnnctnCfg(f, c).text \in BOOLEAN
<1> DEFINE r == ReadSrvCnnctnCfg(f, c)
<1>1. f.port \in Nat
  BY DEF IsFile
<1>2. PICK port, host, ids : port \in Nat \ {0} /\ c = [port |-> port, host |-> host, ids |-> ids]
  BY DEF IsConn
<1>3. CASE f.port = 0
  <2>1. r = [conn |-> c, read |-> FALSE, text |-> FALSE]
    BY <1>3 DEF ReadSrvCnnctnCfg
  <2>2. r.conn = c /\ r.text = FALSE
    BY <2>1
  <2> HIDE DEF r
  <2> QED BY <2>2 DEF r
<1>4. CASE f.port # 0 /\ f.host = None
  <2>1. r = [conn |-> [c EXCEPT !.port = f.port], read |-> FALSE, text |-> TRUE]
    BY <1>4 DEF ReadSrvCnnctnCfg
  <2>2. [c EXCEPT !.port = f.port] = [port |-> f.port, host |-> host, ids |-> ids]
    BY <1>2
  <2>3. r.conn = [port |-> f.port, host |-> host, ids |-> ids] /\ r.text = TRUE
    BY <2>1, <2>2
  <2> HIDE DEF r
  <2>4. IsConn(r.conn) /\ r.text \in BOOLEAN
    BY <1>1, <1>4, <2>3 DEF IsConn
  <2> QED BY <2>4 DEF r
<1>5. CASE f.port # 0 /\ f.host # None
  <2> DEFINE i == IF f.ids = None THEN c.ids ELSE f.ids
  <2>1. r = [conn |-> [port |-> f.port, host |-> f.host, ids |-> i], read |-> TRUE, text |-> FALSE]
    BY <1>5 DEF ReadSrvCnnctnCfg
  <2> HIDE DEF i
  <2>2. r.conn = [port |-> f.port, host |-> f.host, ids |-> i] /\ r.text = FALSE
    BY <2>1
  <2> HIDE DEF r
  <2>3. IsConn(r.conn) /\ r.text \in BOOLEAN
    BY <1>1, <1>5, <2>2 DEF IsConn
  <2> QED BY <2>3 DEF r
<1> QED BY <1>3, <1>4, <1>5

LEMMA FilesScalarStep ==
  ASSUME TriedInv, ScalarInv, WalkInv,
         readSMARTattrDefs \/ ReadSMARTdataCarrierDefs \/ ReadConnectionFile
  PROVE  ScalarInv' /\ WalkInv'
<1>1. pc \in Kinds /\ UNCHANGED <<start, arg, opt, posted, thread>>
  BY DEF readSMARTattrDefs, ReadSMARTdataCarrierDefs, ReadConnectionFile, Kinds, outcome
<1>2. msg \in Messages /\ "noID" \in Messages /\ IsConn(conn)
  BY DEF ScalarInv, Messages
<1>3. ScalarInv' /\ pc' \in Kinds \cup {"access", "ended", "window"}
  <2>1. CASE readSMARTattrDefs
    <3>1. conn' = conn /\ \E read, shown : shown \in Messages /\ tryCfgFilePaths(read, TRUE, shown)
      BY <1>2, <2>1, Zenon DEF readSMARTattrDefs
    <3> QED BY <1>1, <1>2, <3>1, FileScalars
  <2>2. CASE ReadSMARTdataCarrierDefs
    <3>1. conn' = conn /\ \E read : tryCfgFilePaths(read, TRUE, msg)
      BY <2>2 DEF ReadSMARTdataCarrierDefs
    <3> QED BY <1>1, <1>2, <3>1, FileScalars
  <2>3. CASE ReadConnectionFile
    <3> DEFINE f == start.disk[dir]["cnnctn"]
               r == IF f.root THEN ReadSrvCnnctnCfg(f, conn)
                    ELSE [conn |-> conn, read |-> FALSE, text |-> TRUE]
    <3>1. conn' = r.conn /\ tryCfgFilePaths(r.read, r.text, msg)
      BY <2>3 DEF ReadConnectionFile, ConstructConfigFilePath
    <3>2. IsFile(f, "cnnctn")
      BY FilesOnDisk DEF Kinds
    <3>3. IsConn(r.conn) /\ r.text \in BOOLEAN
      <4>1. CASE f.root
        <5>1. r = ReadSrvCnnctnCfg(f, conn)
          BY <4>1
        <5> HIDE DEF r, f
        <5> QED BY <1>2, <3>2, <4>1, <5>1, ConnRead
      <4>2. CASE ~f.root
        <5>1. r.conn = conn /\ r.text = TRUE
          BY <4>2
        <5> HIDE DEF r
        <5> QED BY <1>2, <5>1
      <4> QED BY <4>1, <4>2
    <3> HIDE DEF r
    <3> QED BY <1>1, <1>2, <3>1, <3>3, FileScalars
  <2> QED BY <2>1, <2>2, <2>3
<1>4. pc \notin {"args", "logger", "ended"} /\ pc' \notin {"args", "logger"}
  BY <1>1, <1>3 DEF Kinds
<1> QED BY <1>1, <1>3, <1>4, LaterWalk

LEMMA LastScalarStep ==
  ASSUME ScalarInv, WalkInv,
         FirstAccess \/ BindAndListenToSocket \/ ReadServiceConnectionSettings \/ ConnectOrRead
  PROVE  ScalarInv' /\ WalkInv'
<1>1. /\ pc \in {"access", "bind", "option", "decide"} /\ pc' \in {"bind", "option", "decide"} \cup Final
      /\ UNCHANGED <<start, arg, opt, err>>
  BY DEF FirstAccess, BindAndListenToSocket, ReadServiceConnectionSettings, ConnectOrRead,
         config, Final
<1>2. msg' \in Messages
  BY DEF ScalarInv, Messages, FirstAccess, BindAndListenToSocket, ReadServiceConnectionSettings,
         ConnectOrRead
<1>3. result' \in Results
  BY DEF ScalarInv, Results, AccessResults, FirstAccess, BindAndListenToSocket,
         ReadServiceConnectionSettings, ConnectOrRead
<1>4. posted' \in BOOLEAN /\ thread' \in BOOLEAN
  <2>1. CASE ConnectOrRead
    BY <2>1 DEF ConnectOrRead
  <2>2. CASE FirstAccess \/ ReadServiceConnectionSettings
    BY <2>2 DEF FirstAccess, ReadServiceConnectionSettings, outcome, ScalarInv
  <2>3. CASE BindAndListenToSocket
    <3>1. posted' = posted /\ (thread' = AttrToObs \/ thread' = thread)
      BY <2>3 DEF BindAndListenToSocket
    <3>2. AttrToObs \in BOOLEAN
      BY DEF AttrToObs
    <3> QED BY <3>1, <3>2 DEF ScalarInv
  <2> QED BY <2>1, <2>2, <2>3
<1>5. IsConn(conn')
  <2>0. IsConn(conn)
    BY DEF ScalarInv
  <2>1. CASE conn' = conn
    BY <2>0, <2>1
  <2>2. CASE conn' # conn
    <3> DEFINE f == optFile'
    <3>1. f \in OptionFiles /\ f.root /\ conn' = ReadSrvCnnctnCfg(f, conn).conn
      BY <2>2 DEF FirstAccess, BindAndListenToSocket, ReadServiceConnectionSettings,
                  ConnectOrRead, config
    <3>2. IsFile(f, "cnnctn")
      BY <3>1, StartAssumption
    <3> QED BY <2>0, <3>1, <3>2, ConnRead
  <2> QED BY <2>1, <2>2
<1>6. ScalarInv'
  BY <1>1, <1>2, <1>3, <1>4, <1>5 DEF ScalarInv
<1>7. pc \notin {"args", "logger", "ended"} /\ pc' \notin {"args", "logger"}
  BY <1>1 DEF Final
<1> QED BY <1>1, <1>6, <1>7, LaterWalk

WalkIInv == ScalarInv /\ WalkInv

LEMMA WalkStep == TablesIInv /\ WalkIInv /\ [Next]_vars => WalkIInv'
<1> SUFFICES ASSUME TablesIInv, WalkIInv, [Next]_vars PROVE WalkIInv'
  OBVIOUS
<1>1. start \in Starts /\ TriedInv /\ ScalarInv /\ WalkInv
  BY DEF TablesIInv, TriedInv, WalkIInv
<1>2. CASE UNCHANGED vars \/ Started
  <2>1. UNCHANGED <<start, pc, arg, opt, err, conn, result, msg, posted, thread>>
    BY <1>2 DEF vars, Started
  <2>2. ScalarInv'
    BY <1>1, <2>1 DEF ScalarInv
  <2>3. WalkInv'
    BY <1>1, <2>1 DEF WalkInv
  <2> QED BY <2>2, <2>3 DEF WalkIInv
<1> QED
  BY <1>1, <1>2, ProcessArgStep, LastArgStep, EndOfArgsStep, LoggerStep, FilesScalarStep,
     LastScalarStep DEF Next, WalkIInv

LEMMA WalkInit == Init => WalkIInv
<1> SUFFICES ASSUME Init PROVE WalkIInv
  OBVIOUS
<1> DEFINE o == [value |-> "", unknown |-> FALSE, usage |-> FALSE, help |-> FALSE,
                 connFile |-> "", folder |-> "", level |-> "unset"]
<1>1. /\ pc = "args" /\ arg = 1 /\ err = FALSE /\ start \in Starts /\ opt = o
      /\ conn = [port |-> 2000, host |-> "", ids |-> "uninitialized"]
      /\ result = "none" /\ msg = "" /\ posted = FALSE /\ thread = FALSE
  BY DEF Init
<1>2. Len(start.args) \in Nat /\ arg = 1
  BY <1>1, ArgsAreSeq
<1>3. opt \in Opts
  BY <1>1 DEF Opts, Text
<1>4. IsConn(conn)
  <2> DEFINE n == 2000
  <2>1. conn = [port |-> n, host |-> "", ids |-> "uninitialized"]
    BY <1>1
  <2>2. n \in Nat \ {0}
    OBVIOUS
  <2> HIDE DEF n
  <2> QED BY <2>1, <2>2, Zenon DEF IsConn
<1>5. arg \in 1..Len(start.args) + 2 /\ arg <= All(start.args)
  BY <1>2 DEF All
<1>6. ScalarInv
  BY <1>1, <1>3, <1>4, <1>5 DEF ScalarInv, Messages, Results
<1>7. \A name : At(start.args, arg, name) = {}
  <2>1. \A j \in 1..Len(start.args) : ~(j < arg)
    BY <1>2
  <2> QED BY <2>1, Zenon DEF At
<1>8. LevelsAt(start.args, arg) = {}
  BY <1>7 DEF LevelsAt
<1>9. /\ opt.connFile = "" /\ opt.folder = "" /\ opt.level = "unset" /\ opt.unknown = FALSE
      /\ opt.help = FALSE
  BY <1>1
<1>10. ParsedUpTo(start.args, arg, opt)
  BY <1>7, <1>8, <1>9 DEF ParsedUpTo, LastOf
<1>11. WalkInv
  BY <1>1, <1>5, <1>10 DEF WalkInv
<1> QED BY <1>6, <1>11 DEF WalkIInv

(* The options of a command line that follows the usage are the last ones  *)
(* given, in both forms and in any order; only the help ends the program   *)
(* before; the walk ends not more than one behind the last argument; every *)
(* variable stays in its range (ProcessCommandLineArgs,                    *)
(* GetCmdLineOptionNameAndValue).                                          *)
THEOREM OptionsAsGiven == Spec => []StartInv
<1>1. TablesIInv /\ WalkIInv => StartInv
  <2> SUFFICES ASSUME TablesIInv, WalkIInv PROVE StartInv
    OBVIOUS
  <2>1. start \in Starts /\ dir \in Dirs /\ IsDefs(defs) /\ ScalarInv /\ WalkInv
    BY DEF TablesIInv, TriedInv, LoadedInv, WalkIInv
  <2>2. \A k \in {"ata", "nvme"} : DOMAIN defs[k] = IDs
    BY <2>1 DEF IsDefs, IsTable
  <2>3. conn.port \in Nat \ {0}
    BY <2>1 DEF ScalarInv, IsConn
  <2>4. {opt.unknown, opt.usage, opt.help, err, posted, thread} \subseteq BOOLEAN
    <3>1. opt.unknown \in BOOLEAN /\ opt.usage \in BOOLEAN /\ opt.help \in BOOLEAN
      BY <2>1 DEF ScalarInv, Opts
    <3>2. err \in BOOLEAN /\ posted \in BOOLEAN /\ thread \in BOOLEAN
      BY <2>1 DEF ScalarInv
    <3> QED BY <3>1, <3>2, Zenon
  <2>5. opt.level \in LogLevels \cup {"unset"}
    BY <2>1 DEF ScalarInv, Opts
  <2>6. TypeOK
    BY <2>1, <2>2, <2>3, <2>4, <2>5 DEF TypeOK, ScalarInv
  <2>7. ParsedAsGiven
    <3>1. start.args \in Seq(Arguments)
      BY <2>1, ArgsAreSeq
    <3> QED BY <2>1, <3>1, ParsedIsGiven DEF WalkInv
  <2> QED BY <2>6, <2>7 DEF StartInv
<1> QED BY <1>1, WalkInit, WalkStep, TablesInvariance, PTL DEF Spec
=============================================================================
