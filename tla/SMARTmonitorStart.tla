-------------------------- MODULE SMARTmonitorStart --------------------------
(***************************************************************************)
(* The start of the service (src/src/service/service_main.cpp) and of the  *)
(* graphical user interface (wxSMARTmonitorApp::OnInit): command line, log *)
(* file, the four configuration files, each looked for in two directories, *)
(* the first direct access, and what the program then does. A file is the  *)
(* list of its elements, or has no root element: missing, not readable or  *)
(* no XML. The command line does not hold configfilepath, an option that   *)
(* the usage does not name.                                                *)
(***************************************************************************)
EXTENDS Integers, Sequences, SequencesExt

CONSTANTS
  Starts,       \* starts: program, build, command line, configuration files
  OptionFiles,  \* what the file that svcConnConfFile names can hold
  IDs,          \* attribute IDs
  DefaultIDs,   \* those with a name from setDfltSMARTattrDef
  LogLevels     \* names of log levels

None == "none"     \* an XML attribute that an element does not have
NoIDs == ""        \* a list of IDs to observe without any ID
NoFile == [root |-> FALSE, items |-> << >>]
Dirs == 1..2       \* resourcesFSpath/config, config in the working directory
Kinds == {"ata", "nvme", "carriers", "cnnctn"}
Known == {"logfilefolder", "svcConnConfFile", "loglevel"}   \* s_commandLineOptions

(* An argument: whole is its text, name and value the texts around the     *)
(* equal sign; without one, name is the whole.                             *)
Arguments == {t \in [whole : STRING, name : STRING, eq : BOOLEAN, value : STRING] :
                IF t.eq THEN t.whole # "--help" ELSE t.name = t.whole}

(* A file: without a root element it has no elements. The first three      *)
(* kinds are lists, of definitions with an ID or 0; the port number of a   *)
(* connection file is 0 when it is missing. What the member holds before   *)
(* any file was read is no list of a file.                                 *)
IsFile(f, kind) ==
  /\ f.root \in BOOLEAN
  /\ Len(f.items) \in Nat /\ DOMAIN f.items = 1..Len(f.items)
  /\ ~f.root => f.items = << >>
  /\ kind \in {"ata", "nvme"} => \A j \in 1..Len(f.items) : f.items[j].id \in IDs \cup {0}
  /\ kind = "cnnctn" /\ f.root => f.port \in Nat /\ f.ids # "uninitialized"

ASSUME StartAssumption ==
  /\ DefaultIDs \subseteq IDs /\ IDs \subseteq Nat \ {0}
  /\ "unset" \notin LogLevels /\ "" \notin LogLevels /\ "warning" \in LogLevels
  /\ \A s \in Starts :
       /\ s.role \in {"service", "gui"} /\ s.direct \in BOOLEAN
       /\ s.role = "service" => s.direct
       /\ s.args \in Seq(Arguments)
       /\ DOMAIN s.disk = Dirs
       /\ \A d \in Dirs : /\ DOMAIN s.disk[d] = Kinds
                          /\ \A k \in Kinds : IsFile(s.disk[d][k], k)
  /\ \A f \in OptionFiles : IsFile(f, "cnnctn")

VARIABLES
  start,    \* the member of Starts
  pc,       \* the next step; a final state, see Final
  arg,      \* programArgumentIndex
  opt,      \* what ProcessCommandLineArgs has found so far
  dir,      \* the directory tryCfgFilePaths is at
  err,      \* whether there is an error text of the first one
  defs,     \* SMARTattrDefs and NVMeSMARTattrDefs
  units,    \* m_modelAndFirmwareTuples
  conn,     \* port number, host name and IDs to observe
  result,   \* InitSMARTretCode
  msg,      \* the message shown last: the window holds one
  optFile,  \* the file that svcConnConfFile names, once read
  posted,   \* CnnctToSrvrEvtType was posted
  thread    \* the update thread was started

vars == <<start, pc, arg, opt, dir, err, defs, units, conn, result, msg, optFile,
          posted, thread>>
config == <<defs, units, conn, err, dir>>
outcome == <<optFile, posted, thread>>

Final == {"serving", "window", "ended", "crashed"}
Results == {"none", "success", "readingConfigFileFailed", "accessToSMARTdenied",
            "noSMARTcapableDevicePresent"}

(* What the window can show, or standard output: one text at a time.       *)
Messages == {"", "usage", "logFile", "noID", "config", "configBlank", "access", "bind",
             "noAttrs", "option"}

TypeOK ==
  /\ msg \in Messages
  /\ pc \in {"args", "logger", "access", "bind", "option", "decide"} \cup Kinds \cup Final
  /\ arg \in 1..Len(start.args) + 2
  /\ opt.level \in LogLevels \cup {"unset"}
  /\ {opt.unknown, opt.usage, opt.help, err, posted, thread} \subseteq BOOLEAN
  /\ dir \in Dirs /\ result \in Results
  /\ \A k \in {"ata", "nvme"} : DOMAIN defs[k] = IDs
  /\ conn.port \in Nat \ {0}

-----------------------------------------------------------------------------
(* The command line.                                                       *)

(* GetCommandOptionValue: the next argument, for the known options.        *)
GetCommandOptionValue(j) ==
  IF start.args[j].name \in Known THEN start.args[j + 1].whole ELSE ""

(* Mutants: the value is read as an option again; no step past the help.   *)
ValueIsOption(j) ==
  LET t == start.args[j] IN
  [name |-> t.name, value |-> IF t.eq THEN t.value ELSE GetCommandOptionValue(j),
   next |-> j + 1]

HelpNotPassed(j) ==
  LET t == start.args[j] IN
  CASE t.eq -> [name |-> t.name, value |-> t.value, next |-> j + 1]
    [] ~t.eq /\ t.name = "--help" -> [name |-> t.name, value |-> opt.value, next |-> j]
    [] OTHER -> [name |-> t.name, value |-> GetCommandOptionValue(j), next |-> j + 2]

(* GetCmdLineOptionNameAndValue. The value survives from the option before *)
(* when the help is asked for.                                             *)
GetCmdLineOptionNameAndValue(j) ==
  LET t == start.args[j] IN
  CASE t.eq -> [name |-> t.name, value |-> t.value, next |-> j + 1]
    [] ~t.eq /\ t.name = "--help" -> [name |-> t.name, value |-> opt.value, next |-> j + 1]
    [] OTHER -> [name |-> t.name, value |-> GetCommandOptionValue(j), next |-> j + 2]

(* One pass of the loop in ProcessCommandLineArgs.                         *)
Handle(name, value) ==
  LET o == [opt EXCEPT !.value = value] IN
  CASE name = "--help" -> [o EXCEPT !.usage = TRUE, !.help = TRUE]
    [] name # "--help" /\ value = "" -> [o EXCEPT !.unknown = TRUE]
    [] value # "" /\ name = "svcConnConfFile" -> [o EXCEPT !.connFile = value]
    [] value # "" /\ name = "logfilefolder" -> [o EXCEPT !.folder = value]
    [] value # "" /\ name = "loglevel" ->
         IF value \in LogLevels THEN [o EXCEPT !.level = value] ELSE [o EXCEPT !.usage = TRUE]
    [] OTHER -> o

(* The last argument is a known option without a value.                    *)
ValueMissing ==
  arg = Len(start.args) /\ ~start.args[arg].eq /\ start.args[arg].name \in Known

ProcessArg ==
  /\ pc = "args" /\ arg <= Len(start.args) /\ ~ValueMissing
  /\ LET nv == GetCmdLineOptionNameAndValue(arg) IN
       /\ opt' = Handle(nv.name, nv.value)
       /\ arg' = nv.next
  /\ UNCHANGED <<start, pc, config, result, msg, outcome>>

(* getArg is asked for the argument behind the last one: an invalid        *)
(* pointer, or any text.                                                   *)
ProcessLastArg ==
  /\ pc = "args" /\ arg <= Len(start.args) /\ ValueMissing
  /\ \/ pc' = "crashed" /\ UNCHANGED <<opt, arg>>
     \/ /\ \E value \in {"", "stray"} : opt' = Handle(start.args[arg].name, value)
        /\ arg' = arg + 2
        /\ UNCHANGED pc
  /\ UNCHANGED <<start, config, result, msg, outcome>>

(* Whether the usage is shown at the end.                                  *)
OutputUsage == opt.usage \/ opt.unknown \/ start.args = << >>

(* The end of ProcessCommandLineArgs, and what main and OnInit make of it. *)
EndOfArgs ==
  /\ pc = "args" /\ arg > Len(start.args)
  /\ msg' = IF OutputUsage THEN "usage" ELSE msg
  /\ pc' = IF opt.help THEN "ended" ELSE "logger"
  /\ UNCHANGED <<start, arg, opt, config, result, outcome>>

InitializeLogger ==
  /\ pc = "logger"
  /\ opt' = IF opt.level = "unset" THEN [opt EXCEPT !.level = "warning"] ELSE opt
  /\ \/ pc' = "ata" /\ UNCHANGED msg
     \/ pc' = "ended" /\ msg' = "logFile"
  /\ UNCHANGED <<start, arg, config, result, outcome>>

-----------------------------------------------------------------------------
(* The configuration files.                                                *)

NoDef == [name |-> "", critical |-> FALSE]
clearSMARTattrDefs == [i \in IDs |-> NoDef]

(* The constructor of SMARTattrDef that Set uses leaves the flag           *)
(* uninitialized.                                                          *)
setDfltSMARTattrDef(flag) ==
  [i \in IDs |-> IF i \in DefaultIDs THEN [name |-> "default", critical |-> flag] ELSE NoDef]

(* Mutant: the flag is not reset after a critical attribute.               *)
AddDefStaleFlag(acc, e) ==
  LET name == IF e.name = None THEN acc.name ELSE e.name
      critical == e.critical = "yes" \/ \E i \in IDs : acc.table[i].critical IN
  CASE e.id = 0 -> [acc EXCEPT !.noID = TRUE]
    [] e.id # 0 /\ name = "" -> [acc EXCEPT !.name = name]
    [] OTHER -> [acc EXCEPT !.name = name,
                            !.table[e.id] = [name |-> name, critical |-> critical]]

(* One element of a definition file. The name is kept from the element     *)
(* before when this one has none.                                          *)
AddDef(acc, e) ==
  LET name == IF e.name = None THEN acc.name ELSE e.name IN
  CASE e.id = 0 -> [acc EXCEPT !.noID = TRUE]
    [] e.id # 0 /\ name = "" -> [acc EXCEPT !.name = name]
    [] OTHER -> [acc EXCEPT !.name = name,
                            !.table[e.id] = [name |-> name, critical |-> e.critical = "yes"]]

AddDefs(table, items) ==
  FoldLeft(AddDef, [table |-> table, name |-> "", noID |-> FALSE], items)

(* The insertion into m_modelAndFirmwareTuples: the first one stays.       *)
InsertUnits(tuples, e) ==
  IF e.model = None \/ e.model \in DOMAIN tuples THEN tuples
  ELSE [m \in DOMAIN tuples \cup {e.model} |-> IF m = e.model THEN e.unit ELSE tuples[m]]

(* The path of the file to read now.                                       *)
ConstructConfigFilePath == start.disk[dir][pc]

NextKind == [ata |-> "nvme", nvme |-> "carriers", carriers |-> "cnnctn", cnnctn |-> "access"]

(* Mutant: after a failure the window goes on.                             *)
GoOnAfterFailure(read, text, shown) ==
  \/ /\ read
     /\ pc' = NextKind[pc] /\ dir' = 1 /\ err' = FALSE /\ msg' = shown
     /\ UNCHANGED result
  \/ /\ ~read /\ dir = 1
     /\ dir' = 2 /\ err' = text /\ msg' = shown
     /\ UNCHANGED <<pc, result>>
  \/ /\ ~read /\ dir = 2
     /\ result' = "readingConfigFileFailed"
     /\ msg' = IF err \/ text THEN "config" ELSE "configBlank"
     /\ pc' = IF start.role = "service" THEN "ended" ELSE "option"
     /\ UNCHANGED <<dir, err>>

(* The end of tryCfgFilePaths and of InitializeSMART when it fails: the    *)
(* second directory, then a message of both errors. shown is the message   *)
(* while the file was read, text whether there is an error text.           *)
tryCfgFilePaths(read, text, shown) ==
  \/ /\ read
     /\ pc' = NextKind[pc] /\ dir' = 1 /\ err' = FALSE /\ msg' = shown
     /\ UNCHANGED result
  \/ /\ ~read /\ dir = 1
     /\ dir' = 2 /\ err' = text /\ msg' = shown
     /\ UNCHANGED <<pc, result>>
  \/ /\ ~read /\ dir = 2
     /\ result' = "readingConfigFileFailed"
     /\ msg' = IF err \/ text THEN "config" ELSE "configBlank"
     /\ pc' = IF start.role = "service" THEN "ended" ELSE "window"
     /\ UNCHANGED <<dir, err>>

(* Mutant: cleared before the elements are looked for.                     *)
ClearFirst ==
  /\ pc \in {"ata", "nvme"}
  /\ LET f == ConstructConfigFilePath
         read == f.root /\ f.items # << >>
         cleared == [defs EXCEPT !.ata = clearSMARTattrDefs]
         acc == AddDefs(cleared[pc], f.items)
     IN /\ defs' = IF f.root THEN [cleared EXCEPT ![pc] = acc.table] ELSE defs
        /\ tryCfgFilePaths(read, TRUE, IF read /\ acc.noID THEN "noID" ELSE msg)
  /\ UNCHANGED <<start, arg, opt, units, conn, outcome>>

(* Definitions of attributes. All of SMARTattrDefs is cleared, whichever   *)
(* table is read into.                                                     *)
readSMARTattrDefs ==
  /\ pc \in {"ata", "nvme"}
  /\ LET f == ConstructConfigFilePath
         read == f.root /\ f.items # << >>
         cleared == [defs EXCEPT !.ata = clearSMARTattrDefs]
         acc == AddDefs(cleared[pc], f.items)
     IN /\ defs' = IF read THEN [cleared EXCEPT ![pc] = acc.table] ELSE defs
        /\ tryCfgFilePaths(read, TRUE, IF read /\ acc.noID THEN "noID" ELSE msg)
  /\ UNCHANGED <<start, arg, opt, units, conn, outcome>>

ReadSMARTdataCarrierDefs ==
  /\ pc = "carriers"
  /\ LET f == ConstructConfigFilePath IN
       /\ units' = FoldLeft(InsertUnits, units, f.items)
       /\ tryCfgFilePaths(f.root, TRUE, msg)
  /\ UNCHANGED <<start, arg, opt, defs, conn, outcome>>

(* Mutant: the host name may be missing.                                   *)
HostOptional(f, c) ==
  CASE f.port = 0 -> [conn |-> c, read |-> FALSE, text |-> FALSE]
    [] OTHER ->
         [conn |-> [port |-> f.port, host |-> IF f.host = None THEN c.host ELSE f.host,
                    ids |-> IF f.ids = None THEN c.ids ELSE f.ids],
          read |-> TRUE, text |-> FALSE]

(* ReadSrvCnnctnCfg on the root element of f: the settings afterwards,     *)
(* whether all were there, and whether there is an error text. The port    *)
(* number is set before the host name is looked for.                       *)
ReadSrvCnnctnCfg(f, c) ==
  CASE f.port = 0 -> [conn |-> c, read |-> FALSE, text |-> FALSE]
    [] f.port # 0 /\ f.host = None ->
         [conn |-> [c EXCEPT !.port = f.port], read |-> FALSE, text |-> TRUE]
    [] OTHER ->
         [conn |-> [port |-> f.port, host |-> f.host,
                    ids |-> IF f.ids = None THEN c.ids ELSE f.ids],
          read |-> TRUE, text |-> FALSE]

ReadConnectionFile ==
  /\ pc = "cnnctn"
  /\ LET f == ConstructConfigFilePath
         r == IF f.root THEN ReadSrvCnnctnCfg(f, conn)
              ELSE [conn |-> conn, read |-> FALSE, text |-> TRUE]
     IN /\ conn' = r.conn
        /\ tryCfgFilePaths(r.read, r.text, msg)
  /\ UNCHANGED <<start, arg, opt, defs, units, outcome>>

-----------------------------------------------------------------------------
(* The end of InitializeSMART, and what the programs do then.              *)

AccessResults == {"success", "accessToSMARTdenied", "noSMARTcapableDevicePresent"}

(* The first ReadSMARTValuesForAllDrives, in builds with direct access.    *)
FirstAccess ==
  /\ pc = "access"
  /\ result' \in IF start.direct THEN AccessResults ELSE {"success"}
  /\ msg' = IF result' = "accessToSMARTdenied" THEN "access" ELSE msg
  /\ pc' = CASE start.role = "gui" -> "option"
             [] start.role = "service" /\ result' = "success" -> "bind"
             [] OTHER -> "ended"
  /\ UNCHANGED <<start, arg, opt, config, outcome>>

(* m_IDsOfSMARTattrsToObserve is not empty. It is filled with the IDs of   *)
(* the connection file; of no other one, when a thread is to be started.   *)
AttrToObs == conn.ids \notin {"uninitialized", NoIDs}

(* main, service. StartAsyncUpdateThread shows "No S.M.A.R.T. attributes   *)
(* to observe" when there are none; clients are accepted all the same.     *)
BindAndListenToSocket ==
  /\ pc = "bind"
  /\ \/ /\ pc' = "serving" /\ thread' = AttrToObs
        /\ msg' = IF AttrToObs THEN msg ELSE "noAttrs"
     \/ pc' = "ended" /\ msg' \in {"bind", msg} /\ UNCHANGED thread
  /\ UNCHANGED <<start, arg, opt, config, result, optFile, posted>>

(* The file of the option. The error text for a missing host name is made  *)
(* with the null pointer passed as the path.                               *)
ReadServiceConnectionSettings ==
  /\ pc = "option"
  /\ \/ /\ opt.connFile = ""
        /\ pc' = "decide"
        /\ UNCHANGED <<conn, msg, optFile>>
     \/ /\ opt.connFile # ""
        /\ optFile' \in OptionFiles
        /\ LET r == ReadSrvCnnctnCfg(optFile', conn) IN
             IF ~optFile'.root
             THEN pc' = "decide" /\ msg' = "option" /\ UNCHANGED conn
             ELSE /\ conn' = r.conn
                  /\ pc' = IF r.text THEN "crashed" ELSE "decide"
                  /\ UNCHANGED msg
  /\ UNCHANGED <<start, arg, opt, dir, err, defs, units, result, posted, thread>>

(* Mutant: reads directly as well.                                         *)
ConnectAndRead ==
  /\ pc = "decide"
  /\ pc' = "window"
  /\ posted' = (opt.connFile # "")
  /\ thread' = (start.direct /\ result = "success" /\ AttrToObs)
  /\ UNCHANGED <<start, arg, opt, config, result, msg, optFile>>

(* The rest of OnInit. Without attributes to observe there is a message    *)
(* box of its own (StartAsyncDrctUpd8Thread).                              *)
ConnectOrRead ==
  /\ pc = "decide"
  /\ pc' = "window"
  /\ posted' = (opt.connFile # "")
  /\ thread' = (start.direct /\ opt.connFile = "" /\ result = "success" /\ AttrToObs)
  /\ UNCHANGED <<start, arg, opt, config, result, msg, optFile>>

Init ==
  /\ start \in Starts
  /\ pc = "args" /\ arg = 1 /\ dir = 1 /\ err = FALSE
  /\ opt = [value |-> "", unknown |-> FALSE, usage |-> FALSE, help |-> FALSE,
            connFile |-> "", folder |-> "", level |-> "unset"]
  /\ \E flag \in BOOLEAN :
       defs = [ata |-> setDfltSMARTattrDef(flag), nvme |-> clearSMARTattrDefs]
  /\ units = << >>
  /\ conn = [port |-> 2000, host |-> "", ids |-> "uninitialized"]
  /\ result = "none" /\ msg = "" /\ optFile = NoFile
  /\ posted = FALSE /\ thread = FALSE

Started == pc \in Final /\ UNCHANGED vars

Next ==
  \/ ProcessArg \/ ProcessLastArg \/ EndOfArgs \/ InitializeLogger
  \/ readSMARTattrDefs \/ ReadSMARTdataCarrierDefs \/ ReadConnectionFile
  \/ FirstAccess \/ BindAndListenToSocket
  \/ ReadServiceConnectionSettings \/ ConnectOrRead
  \/ Started

Spec == Init /\ [][Next]_vars
FairSpec == Spec /\ WF_vars(Next)

-----------------------------------------------------------------------------
(* Reference definitions for the properties.                               *)

IsOption(t) == ~t.eq /\ t.name \in Known
IsValue(t) == ~t.eq /\ t.name \notin Known \cup {"--help", ""}

(* A command line as the usage describes it.                               *)
WellFormed(args) ==
  \A j \in 1..Len(args) :
    \/ args[j].whole = "--help"
    \/ args[j].eq /\ args[j].name \in Known /\ args[j].value # ""
    \/ IsOption(args[j]) /\ j < Len(args) /\ IsValue(args[j + 1])
    \/ IsValue(args[j]) /\ j > 1 /\ IsOption(args[j - 1])

(* The last value given for an option, of those that are allowed.          *)
Given(name, allowed(_), dflt) ==
  LET args == start.args
      value(j) == IF args[j].eq THEN args[j].value ELSE args[j + 1].whole
      at == {j \in 1..Len(args) : args[j].name = name /\ allowed(value(j))}
  IN IF at = {} THEN dflt ELSE value(Max(at))

(* The first directory whose file can be used.                             *)
FirstOf(kind, usable(_)) ==
  LET ds == {d \in Dirs : usable(start.disk[d][kind])} IN
  IF ds = {} THEN NoFile ELSE start.disk[Min(ds)][kind]

HasElements(f) == f.root /\ f.items # << >>
Complete(f) == f.root /\ f.port # 0 /\ f.host # None
NamesAttrs(f) == f.ids \notin {None, NoIDs}

(* The definitions a file gives when all its elements have a name.         *)
DefsOf(f) ==
  [i \in IDs |->
     LET at == {j \in 1..Len(f.items) : f.items[j].id = i /\ f.items[j].name # ""} IN
     IF at = {} THEN NoDef
     ELSE [name |-> f.items[Max(at)].name, critical |-> f.items[Max(at)].critical = "yes"]]
AllNamed(f) == \A j \in 1..Len(f.items) : f.items[j].name # None

UnitsOf(f) ==
  LET at(m) == {j \in 1..Len(f.items) : f.items[j].model = m}
      models == {f.items[j].model : j \in 1..Len(f.items)} \ {None}
  IN [m \in models |-> f.items[Min(at(m))].unit]

Settings(c) == [port |-> c.port, host |-> c.host]

-----------------------------------------------------------------------------
(* Properties.                                                             *)

(* When the log file is opened, the options of a command line that follows *)
(* the usage are the last ones given, in both forms and in any order; only *)
(* the help ends the program before (ProcessCommandLineArgs).              *)
ParsedAsGiven ==
  WellFormed(start.args) /\ pc # "args" =>
    LET any(v) == TRUE
        level(v) == v \in LogLevels
        help == \E j \in 1..Len(start.args) : start.args[j].name = "--help"
    IN /\ opt.connFile = Given("svcConnConfFile", any, "")
       /\ opt.folder = Given("logfilefolder", any, "")
       /\ pc \notin {"logger", "ended"} => opt.level = Given("loglevel", level, "warning")
       /\ ~opt.unknown
       /\ help <=> opt.help
       /\ help => pc = "ended" /\ msg = "usage"

(* It is, and the walk along the arguments ends not more than one behind   *)
(* the last; every variable stays in its range.                            *)
StartInv == TypeOK /\ ParsedAsGiven

(* "even if the S.M.A.R.T. attribute definition configuration file is      *)
(* missing then parameter names are possible" (setDfltSMARTattrDef): when  *)
(* no directory has a file with definitions, the default names stay.       *)
NamesIfMissing ==
  pc \in Final /\ FirstOf("ata", HasElements) = NoFile =>
    \A i \in DefaultIDs : defs.ata[i].name = "default"

(* The tables hold what the first usable file says, and nothing of the     *)
(* other directory's: ATA definitions until the NVMe file is read, NVMe    *)
(* definitions and units for good (readSMARTattrDefs,                      *)
(* ReadSMARTdataCarrierDefs).                                              *)
LoadedAsWritten ==
  LET ata == FirstOf("ata", HasElements)
      nvme == FirstOf("nvme", HasElements)
      root(f) == f.root IN
  /\ pc = "nvme" /\ dir = 1 /\ AllNamed(ata) => defs.ata = DefsOf(ata)
  /\ pc \in {"carriers", "cnnctn", "access", "serving"} /\ AllNamed(nvme) =>
       defs.nvme = DefsOf(nvme)
  /\ pc \in {"cnnctn", "access", "serving"} => units = UnitsOf(FirstOf("carriers", root))

(* The service accepts clients only when all files were read and the       *)
(* drives could be, at the port of the first complete file, never one with *)
(* the port of a file and the host of another. It then reads drives iff    *)
(* that file has an ID to observe, and says so if it does not (main,       *)
(* ReadSrvCnnctnCfg, StartAsyncUpdateThread).                              *)
ServesAsConfigured ==
  pc = "serving" =>
    LET f == FirstOf("cnnctn", Complete) IN
    /\ result = "success"
    /\ Complete(f) /\ Settings(conn) = Settings(f)
    /\ thread <=> NamesAttrs(f)
    /\ ~thread => msg = "noAttrs"

(* "Ensure read config error message is shown (and not overwritten by      *)
(* another message)" (OnInit): it is the last one, and the window neither  *)
(* connects nor reads then.                                                *)
ConfigErrorShown ==
  result = "readingConfigFileFailed" =>
    msg \in {"config", "configBlank"} /\ ~posted /\ ~thread

(* The window connects to a service or reads drives, never both: it        *)
(* connects iff a file was named, to the host and port of that file if it  *)
(* has both and else to those of the configuration directory; it reads iff *)
(* none was, the drives can be read and the directory's file has an ID to  *)
(* observe (OnInit, StartAsyncDrctUpd8Thread).                             *)
ConnectsOrReads ==
  pc = "window" /\ result # "readingConfigFileFailed" =>
    LET f == FirstOf("cnnctn", Complete) IN
    /\ ~(posted /\ thread)
    /\ posted <=> opt.connFile # ""
    /\ thread <=> ~posted /\ start.direct /\ result = "success" /\ NamesAttrs(f)
    /\ Settings(conn) = Settings(IF Complete(optFile) THEN optFile ELSE f)

(* The start comes to an end for every command line and whatever the files *)
(* hold (ProcessCommandLineArgs, tryCfgFilePaths).                         *)
StartEnds == <>(pc \in Final)

(* "NVMe S.M.A.R.T. attribute names differ from ATA S.M.A.R.T. attribute   *)
(* names" (SMARTattrDefAccss.hpp): a table each, so after a start with     *)
(* both files read there are the names of both.                            *)
BothNamed ==
  result = "success" =>
    \A k \in {"ata", "nvme"} : \E i \in IDs : defs[k][i].name # ""
=============================================================================
