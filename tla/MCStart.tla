------------------------------- MODULE MCStart -------------------------------
(* The instances of SMARTmonitorStart that TLC checks.                     *)
EXTENDS SMARTmonitorStart

Bare(text) == [whole |-> text, name |-> text, eq |-> FALSE, value |-> ""]
Equal(whole, name, value) == [whole |-> whole, name |-> name, eq |-> TRUE, value |-> value]

(* Options in both forms, values, the help, an unknown option, an option   *)
(* with an empty value.                                                    *)
MCArguments ==
  {Bare("logfilefolder"), Bare("svcConnConfFile"), Bare("loglevel"), Bare("--help"),
   Bare("text"), Bare("debug"),
   Equal("svcConnConfFile=a", "svcConnConfFile", "a"), Equal("loglevel=", "loglevel", ""),
   Equal("loglevel=error", "loglevel", "error"), Equal("port=b", "port", "b")}
MaxArgs == 3
(* Four arguments are two options with their values.                       *)
MCFourArguments ==
  [1..4 -> {Bare("svcConnConfFile"), Bare("loglevel"), Bare("--help"), Bare("text"), Bare("debug")}]
MCCommandLines == UNION {[1..n -> MCArguments] : n \in 0..MaxArgs} \cup MCFourArguments

Elem(id, name, critical) == [id |-> id, name |-> name, critical |-> critical]
DefFile(items) == [root |-> TRUE, items |-> items]
(* An ID twice, a missing ID or name, and critical ones among the others.  *)
MCDefFiles ==
  {NoFile, DefFile(<< >>), DefFile(<<Elem(1, "x", "yes"), Elem(2, "y", None)>>),
   DefFile(<<Elem(1, "x", "yes"), Elem(0, "z", None), Elem(1, "y", "no")>>),
   DefFile(<<Elem(1, "x", None), Elem(2, None, "yes")>>)}
ShippedDefs == DefFile(<<Elem(1, "x", None), Elem(2, "y", "yes")>>)

MCNvmeFiles ==
  {NoFile, DefFile(<< >>), DefFile(<<Elem(2, "n", "yes"), Elem(1, "m", None)>>)}

Carrier(model, unit) == [model |-> model, unit |-> unit]
MCCarrierFiles ==
  {NoFile, DefFile(<<Carrier("A", "GB"), Carrier(None, "h"), Carrier("A", "MB")>>)}
ShippedCarriers == DefFile(<<Carrier("A", "GB")>>)

Cnnctn(port, host, ids) == [root |-> TRUE, items |-> << >>, port |-> port, host |-> host, ids |-> ids]
MCCnnctnFiles ==
  {NoFile, Cnnctn(0, "h", "l"), Cnnctn(1, None, "l"), Cnnctn(2, "g", None), Cnnctn(2, "g", NoIDs),
   Cnnctn(3, "h", "l")}
ShippedCnnctn == Cnnctn(2000, "localhost", "l")

(* The second directory is read when the first one does not do.            *)
MCDirs == [ata : MCDefFiles, nvme : MCNvmeFiles, carriers : MCCarrierFiles, cnnctn : MCCnnctnFiles]
MCSecondDirs ==
  [ata : {NoFile, DefFile(<< >>), DefFile(<<Elem(2, "w", "yes"), Elem(1, "v", None)>>)},
   nvme : {NoFile, DefFile(<<Elem(1, "o", None)>>)},
   carriers : {NoFile, ShippedCarriers},
   cnnctn : {NoFile, Cnnctn(1, None, "l"), Cnnctn(5, "f", "k")}]
Shipped == [ata |-> ShippedDefs, nvme |-> DefFile(<<Elem(1, "n", None)>>),
            carriers |-> ShippedCarriers, cnnctn |-> ShippedCnnctn]

StartOf(role, direct, args, disk) ==
  [role |-> role, direct |-> direct, args |-> args, disk |-> disk]
ConnFileOption == Equal("svcConnConfFile=a", "svcConnConfFile", "a")

(* All command lines with the files of the repository; all files with and  *)
(* without the option that names a file.                                   *)
MCStarts ==
  {StartOf("gui", direct, args, <<Shipped, Shipped>>) :
     direct \in BOOLEAN, args \in MCCommandLines} \cup
  {StartOf("service", TRUE, << >>, <<d, e>>) : d \in MCDirs, e \in MCSecondDirs} \cup
  {StartOf("gui", TRUE, <<ConnFileOption>>, <<d, e>>) : d \in MCDirs, e \in MCSecondDirs}
ShippedStarts ==
  {StartOf("gui", TRUE, << >>, <<Shipped, Shipped>>),
   StartOf("service", TRUE, << >>, <<Shipped, Shipped>>)}
MCOptionFiles == MCCnnctnFiles \cup {Cnnctn(4, "k", None)}
=============================================================================
