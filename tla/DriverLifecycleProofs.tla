------------------------ MODULE DriverLifecycleProofs ------------------------
(***************************************************************************)
(* Proofs about DriverLifecycle for every set of processes and threads,    *)
(* every processor and every size of the ToPA table.  One invariant holds  *)
(* together what its parts need from each other: a fault is excluded by    *)
(* what is known of the capabilities, of the output structure, and of the  *)
(* one thread that may set up the trace.                                   *)
(***************************************************************************)
EXTENDS DriverLifecycle, TLAPS

Entries == DEFAULT_NUMBER_OF_TOPA_ENTRIES

\* The output structure is built once, by IptInitPerCore; only a table of the
\* size the driver asks for is walked, or one built from garbage.
OutputInv ==
  /\ ~options.set => /\ options = Unset /\ topaTable = <<>>
                     /\ region = 1 /\ unread = {} /\ config = NoProc
  /\ options.set => /\ hardware.available /\ entry \in {"loaded", "unloaded"}
                    /\ options.output \in {"topa", "page"}
                    /\ options.entries \in {1, Entries}
                    /\ region <= options.entries
  /\ options.output = "topa" => topaTable = NewTopaTable(options.entries)
  /\ options.output = "page" => topaTable = <<>>
  /\ ~queryFirst => options.entries # 1
  /\ hardware.multiple /\ options.set /\ ~queryFirst => options.output = "topa"
  /\ fault = "none" /\ config # NoProc => options.output = "topa"
  /\ config # NoProc => hardware.filters
  /\ topaPmi \/ dpcs > 0 => options.output = "topa"

Early == FailingCalls \cup {"symbolic link", "WdfControlFinishInitializing", "PtwInit", "IptInit"}

\* Nobody but IptInit gives the driver its capabilities, unless a QUERY came
\* before it.
CapabilitiesInv ==
  /\ gPtCapabilities = "freed" \/ entry = "clear" => ~hardware.available
  /\ query = "copy" /\ ~queryFirst /\ hardware.available => gPtCapabilities \notin {"null", "freed"}
  /\ fault = "none" /\ ~queryFirst =>
       /\ entry \in Early => gPtCapabilities = "null"
       /\ entry = "IptQueryCapabilities" => gPtCapabilities = "garbage"
       /\ entry = "IptInitPerCore" => gPtCapabilities = "real"
  /\ CapabilitiesAreReal
  /\ entry = "loaded" /\ hardware.multiple /\ failures = 0 /\ ~queryFirst =>
       options.output = "topa"

Busy == {"claim", "install", "setup"}

\* A process is known to the callbacks from its image load to its exit.
ProcessInv ==
  /\ \A p \in Procs : procState[p] # "none" => setups > 0
  /\ \A p \in Procs, t \in Threads : threadPc[p][t] \in Busy => procState[p] = "loaded"
  /\ ~raced => \A p \in Procs : procState[p] = "loaded" => gProcessId = p
  /\ failures = 0 => \A p \in Procs : procState[p] = "loaded" => exitHook

\* Something of a trace is there: it is on, it was when it raised a PMI that
\* nobody has reset, or an IptDpc is queued that turns it on.
Traced == traceEn \/ topaPmi \/ dpcs > 0

Setting == {"install", "setup"}

\* One thread sets the trace up, while there is none.
ClaimInv ==
  ~raced =>
    /\ Traced => gThreadHoodked
    /\ \A p \in Procs, t \in Threads :
         threadPc[p][t] \in Setting =>
           /\ gThreadHoodked /\ ~Traced
           /\ \A u \in Threads : threadPc[p][u] \in Setting => t = u

\* What it leaves ends with its process.
TraceInv ==
  failures = 0 /\ ~raced =>
    /\ Traced => pmiHandler /\ \E p \in Procs : procState[p] = "loaded"
    /\ \A p \in Procs, t \in Threads : threadPc[p][t] = "setup" => pmiHandler
    /\ fault = "none" /\ ~queryFirst /\ hardware.filters /\ Traced => config = gProcessId

\* What the hardware has filled, by how late the interrupt is.
FillInv ==
  waiting # TooMany /\ ~reused /\ failures = 0 /\ ~queryFirst =>
    /\ ~overwritten
    /\ \/ waiting = 0 /\ region < Entries /\ unread = 1..(region - 1)
       \/ waiting = 1 /\ region = Entries /\ unread = 1..(Entries - 1)
       \/ waiting = 2 /\ region = 1 /\ unread = 1..Entries

DriverInv ==
  /\ TypeOK /\ OutputInv /\ CapabilitiesInv /\ ProcessInv
  /\ ClaimInv /\ TraceInv /\ FillInv /\ FaultNeedsCause

-----------------------------------------------------------------------------
(* The types.                                                              *)

EntryLabels ==
  FailingCalls \cup
    {"symbolic link", "WdfControlFinishInitializing", "PtwInit", "IptInit",
     "IptQueryCapabilities", "clear", "IptInitPerCore", "loaded", "failed", "unloaded"}

\* The types of the driver's own variables.
HookTypeOK ==
  /\ procState \in [Procs -> {"none", "loaded", "gone"}]
  /\ threadPc \in [Procs -> [Threads -> {"none", "claim", "install", "setup", "done"}]]
  /\ gProcessId \in Procs \cup {NoProc}
  /\ gThreadHoodked \in BOOLEAN /\ exitHook \in BOOLEAN /\ pmiHandler \in BOOLEAN
  /\ threadHooks \in Nat /\ raced \in BOOLEAN

RequestTypeOK ==
  query \in {"idle", "allocate", "copy"} /\ setups \in 0..MaxSetups /\ queryFirst \in BOOLEAN

EntryTypeOK == entry \in EntryLabels

\* TypeOK in four parts.
LEMMA TypeParts == TypeOK <=> IptTypeOK /\ EntryTypeOK /\ HookTypeOK /\ RequestTypeOK
  BY DEF TypeOK, EntryTypeOK, EntryLabels, HookTypeOK, RequestTypeOK

\* The same for the next state, from the parts.
LEMMA TypePartsNext == IptTypeOK' /\ EntryTypeOK' /\ HookTypeOK' /\ RequestTypeOK' => TypeOK'
  BY TypeParts, PTL

\* The same for the next state, to the parts.
LEMMA TypePartsBack == TypeOK' => IptTypeOK' /\ EntryTypeOK' /\ HookTypeOK' /\ RequestTypeOK'
  BY TypeParts, PTL

\* A call that fails is counted.
LEMMA FailTyped ==
  ASSUME failures \in 0..MaxFailures, Fail
  PROVE  failures' \in 0..MaxFailures /\ failures' # 0 /\ failures' = failures + 1
  BY OutputRegistersAssumption DEF Fail

\* A table has an entry for each region and one for the link back.
LEMMA TableShape ==
  ASSUME NEW n \in Nat, NEW t, t = NewTopaTable(n)
  PROVE  /\ Len(t) = n + 1
         /\ \A i \in 1..(n + 1) : (t[i].INT <=> i + 1 = n) /\ (t[i].END <=> i = n + 1)
<1>1. t \in Seq([INT : BOOLEAN, END : BOOLEAN])
  BY DEF NewTopaTable
<1>2. DOMAIN t = 1..(n + 1) /\ n + 1 \in Nat
  BY DEF NewTopaTable
<1>3. Len(t) = n + 1
  BY <1>1, <1>2
<1>4. \A i \in 1..(n + 1) : t[i] = [INT |-> i + 1 = n, END |-> i = n + 1]
  BY DEF NewTopaTable
<1>5. ASSUME NEW i \in 1..(n + 1)
      PROVE  (t[i].INT <=> i + 1 = n) /\ (t[i].END <=> i = n + 1)
  <2> DEFINE r == [INT |-> i + 1 = n, END |-> i = n + 1]
  <2>1. t[i] = r
    BY <1>4
  <2>2. (r.INT <=> i + 1 = n) /\ (r.END <=> i = n + 1)
    BY Zenon
  <2> QED BY <2>1, <2>2, Zenon
<1> QED BY <1>3, <1>5

\* The table has a normal entry beside the INT entry.
LEMMA SizeOfTable == Entries \in Nat /\ Entries >= 2
  BY OutputRegistersAssumption DEF Entries

-----------------------------------------------------------------------------
(* The types are kept by every step of OutputRegisters.                    *)

\* The records of an output structure.
LEMMA OptionsUpdate ==
  ASSUME IptTypeOK,
         NEW s \in {"garbage", "INITIALIZED", "DISABLED", "PAUSED", "ENABLED"},
         options' = [options EXCEPT !.status = s]
  PROVE  /\ options' \in [set : BOOLEAN, output : {"none", "topa", "page"}, entries : Nat,
                          status : {"garbage", "INITIALIZED", "DISABLED", "PAUSED", "ENABLED"}]
         /\ options'.set = options.set /\ options'.output = options.output
         /\ options'.entries = options.entries /\ options'.status = s
  BY DEF IptTypeOK

\* A step that leaves the hardware and the output structure alone.
Quiet == UNCHANGED <<hardware, options, topaTable, hwVars>>

\* Steps that leave the output structure alone keep its types.
LEMMA QuietTyped ==
  ASSUME IptTypeOK, Quiet, gPtCapabilities' \in {"null", "garbage", "real", "freed"},
         failures' \in 0..MaxFailures,
         fault' \in {"none", "msr", "options", "wild", "capabilities", "deviceInit", "breakpoint",
                   "unloaded"}
  PROVE  IptTypeOK'
  BY DEF IptTypeOK, Quiet, hwVars

\* IptInitPerCore builds a structure of the declared type.
LEMMA InitPerCoreTyped ==
  ASSUME IptTypeOK, OutputInv, ~options.set, IptInitPerCore
  PROVE  IptTypeOK'
<1> USE SizeOfTable
<1>1. options = Unset /\ topaTable = <<>> /\ region = 1 /\ unread = {} /\ config = NoProc /\ ~traceEn
  BY DEF IptTypeOK, OutputInv
<1>a. UNCHANGED <<capVars, hwVars>> /\ failures' \in 0..MaxFailures /\ fault' \in {fault, "msr"}
  BY FailTyped DEF IptInitPerCore, IptTypeOK, Fault
<1>2. CASE UNCHANGED <<options, topaTable>>
  BY <1>a, <1>2 DEF IptTypeOK, capVars, hwVars
<1>3. CASE IptInitTopaOutput /\ ~UNCHANGED <<options, topaTable>>
  <2>1. PICK n \in {1, Entries} :
             /\ options' = [set |-> TRUE, output |-> "topa", entries |-> n,
                            status |-> "INITIALIZED"]
             /\ topaTable' = NewTopaTable(n)
    BY <1>3 DEF IptInitTopaOutput, Entries
  <2>2. n \in Nat /\ Len(topaTable') = n + 1
    BY <2>1, TableShape
  <2> QED BY <1>1, <1>a, <2>1, <2>2 DEF IptTypeOK, capVars, hwVars
<1>4. CASE IptInitSingleRegionOutput
  <2>1. options' = [set |-> TRUE, output |-> "page", entries |-> Entries, status |-> "garbage"]
        /\ topaTable' = <<>>
    BY <1>1, <1>4 DEF IptInitSingleRegionOutput, Entries
  <2> QED BY <1>1, <1>a, <2>1 DEF IptTypeOK, capVars, hwVars
<1> QED BY <1>2, <1>3, <1>4 DEF IptInitPerCore

\* PtwIpiPerCoreSetup rewinds to the first region of the table.
LEMMA SetupTyped ==
  ASSUME IptTypeOK, OutputInv, NEW p \in Procs, PtwIpiPerCoreSetup(p)
  PROVE  IptTypeOK'
<1> USE SizeOfTable
<1>1. CASE UNCHANGED <<options, hwVars>>
  BY <1>1 DEF PtwIpiPerCoreSetup, Fault, IptTypeOK, hwVars
<1>2. CASE traceEn' = TRUE /\ options.set /\ options' = [options EXCEPT !.status = "ENABLED"]
  <2>1. region' \in {1, region} /\ config' \in Procs \cup {NoProc}
    BY <1>2 DEF PtwIpiPerCoreSetup, IptConfigureProcessorTrace, hwVars, IptTypeOK
  <2>2. options.entries >= 1 /\ region <= options.entries /\ options.entries \in Nat
    BY <1>2 DEF OutputInv, IptTypeOK
  <2>3. gPtCapabilities' \in {"null", "garbage", "real", "freed"}
        /\ UNCHANGED <<hardware, topaTable, failures>>
    BY DEF PtwIpiPerCoreSetup, IptTypeOK
  <2>4. fault' \in {"none", "msr", "options", "wild", "capabilities", "deviceInit", "breakpoint",
                   "unloaded"}
        /\ reused' \in BOOLEAN /\ UNCHANGED <<unread, topaPmi, foreignPmi, dpcs, waiting, overwritten>>
    BY DEF PtwIpiPerCoreSetup, IptTypeOK, Fault, hwVars
  <2>5. options' \in [set : BOOLEAN, output : {"none", "topa", "page"}, entries : Nat,
                      status : {"garbage", "INITIALIZED", "DISABLED", "PAUSED", "ENABLED"}]
        /\ options'.set = options.set /\ options'.output = options.output
        /\ options'.entries = options.entries /\ options'.status = "ENABLED"
    BY <1>2, OptionsUpdate
  <2>6. traceEn' = TRUE /\ options.set
    BY <1>2
  <2>7. Len(topaTable') = IF options'.output = "topa" THEN options'.entries + 1 ELSE 0
    BY <2>3, <2>5 DEF IptTypeOK
  <2>8. unread' \subseteq 1..options'.entries /\ region' \in 1..(Entries + 1)
        /\ region' <= options'.entries
    BY <2>1, <2>2, <2>4, <2>5 DEF IptTypeOK, Entries
  <2> QED BY <2>1, <2>3, <2>4, <2>5, <2>6, <2>7, <2>8 DEF IptTypeOK, Entries
<1> QED BY <1>1, <1>2 DEF PtwIpiPerCoreSetup

\* PtwDpcPerCoreDisable keeps the types of the registers.
LEMMA DisableTyped ==
  ASSUME IptTypeOK, PtwDpcPerCoreDisable
  PROVE  IptTypeOK'
<1>1. CASE UNCHANGED <<options, hwVars>>
  BY <1>1 DEF PtwDpcPerCoreDisable, Fault, IptTypeOK, hwVars, capVars
<1>2. CASE traceEn' = FALSE /\ options' = [options EXCEPT !.status = "DISABLED"]
  <2>1. options' \in [set : BOOLEAN, output : {"none", "topa", "page"}, entries : Nat,
                      status : {"garbage", "INITIALIZED", "DISABLED", "PAUSED", "ENABLED"}]
        /\ options'.set = options.set /\ options'.output = options.output
        /\ options'.entries = options.entries /\ options'.status = "DISABLED"
    BY <1>2, OptionsUpdate
  <2>2. fault' \in {fault, "msr", "options"} /\ UNCHANGED <<capVars, topaTable, failures>>
    BY DEF PtwDpcPerCoreDisable, Fault, hwVars
  <2>3. CASE UNCHANGED <<config, region, unread, topaPmi, foreignPmi, dpcs, waiting, overwritten,
                         reused>>
    <3>1. traceEn' = FALSE
      BY <1>2
    <3>2. Len(topaTable') = IF options'.output = "topa" THEN options'.entries + 1 ELSE 0
      BY <2>1, <2>2 DEF IptTypeOK
    <3>3. unread' \subseteq 1..options'.entries
      BY <2>1, <2>3 DEF IptTypeOK
    <3>4. /\ hardware' \in HardwareKinds /\ gPtCapabilities' \in {"null", "garbage", "real", "freed"}
          /\ failures' \in 0..MaxFailures
          /\ fault' \in {"none", "msr", "options", "wild", "capabilities", "deviceInit", "breakpoint",
                   "unloaded"}
      BY <2>2 DEF IptTypeOK, capVars
    <3>5. /\ config' \in Procs \cup {NoProc} /\ region' \in 1..(Entries + 1)
          /\ topaPmi' \in BOOLEAN /\ foreignPmi' \in BOOLEAN /\ dpcs' \in 0..MaxDpcs
          /\ waiting' \in 0..TooMany /\ overwritten' \in BOOLEAN /\ reused' \in BOOLEAN
      BY <2>3 DEF IptTypeOK, Entries
    <3> QED BY <2>1, <3>1, <3>2, <3>3, <3>4, <3>5 DEF IptTypeOK, Entries
  <2> QED BY <1>1, <1>2, <2>3 DEF PtwDpcPerCoreDisable
<1> QED BY <1>1, <1>2 DEF PtwDpcPerCoreDisable


\* The steps of the PMI handler and the DPC that end without a new table.
LEMMA PmiTyped ==
  ASSUME IptTypeOK, PmiForeign \/ PmiForeignReset \/ DpcRefused
  PROVE  IptTypeOK'
<1>1. /\ UNCHANGED <<capVars, options, topaTable, traceEn, config, region, unread, waiting,
                     overwritten, reused, failures, fault>>
      /\ topaPmi' \in BOOLEAN /\ foreignPmi' \in BOOLEAN /\ dpcs' \in 0..MaxDpcs
  <2>1. DpcRefused => dpcs' = dpcs - 1 /\ dpcs > 0
    BY DEF DpcRefused
  <2>2. dpcs' \in 0..MaxDpcs
    BY <2>1, OutputRegistersAssumption DEF IptTypeOK, PmiForeign, PmiForeignReset
  <2> QED BY <2>2 DEF IptTypeOK, PmiForeign, PmiForeignReset, DpcRefused
<1> QED BY <1>1 DEF IptTypeOK, capVars

\* The PMI handler keeps the types of the registers.
LEMMA PauseTyped ==
  ASSUME IptTypeOK, PmiPause
  PROVE  IptTypeOK'
<1>1. /\ options' \in [set : BOOLEAN, output : {"none", "topa", "page"}, entries : Nat,
                       status : {"garbage", "INITIALIZED", "DISABLED", "PAUSED", "ENABLED"}]
      /\ options'.set = options.set /\ options'.output = options.output
      /\ options'.entries = options.entries
  BY OptionsUpdate DEF PmiPause
<1>2. traceEn' = FALSE /\ dpcs' \in 0..MaxDpcs /\ failures' \in 0..MaxFailures
      /\ UNCHANGED <<capVars, topaTable, config, region, unread, topaPmi, foreignPmi, waiting,
                     overwritten, reused, fault>>
  <2>1. dpcs' \in {dpcs, dpcs + 1} /\ dpcs < MaxDpcs /\ dpcs \in 0..MaxDpcs
    BY DEF IptTypeOK, PmiPause
  <2>2. dpcs' \in 0..MaxDpcs
    BY <2>1, OutputRegistersAssumption
  <2> QED BY <2>2, FailTyped DEF IptTypeOK, PmiPause
<1>3. Len(topaTable') = IF options'.output = "topa" THEN options'.entries + 1 ELSE 0
  BY <1>1, <1>2 DEF IptTypeOK
<1>4. unread' \subseteq 1..options'.entries
  BY <1>1, <1>2 DEF IptTypeOK
<1>5. /\ hardware' \in HardwareKinds /\ gPtCapabilities' \in {"null", "garbage", "real", "freed"}
      /\ fault' \in {"none", "msr", "options", "wild", "capabilities", "deviceInit", "breakpoint",
                   "unloaded"}
  BY <1>2 DEF IptTypeOK, capVars
<1>6. /\ config' \in Procs \cup {NoProc} /\ region' \in 1..(Entries + 1)
      /\ topaPmi' \in BOOLEAN /\ foreignPmi' \in BOOLEAN
      /\ waiting' \in 0..TooMany /\ overwritten' \in BOOLEAN /\ reused' \in BOOLEAN
  BY <1>2 DEF IptTypeOK, Entries
<1> QED BY <1>1, <1>2, <1>3, <1>4, <1>5, <1>6 DEF IptTypeOK, Entries

\* IptDpc links a new buffer only to a ToPA structure.
LEMMA DpcTyped ==
  ASSUME IptTypeOK, OutputInv, IptDpc
  PROVE  IptTypeOK'
<1>1. options.output = "topa" /\ options.set /\ options.entries \in Nat /\ options.entries >= 1
  <2>1. options.output = "topa" /\ options.entries \in Nat
    BY DEF OutputInv, IptDpc, IptTypeOK
  <2>2. options.set
    BY <2>1 DEF OutputInv, Unset, IptTypeOK
  <2> QED BY <2>1, <2>2, SizeOfTable DEF OutputInv
<1>2. Len(topaTable') = options.entries + 1 /\ unread' \subseteq unread
  <2>1. CASE UNCHANGED <<unread, topaTable>>
    BY <1>1, <2>1 DEF IptTypeOK
  <2>2. CASE LinkNewBuffer
    BY <1>1, <2>2, TableShape DEF LinkNewBuffer
  <2> QED BY <2>1, <2>2 DEF IptDpc
<1>3. /\ options' \in [set : BOOLEAN, output : {"none", "topa", "page"}, entries : Nat,
                       status : {"garbage", "INITIALIZED", "DISABLED", "PAUSED", "ENABLED"}]
      /\ options'.set = options.set /\ options'.output = options.output
      /\ options'.entries = options.entries
      /\ traceEn' => options'.status = "ENABLED"
  <2>1. CASE IptResumeTrace
    <3>1. options' = [options EXCEPT !.status = "ENABLED"]
      BY <2>1 DEF IptResumeTrace
    <3> QED BY <3>1, OptionsUpdate
  <2>2. CASE UNCHANGED <<traceEn, options>>
    BY <2>2 DEF IptTypeOK
  <2> QED BY <2>1, <2>2 DEF IptDpc
<1>4. region' = 1 /\ UNCHANGED <<capVars, config, foreignPmi, overwritten, reused, fault>>
  BY DEF IptDpc
<1>5. traceEn' \in BOOLEAN /\ topaPmi' \in BOOLEAN /\ dpcs' \in 0..MaxDpcs /\ waiting' \in 0..TooMany
      /\ failures' \in 0..MaxFailures
  <2>1. traceEn' \in {traceEn, TRUE} /\ topaPmi' \in {topaPmi, FALSE} /\ dpcs > 0 /\ dpcs' = dpcs - 1
    BY DEF IptDpc, IptResumeTrace
  <2>2. waiting' \in {waiting, 0, TooMany}
    BY DEF IptDpc, IptResumeTrace
  <2>3. failures' = failures \/ Fail
    BY DEF IptDpc
  <2>4. failures' \in 0..MaxFailures
    BY <2>3, FailTyped DEF IptTypeOK
  <2>5. waiting' \in 0..TooMany
    BY <2>2 DEF IptTypeOK, TooMany
  <2>6. traceEn' \in BOOLEAN /\ topaPmi' \in BOOLEAN /\ dpcs' \in 0..MaxDpcs
    <3>1. dpcs \in 0..MaxDpcs /\ traceEn \in BOOLEAN /\ topaPmi \in BOOLEAN
      BY DEF IptTypeOK
    <3>2. dpcs - 1 \in 0..MaxDpcs
      BY <2>1, <3>1, OutputRegistersAssumption
    <3> QED BY <2>1, <3>1, <3>2
  <2> QED BY <2>4, <2>5, <2>6
<1>6. Len(topaTable') = IF options'.output = "topa" THEN options'.entries + 1 ELSE 0
  BY <1>1, <1>2, <1>3
<1>7. unread' \subseteq 1..options'.entries
  BY <1>2, <1>3 DEF IptTypeOK
<1>8. /\ hardware' \in HardwareKinds /\ gPtCapabilities' \in {"null", "garbage", "real", "freed"}
      /\ fault' \in {"none", "msr", "options", "wild", "capabilities", "deviceInit", "breakpoint",
                   "unloaded"}
      /\ config' \in Procs \cup {NoProc} /\ foreignPmi' \in BOOLEAN
      /\ overwritten' \in BOOLEAN /\ reused' \in BOOLEAN
  BY <1>4 DEF IptTypeOK, capVars
<1>9. region' \in 1..(Entries + 1) /\ region' <= options'.entries
  BY <1>1, <1>3, <1>4, SizeOfTable
<1> QED BY <1>1, <1>3, <1>5, <1>6, <1>7, <1>8, <1>9 DEF IptTypeOK, Entries

\* The region the hardware fills, and the one it goes on to.
LEMMA Walk ==
  ASSUME IptTypeOK, OutputInv, Running, FillRegion
  PROVE  /\ options.output = "topa" /\ options.set
         /\ region \in 1..options.entries /\ options.entries \in {1, Entries}
         /\ topaTable[region].INT <=> region + 1 = options.entries
         /\ region' = IF region = options.entries THEN 1 ELSE region + 1
<1>1. options.output = "topa" /\ options.set /\ topaTable = NewTopaTable(options.entries)
  BY DEF FillRegion, Running, OutputInv, IptTypeOK
<1>2. region \in 1..options.entries /\ options.entries \in {1, Entries} /\ options.entries \in Nat
  BY <1>1, SizeOfTable DEF OutputInv, IptTypeOK
<1>3. region \in 1..(options.entries + 1) /\ region + 1 \in 1..(options.entries + 1)
  BY <1>2
<1>4. \A i \in 1..(options.entries + 1) :
        (topaTable[i].INT <=> i + 1 = options.entries)
        /\ (topaTable[i].END <=> i = options.entries + 1)
  <2> DEFINE n == options.entries
  <2>1. n \in Nat /\ topaTable = NewTopaTable(n)
    BY <1>1, <1>2
  <2> HIDE DEF n
  <2>2. \A i \in 1..(n + 1) :
          (topaTable[i].INT <=> i + 1 = n) /\ (topaTable[i].END <=> i = n + 1)
    BY <2>1, TableShape
  <2> QED BY <2>2 DEF n
<1>5. topaTable[region].INT <=> region + 1 = options.entries
  BY <1>3, <1>4
<1>6. topaTable[region + 1].END <=> region + 1 = options.entries + 1
  BY <1>3, <1>4
<1>7. region' = IF region = options.entries THEN 1 ELSE region + 1
  BY <1>2, <1>6 DEF FillRegion
<1> QED BY <1>1, <1>2, <1>5, <1>7

\* The hardware stays within the table as it goes to the next region.
LEMMA FillTyped ==
  ASSUME IptTypeOK, OutputInv, Running, FillRegion
  PROVE  IptTypeOK'
<1> USE SizeOfTable
<1>1. options.set /\ region \in 1..options.entries /\ options.entries \in {1, Entries}
      /\ region' = IF region = options.entries THEN 1 ELSE region + 1
  BY Walk
<1>2. region' \in 1..(Entries + 1) /\ region' <= options.entries
      /\ unread' \subseteq 1..options.entries
  BY <1>1 DEF FillRegion, IptTypeOK
<1>3. UNCHANGED <<capVars, options, topaTable, traceEn, config, foreignPmi, dpcs, reused,
                  failures, fault>>
  BY DEF FillRegion
<1>4. waiting' \in 0..TooMany
  BY DEF FillRegion, IptTypeOK, TooMany
<1>5. overwritten' \in BOOLEAN
  BY DEF FillRegion, IptTypeOK
<1>6. topaPmi' \in BOOLEAN
  BY DEF FillRegion, IptTypeOK
<1> QED BY <1>1, <1>2, <1>3, <1>4, <1>5, <1>6 DEF IptTypeOK, capVars, Entries

-----------------------------------------------------------------------------
(* What the steps of the driver have in common.                            *)

\* A failing allocation is counted and changes nothing else.
LEMMA AllocationFailsQuiet ==
  ASSUME IptTypeOK, AllocationFails
  PROVE  Quiet /\ gPtCapabilities' = gPtCapabilities /\ fault' = fault
         /\ failures' \in 0..MaxFailures /\ failures' = failures + 1
  BY FailTyped DEF AllocationFails, Quiet, capVars, hwVars, IptTypeOK

\* What does not touch ProcessorTrace.c is quiet there.
LEMMA StutterQuiet ==
  ASSUME UNCHANGED iptVars
  PROVE  Quiet /\ gPtCapabilities' = gPtCapabilities /\ fault' = fault /\ failures' = failures
  BY DEF iptVars, Quiet, capVars, hwVars

\* What a step of DriverEntry before IptInitPerCore does to the processor: a
\* call fails, or the capabilities change; it only faults in a failing call.
EntryEffect ==
  /\ Quiet /\ gPtCapabilities' \in {"null", "garbage", "real", "freed"}
  /\ failures' \in 0..MaxFailures /\ failures' >= failures
  /\ fault' \in {"none", "deviceInit"} /\ (fault' # "none" => failures' # 0)

\* And has an effect the steps of DriverEntry may have.
LEMMA StutterEffect ==
  ASSUME IptTypeOK, Running, UNCHANGED iptVars
  PROVE  EntryEffect
<1>1. Quiet /\ gPtCapabilities' = gPtCapabilities /\ fault' = fault /\ failures' = failures
  BY StutterQuiet
<1>2. gPtCapabilities \in {"null", "garbage", "real", "freed"} /\ failures \in 0..MaxFailures
      /\ failures \in Nat /\ fault = "none"
  BY DEF IptTypeOK, Running
<1> QED BY <1>1, <1>2 DEF EntryEffect

\* The routines on the capabilities leave the output structure alone.
LEMMA CapabilitiesQuiet ==
  ASSUME AllocateCapabilities \/ IptQueryCapabilities \/ FreeCapabilities \/ ClearCapabilities
  PROVE  Quiet /\ fault' = fault /\ failures' = failures
         /\ gPtCapabilities' \in {"null", "garbage", "real", "freed"}
  BY DEF AllocateCapabilities, IptQueryCapabilities, FreeCapabilities, ClearCapabilities, Quiet, hwVars

\* DriverEntry runs until it is through, and either builds the output
\* structure or has a quiet effect.
LEMMA EntrySteps ==
  ASSUME IptTypeOK, DriverEntry
  PROVE  /\ Running /\ UNCHANGED <<hookVars, requestVars>>
         /\ entry' \in EntryLabels /\ entry \in EntryLabels \ {"loaded", "failed", "unloaded"}
         /\ PtwIpiPerCoreInit \/ (EntryEffect /\ entry' # "unloaded" /\ entry # "IptInitPerCore")
<1> USE DEF EntryStep, EntryLabels, FailingCalls
<1>1. CASE \E call \in FailingCalls : EntryFails(call)
  <2>1. failures' \in 0..MaxFailures /\ failures' = failures + 1 /\ failures \in Nat
    BY <1>1, FailTyped DEF EntryFails, IptTypeOK
  <2>2. EntryEffect
    BY <1>1, <2>1 DEF EntryFails, EntryEffect, Quiet, capVars, hwVars, IptTypeOK, Running
  <2> QED BY <1>1, <2>2 DEF EntryFails
<1>2. CASE WdfDriverCreate \/ WdfDeviceCreate \/ PtwCommunicationInit \/ WdfControlFinishInitializing
  <2> USE DEF WdfDriverCreate, WdfDeviceCreate, PtwCommunicationInit, WdfControlFinishInitializing
  <2>1. EntryEffect
    BY <1>2, StutterEffect
  <2> QED BY <1>2, <2>1
<1>3. CASE InitDeviceInit \/ WdfDeviceCreateSymbolicLink
  <2>1. CASE UNCHANGED iptVars
    <3>1. EntryEffect
      BY <1>3, <2>1, StutterEffect DEF InitDeviceInit, WdfDeviceCreateSymbolicLink
    <3> QED BY <1>3, <3>1 DEF InitDeviceInit, WdfDeviceCreateSymbolicLink
  <2>2. CASE Fail /\ Fault("deviceInit") /\ UNCHANGED <<capVars, options, topaTable, hwVars>>
    <3>1. failures' \in 0..MaxFailures /\ failures' = failures + 1 /\ failures \in Nat
      BY <2>2, FailTyped DEF IptTypeOK
    <3>2. EntryEffect
      BY <2>2, <3>1 DEF Fault, EntryEffect, IptTypeOK, Quiet, capVars, hwVars
    <3> QED BY <1>3, <3>2 DEF InitDeviceInit, WdfDeviceCreateSymbolicLink
  <2> QED BY <1>3, <2>1, <2>2 DEF InitDeviceInit, WdfDeviceCreateSymbolicLink
<1>4. CASE PtwInit \/ IptInit
  <2>1. CASE UNCHANGED iptVars
    <3>1. EntryEffect
      BY <1>4, <2>1, StutterEffect DEF PtwInit, IptInit
    <3> QED BY <1>4, <3>1 DEF PtwInit, IptInit
  <2>2. CASE AllocationFails
    <3>1. EntryEffect
      BY <1>4, <2>2, AllocationFailsQuiet DEF PtwInit, IptInit, EntryEffect, IptTypeOK, Running
    <3> QED BY <1>4, <3>1 DEF PtwInit, IptInit
  <2>3. CASE AllocateCapabilities \/ IptQueryCapabilities \/ FreeCapabilities \/ ClearCapabilities
    <3>1. EntryEffect
      BY <1>4, <2>3, CapabilitiesQuiet DEF PtwInit, IptInit, EntryEffect, IptTypeOK, Running
    <3> QED BY <1>4, <3>1 DEF PtwInit, IptInit
  <2> QED BY <1>4, <2>1, <2>2, <2>3 DEF PtwInit, IptInit
<1>5. CASE PtwIpiPerCoreInit
  BY <1>5 DEF PtwIpiPerCoreInit
<1> QED BY <1>1, <1>2, <1>3, <1>4, <1>5 DEF DriverEntry

\* A request changes the capabilities at most, and never turns queryFirst off.
LEMMA RequestSteps ==
  ASSUME IptTypeOK, RequestTypeOK, PtwCommandQueryCapabilities \/ PtwCommandTraceProcess
  PROVE  /\ Request /\ Quiet
         /\ gPtCapabilities' \in {"null", "garbage", "real", "freed"}
         /\ failures' \in 0..MaxFailures /\ failures' >= failures
         /\ fault' \in {"none", "capabilities"}
         /\ RequestTypeOK' /\ setups' >= setups /\ (queryFirst => queryFirst')
<1> USE DEF RequestTypeOK, Request, Running
<1>1. CASE QueryTest
  BY <1>1, StutterQuiet DEF QueryTest, IptTypeOK
<1>2. CASE QueryAllocate
  <2>1. CASE AllocateCapabilities /\ query' = "copy" /\ queryFirst' = TRUE
    BY <1>2, <2>1, CapabilitiesQuiet DEF QueryAllocate, IptTypeOK
  <2>2. CASE AllocationFails /\ query' = "idle" /\ UNCHANGED queryFirst
    BY <1>2, <2>2, AllocationFailsQuiet DEF QueryAllocate, IptTypeOK
  <2> QED BY <1>2, <2>1, <2>2 DEF QueryAllocate
<1>3. CASE QueryCopy
  BY <1>3 DEF QueryCopy, CopyCapabilities, Fault, Quiet, capVars, hwVars, IptTypeOK
<1>4. CASE PtwCommandTraceProcess
  <2>1. setups' \in 0..MaxSetups /\ setups' >= setups
    BY <1>4, LifecycleAssumption DEF PtwCommandTraceProcess
  <2> QED BY <1>4, <2>1, StutterQuiet DEF PtwCommandTraceProcess, IptTypeOK
<1> QED BY <1>1, <1>2, <1>3, <1>4 DEF PtwCommandQueryCapabilities


\* The creation callback of a thread moves that thread alone.
LEMMA ThreadMoves ==
  ASSUME HookTypeOK, NEW p \in Procs, NEW t \in Threads,
         NEW from, NEW to \in {"none", "claim", "install", "setup", "done"},
         ThreadGoto(p, t, from, to)
  PROVE  /\ Callback /\ threadPc[p][t] = from
         /\ threadPc' \in [Procs -> [Threads -> {"none", "claim", "install", "setup", "done"}]]
         /\ threadPc'[p][t] = to
         /\ \A q \in Procs, u \in Threads : q # p \/ u # t => threadPc'[q][u] = threadPc[q][u]
  BY DEF ThreadGoto, HookTypeOK

\* The thread-creation callback keeps the types of the callbacks' state.
LEMMA ThreadTyped ==
  ASSUME HookTypeOK, NEW p \in Procs, NEW t \in Threads, PtwHookThreadCreation(p, t)
  PROVE  HookTypeOK'
<1>1. \E from, to \in {"none", "claim", "install", "setup", "done"} : ThreadGoto(p, t, from, to)
  BY DEF PtwHookThreadCreation, ThreadTest, ThreadClaim, InstallPmiHandler, PtwSetup
<1>2. threadPc' \in [Procs -> [Threads -> {"none", "claim", "install", "setup", "done"}]]
  BY <1>1, ThreadMoves
<1>3. gThreadHoodked' \in BOOLEAN
  BY DEF PtwHookThreadCreation, ThreadTest, ThreadClaim, InstallPmiHandler, PtwSetup, HookTypeOK
<1>4. pmiHandler' \in BOOLEAN
  BY DEF PtwHookThreadCreation, ThreadTest, ThreadClaim, InstallPmiHandler, PtwSetup, HookTypeOK
<1>5. raced' \in BOOLEAN
  BY DEF PtwHookThreadCreation, ThreadTest, ThreadClaim, InstallPmiHandler, PtwSetup, HookTypeOK
<1>6. UNCHANGED <<procState, gProcessId, threadHooks, exitHook>>
  BY DEF PtwHookThreadCreation, ThreadTest, ThreadClaim, InstallPmiHandler, PtwSetup
<1> QED BY <1>2, <1>3, <1>4, <1>5, <1>6 DEF HookTypeOK

\* So do the image-load and the exit callback.
LEMMA ProcessTyped ==
  ASSUME HookTypeOK, RequestTypeOK, topaPmi \in BOOLEAN, NEW p \in Procs,
         ImageLoad(p) \/ ExitIgnored(p) \/ PtwHookProcessExit(p)
  PROVE  HookTypeOK'
<1>1. CASE ImageLoad(p)
  <2>1. threadHooks' \in Nat
    <3>1. setups \in Nat /\ setups > 0 /\ threadHooks \in Nat
      BY <1>1, LifecycleAssumption DEF ImageLoad, HookTypeOK, RequestTypeOK
    <3> QED BY <1>1, <3>1 DEF ImageLoad
  <2>2. exitHook' \in BOOLEAN /\ raced' \in BOOLEAN
    BY <1>1 DEF ImageLoad, HookTypeOK
  <2> QED BY <1>1, <2>1, <2>2 DEF ImageLoad, HookTypeOK
<1>2. CASE ExitIgnored(p)
  BY <1>2 DEF ExitIgnored, Exits, HookTypeOK
<1>3. CASE PtwHookProcessExit(p)
  <2>1. threadHooks' \in Nat /\ raced' \in BOOLEAN
    BY <1>3 DEF PtwHookProcessExit, HookTypeOK
  <2> QED BY <1>3, <2>1 DEF PtwHookProcessExit, Exits, HookTypeOK
<1> QED BY <1>1, <1>2, <1>3

\* Every step keeps the types.
LEMMA NextTyped ==
  ASSUME DriverInv, Next
  PROVE  TypeOK'
<1>1. IptTypeOK /\ OutputInv /\ EntryTypeOK /\ HookTypeOK /\ RequestTypeOK
  BY TypeParts DEF DriverInv
<1>2. CASE DriverEntry
  <2>1. UNCHANGED <<hookVars, requestVars>> /\ entry' \in EntryLabels
        /\ entry \notin {"loaded", "unloaded"}
    BY <1>1, <1>2, EntrySteps
  <2>2. HookTypeOK' /\ RequestTypeOK' /\ EntryTypeOK'
    BY <1>1, <2>1 DEF HookTypeOK, RequestTypeOK, EntryTypeOK, hookVars, requestVars
  <2>3. CASE PtwIpiPerCoreInit
    <3>1. IptInitPerCore /\ ~options.set
      BY <1>1, <2>1, <2>3 DEF PtwIpiPerCoreInit, OutputInv
    <3> QED BY <1>1, <2>2, <3>1, InitPerCoreTyped, TypePartsNext
  <2>4. CASE EntryEffect
    <3>1. IptTypeOK'
      BY <1>1, <2>4, QuietTyped DEF EntryEffect
    <3> QED BY <2>2, <3>1, TypePartsNext
  <2> QED BY <1>1, <1>2, <2>3, <2>4, EntrySteps
<1>3. CASE PtwCommandQueryCapabilities \/ PtwCommandTraceProcess
  <2>1. Request /\ IptTypeOK' /\ RequestTypeOK'
    BY <1>1, <1>3, RequestSteps, QuietTyped
  <2>2. HookTypeOK' /\ EntryTypeOK'
    BY <1>1, <2>1 DEF Request, HookTypeOK, EntryTypeOK, hookVars
  <2> QED BY <2>1, <2>2, TypePartsNext
<1>4. ASSUME NEW p \in Procs, ImageLoad(p) \/ ExitIgnored(p) \/ PtwHookProcessExit(p)
      PROVE  TypeOK'
  <2>1. Callback
    BY <1>4 DEF ImageLoad, ExitIgnored, PtwHookProcessExit, Exits
  <2>2. RequestTypeOK' /\ EntryTypeOK'
    BY <1>1, <2>1 DEF Callback, RequestTypeOK, EntryTypeOK, requestVars
  <2>3. HookTypeOK'
    BY <1>1, <1>4, ProcessTyped DEF IptTypeOK
  <2>4. IptTypeOK'
    <3>1. CASE UNCHANGED iptVars
      BY <1>1, <3>1, StutterQuiet, QuietTyped DEF IptTypeOK
    <3>2. CASE AllocationFails
      BY <1>1, <3>2, AllocationFailsQuiet, QuietTyped DEF IptTypeOK
    <3>3. CASE PtwDpcPerCoreDisable
      BY <1>1, <3>3, DisableTyped
    <3> QED BY <1>4, <3>1, <3>2, <3>3 DEF ImageLoad, ExitIgnored, PtwHookProcessExit
  <2> QED BY <2>2, <2>3, <2>4, TypePartsNext
<1>5. ASSUME NEW p \in Procs, NEW t \in Threads, PtwHookThreadCreation(p, t)
      PROVE  TypeOK'
  <2>1. Callback /\ HookTypeOK'
    BY <1>1, <1>5, ThreadTyped
       DEF PtwHookThreadCreation, ThreadTest, ThreadClaim, InstallPmiHandler, PtwSetup, ThreadGoto
  <2>2. RequestTypeOK' /\ EntryTypeOK'
    BY <1>1, <2>1 DEF Callback, RequestTypeOK, EntryTypeOK, requestVars
  <2>3. IptTypeOK'
    <3>1. CASE UNCHANGED iptVars
      BY <1>1, <3>1, StutterQuiet, QuietTyped DEF IptTypeOK
    <3>2. CASE AllocationFails
      BY <1>1, <3>2, AllocationFailsQuiet, QuietTyped DEF IptTypeOK
    <3>3. CASE PtwIpiPerCoreSetup(p)
      BY <1>1, <3>3, SetupTyped
    <3> QED BY <1>5, <3>1, <3>2, <3>3
            DEF PtwHookThreadCreation, ThreadTest, ThreadClaim, InstallPmiHandler, PtwSetup
  <2> QED BY <2>1, <2>2, <2>3, TypePartsNext
<1>6. CASE Interrupt \/ Trace
  <2>1. Running /\ HookTypeOK' /\ RequestTypeOK' /\ EntryTypeOK'
    BY <1>1, <1>6
       DEF Interrupt, Trace, HookTypeOK, RequestTypeOK, EntryTypeOK, hookVars, requestVars
  <2>2. IptTypeOK'
    BY <1>1, <1>6, <2>1, PmiTyped, PauseTyped, DpcTyped, FillTyped DEF Interrupt, Trace
  <2> QED BY <2>1, <2>2, TypePartsNext
<1>7. CASE DriverUnload
  <2>1. HookTypeOK' /\ RequestTypeOK' /\ EntryTypeOK'
    BY <1>1, <1>7
       DEF DriverUnload, HookTypeOK, RequestTypeOK, EntryTypeOK, EntryLabels, hookVars, requestVars
  <2>2. Quiet /\ gPtCapabilities' = gPtCapabilities /\ failures' = failures
        /\ fault' \in {"none", "breakpoint", "unloaded"}
    BY <1>7 DEF DriverUnload, Running, Fault, Quiet, capVars, hwVars
  <2>3. IptTypeOK'
    BY <1>1, <2>2, QuietTyped DEF IptTypeOK
  <2> QED BY <2>1, <2>3, TypePartsNext
<1> QED BY <1>2, <1>3, <1>4, <1>5, <1>6, <1>7 DEF Next


\* Every action but DriverEntry and the requests, by what it does to the processor.
CallbackEffect(p) ==
  \/ UNCHANGED iptVars \/ AllocationFails
  \/ PtwIpiPerCoreSetup(p) \/ PtwDpcPerCoreDisable

\* What the callbacks do to the driver's own state.
LEMMA CallbackSteps ==
  ASSUME NEW p \in Procs,
         \/ ImageLoad(p) \/ ExitIgnored(p) \/ PtwHookProcessExit(p)
         \/ \E t \in Threads : PtwHookThreadCreation(p, t)
  PROVE  Callback /\ CallbackEffect(p)
<1>1. CASE ImageLoad(p)
  BY <1>1 DEF ImageLoad, CallbackEffect
<1>2. CASE ExitIgnored(p) \/ PtwHookProcessExit(p)
  BY <1>2 DEF ExitIgnored, PtwHookProcessExit, Exits, CallbackEffect
<1>3. CASE \E t \in Threads : PtwHookThreadCreation(p, t)
  BY <1>3 DEF PtwHookThreadCreation, ThreadTest, ThreadClaim, InstallPmiHandler, PtwSetup,
              ThreadGoto, CallbackEffect
<1> QED BY <1>1, <1>2, <1>3

\* What no step takes back.
LEMMA FailureCounted ==
  ASSUME IptTypeOK, Fail
  PROVE  failures' >= failures
  BY FailTyped DEF IptTypeOK

\* Failures, races, early queries and setups are never forgotten, and a driver
\* that was loaded stays so until it is unloaded.
LEMMA NothingTakenBack ==
  ASSUME DriverInv, Next
  PROVE  /\ Running /\ hardware' = hardware
         /\ failures \in Nat /\ failures' \in Nat /\ failures' >= failures
         /\ (queryFirst => queryFirst') /\ (raced => raced') /\ setups' >= setups /\ setups \in Nat
         /\ entry \in {"loaded", "unloaded"} => entry' \in {"loaded", "unloaded"}
<1> USE DEF vars, hookVars, requestVars
<1>1. IptTypeOK /\ RequestTypeOK /\ HookTypeOK
  BY TypeParts DEF DriverInv
<1>2. failures \in Nat /\ setups \in Nat
  BY <1>1, OutputRegistersAssumption, LifecycleAssumption DEF IptTypeOK, RequestTypeOK
<1>3. failures' \in Nat
  <2>1. failures' \in 0..MaxFailures
    BY NextTyped, TypePartsBack DEF IptTypeOK
  <2> QED BY <2>1
<1>4. CASE DriverEntry
  <2>1. Running /\ UNCHANGED <<queryFirst, raced, setups>> /\ entry \notin {"loaded", "unloaded"}
    BY <1>1, <1>4, EntrySteps
  <2>2. CASE PtwIpiPerCoreInit
    <3>1. hardware' = hardware /\ (failures' = failures \/ Fail)
      BY <2>2 DEF PtwIpiPerCoreInit, IptInitPerCore, capVars
    <3> QED BY <1>1, <1>2, <1>3, <2>1, <3>1, FailureCounted
  <2>3. CASE EntryEffect
    BY <1>2, <1>3, <2>1, <2>3 DEF EntryEffect, Quiet
  <2> QED BY <1>1, <1>4, <2>2, <2>3, EntrySteps
<1>5. CASE PtwCommandQueryCapabilities \/ PtwCommandTraceProcess
  <2>1. Request /\ Quiet /\ failures' >= failures /\ setups' >= setups /\ (queryFirst => queryFirst')
    BY <1>1, <1>5, RequestSteps
  <2> QED BY <1>2, <1>3, <2>1 DEF Request, Quiet
<1>6. ASSUME NEW p \in Procs,
             \/ ImageLoad(p) \/ ExitIgnored(p) \/ PtwHookProcessExit(p)
             \/ \E t \in Threads : PtwHookThreadCreation(p, t)
      PROVE  /\ Running /\ hardware' = hardware /\ failures' >= failures
             /\ UNCHANGED <<queryFirst, setups, entry>> /\ (raced => raced')
  <2>1. Callback /\ CallbackEffect(p)
    BY <1>6, CallbackSteps
  <2>2. hardware' = hardware /\ (failures' = failures \/ Fail)
    BY <2>1 DEF CallbackEffect, iptVars, capVars, AllocationFails, PtwIpiPerCoreSetup,
                PtwDpcPerCoreDisable
  <2>3. failures' >= failures
    BY <1>1, <1>2, <2>2, FailureCounted
  <2>4. raced => raced'
    BY <1>6 DEF ImageLoad, ExitIgnored, PtwHookProcessExit, PtwHookThreadCreation, ThreadTest,
                ThreadClaim, InstallPmiHandler, PtwSetup
  <2> QED BY <2>1, <2>2, <2>3, <2>4 DEF Callback
<1>7. CASE Interrupt \/ Trace
  <2>1. hardware' = hardware /\ (failures' = failures \/ Fail)
    BY <1>7 DEF Interrupt, Trace, PmiForeign, PmiPause, PmiForeignReset, DpcRefused, IptDpc,
                FillRegion, capVars
  <2>2. Running /\ UNCHANGED <<queryFirst, raced, setups, entry>>
    BY <1>7 DEF Interrupt, Trace
  <2> QED BY <1>1, <1>2, <1>3, <2>1, <2>2, FailureCounted
<1>8. CASE DriverUnload
  BY <1>2, <1>8 DEF DriverUnload, capVars
<1> QED BY <1>2, <1>3, <1>4, <1>5, <1>6, <1>7, <1>8 DEF Next

-----------------------------------------------------------------------------
(* The output structure.                                                   *)

\* Steps that leave the output structure alone keep OutputInv.
LEMMA QuietOutput ==
  ASSUME OutputInv, Running, Quiet, queryFirst => queryFirst',
         entry \in {"loaded", "unloaded"} => entry' \in {"loaded", "unloaded"}
  PROVE  OutputInv'
  BY DEF OutputInv, Running, Quiet, hwVars

\* IptInitPerCore builds a table of one region only where the capabilities are
\* not the real ones.
LEMMA InitPerCoreOutput ==
  ASSUME DriverInv, PtwIpiPerCoreInit
  PROVE  OutputInv'
<1> USE SizeOfTable DEF hwVars, capVars
<1>1. IptTypeOK /\ OutputInv /\ CapabilitiesInv
  BY TypeParts DEF DriverInv
<1>2. Running /\ entry = "IptInitPerCore" /\ entry' = "loaded" /\ IptInitPerCore
      /\ UNCHANGED <<queryFirst, capVars, hwVars>>
  BY DEF PtwIpiPerCoreInit, EntryStep, requestVars, IptInitPerCore
<1>3. /\ options = Unset /\ topaTable = <<>> /\ region = 1 /\ unread = {} /\ config = NoProc
      /\ ~topaPmi /\ dpcs = 0
  BY <1>1, <1>2 DEF OutputInv, IptTypeOK, Unset
<1>4. CASE UNCHANGED <<options, topaTable>>
  BY <1>1, <1>2, <1>3, <1>4 DEF OutputInv, Unset
<1>5. CASE IptInitTopaOutput /\ hardware.available /\ ~UNCHANGED <<options, topaTable>>
  <2>1. PICK n \in {1, Entries} :
             /\ options' = [set |-> TRUE, output |-> "topa", entries |-> n,
                            status |-> "INITIALIZED"]
             /\ topaTable' = NewTopaTable(n)
             /\ ~queryFirst => n # 1
    <3>1. PICK multiple \in Believed("multiple"), enough \in EnoughEntries :
               LET entries == IF multiple THEN DEFAULT_NUMBER_OF_TOPA_ENTRIES ELSE 1 IN
               IF enough
                 THEN /\ options' = [set |-> TRUE, output |-> "topa", entries |-> entries,
                                     status |-> "INITIALIZED"]
                      /\ topaTable' = NewTopaTable(entries)
                 ELSE UNCHANGED <<options, topaTable>>
      BY <1>5 DEF IptInitTopaOutput
    <3>2. enough
      BY <1>5, <3>1
    <3>3. ~queryFirst => multiple
      BY <1>1, <1>2, <3>1, <3>2 DEF CapabilitiesInv, Running, Believed, EnoughEntries
    <3> QED BY <3>1, <3>2, <3>3 DEF Entries
  <2>2. n \in Nat /\ n >= 1
    BY <2>1
  <2> QED BY <1>2, <1>3, <1>5, <2>1, <2>2 DEF OutputInv
<1>6. CASE IptInitSingleRegionOutput /\ hardware.available /\ FALSE \in Believed("topa")
  <2>1. options' = [set |-> TRUE, output |-> "page", entries |-> Entries, status |-> "garbage"]
        /\ topaTable' = <<>>
    BY <1>3, <1>6 DEF IptInitSingleRegionOutput, Entries
  <2>2. ~queryFirst => gPtCapabilities = "real"
    BY <1>1, <1>2 DEF CapabilitiesInv, Running
  <2>3. hardware.multiple /\ ~queryFirst => FALSE \notin Believed("topa")
    <3>1. hardware.multiple => hardware.topa = TRUE
      BY <1>1, OutputRegistersAssumption DEF IptTypeOK, Kind
    <3> QED BY <2>2, <3>1 DEF Believed
  <2>4. hardware'.multiple => queryFirst'
    BY <1>2, <1>6, <2>3
  <2>5. 1 <= Entries /\ Entries # 1
    OBVIOUS
  <2> QED BY <1>2, <1>3, <1>6, <2>1, <2>4, <2>5 DEF OutputInv
<1> QED BY <1>2, <1>4, <1>5, <1>6 DEF IptInitPerCore

\* A step that keeps the kind of the structure.
LEMMA SameStructure ==
  ASSUME OutputInv, UNCHANGED <<hardware, topaTable, entry, queryFirst>>,
         options' = options
           \/ (options.set /\ options'.set = options.set /\ options'.output = options.output
               /\ options'.entries = options.entries)
  PROVE  /\ ~options'.set => options' = options /\ ~options.set
         /\ options'.set => /\ options.set /\ hardware'.available /\ entry' \in {"loaded", "unloaded"}
                            /\ options'.output \in {"topa", "page"}
                            /\ options'.entries \in {1, Entries}
         /\ options'.output = options.output /\ options'.entries = options.entries
         /\ options'.output = "topa" => topaTable' = NewTopaTable(options'.entries)
         /\ options'.output = "page" => topaTable' = <<>>
         /\ ~queryFirst' => options'.entries # 1
         /\ hardware'.multiple /\ options'.set /\ ~queryFirst' => options'.output = "topa"
  BY DEF OutputInv

\* A setup walks a table only if there is one.
LEMMA SetupOutput ==
  ASSUME IptTypeOK, OutputInv, Callback, NEW p \in Procs, PtwIpiPerCoreSetup(p)
  PROVE  OutputInv'
<1>1. UNCHANGED <<hardware, topaTable, entry, queryFirst>> /\ Running
  BY DEF PtwIpiPerCoreSetup, Callback, requestVars
<1>2. CASE UNCHANGED <<options, hwVars>> /\ fault' # "none"
  BY <1>1, <1>2 DEF OutputInv, hwVars
<1>3. CASE fault' \notin {"msr", "options"}
  <2>0. options.set /\ options' = [options EXCEPT !.status = "ENABLED"]
    BY <1>3 DEF PtwIpiPerCoreSetup, Fault
  <2>1. options'.set = options.set /\ options'.output = options.output
        /\ options'.entries = options.entries
    BY <2>0, OptionsUpdate
  <2>2. PICK accepted \in IptValidateConfigurationRequest :
             /\ IF accepted THEN IptConfigureProcessorTrace(p) ELSE UNCHANGED <<config, region>>
             /\ IF accepted /\ options.output = "page" THEN Fault("wild") ELSE UNCHANGED fault
             /\ UNCHANGED <<unread, topaPmi, foreignPmi, dpcs, waiting, overwritten>>
             /\ accepted => hardware.filters
    BY <1>3 DEF PtwIpiPerCoreSetup, Fault, ConfigureFaults
  <2>3. options.entries >= 1 /\ region <= options.entries
    BY <2>0, SizeOfTable DEF OutputInv
  <2>4. region' <= options'.entries
    BY <2>1, <2>2, <2>3 DEF IptConfigureProcessorTrace
  <2>5. fault' = "none" /\ config' # NoProc => options'.output = "topa"
    BY <1>1, <2>0, <2>1, <2>2 DEF OutputInv, IptConfigureProcessorTrace, Fault, Running
  <2>6. (topaPmi' \/ dpcs' > 0 => options'.output = "topa") /\ (config' # NoProc => hardware'.filters)
    BY <1>1, <2>1, <2>2 DEF OutputInv, IptConfigureProcessorTrace
  <2> QED BY <1>1, <2>0, <2>1, <2>4, <2>5, <2>6, SameStructure DEF OutputInv
<1>4. fault' \in {"msr", "options"} => UNCHANGED <<options, hwVars>>
  BY <1>1 DEF PtwIpiPerCoreSetup, Fault, Running
<1> QED BY <1>2, <1>3, <1>4

\* A disable collects the table and keeps its form.
LEMMA DisableOutput ==
  ASSUME IptTypeOK, OutputInv, Callback, PtwDpcPerCoreDisable
  PROVE  OutputInv'
<1>1. UNCHANGED <<hardware, topaTable, entry, queryFirst>> /\ Running
  BY DEF PtwDpcPerCoreDisable, Callback, requestVars, capVars
<1>2. UNCHANGED <<config, region, unread, topaPmi, foreignPmi, dpcs>>
  BY DEF PtwDpcPerCoreDisable, hwVars
<1>3. CASE UNCHANGED <<options, hwVars>>
  BY <1>1, <1>3 DEF OutputInv, hwVars, Running
<1>4. CASE options.set /\ options' = [options EXCEPT !.status = "DISABLED"]
  <2>1. options'.set = options.set /\ options'.output = options.output
        /\ options'.entries = options.entries
    BY <1>4, OptionsUpdate
  <2> QED BY <1>1, <1>2, <1>4, <2>1 DEF OutputInv, Running
<1> QED BY <1>3, <1>4 DEF PtwDpcPerCoreDisable


\* An interrupt is taken only where the table has an INT entry.
LEMMA InterruptOutput ==
  ASSUME IptTypeOK, OutputInv, Interrupt
  PROVE  OutputInv'
<1>1. Running /\ UNCHANGED <<entry, queryFirst>>
  BY DEF Interrupt, requestVars
<1>2. CASE PmiForeign \/ PmiForeignReset \/ DpcRefused
  <2>1. UNCHANGED <<hardware, options, topaTable, config, region, unread, fault>>
        /\ (topaPmi' => topaPmi)
    BY <1>2 DEF PmiForeign, PmiForeignReset, DpcRefused, capVars
  <2>2. dpcs' > 0 => dpcs > 0
    BY <1>2 DEF PmiForeign, PmiForeignReset, DpcRefused, IptTypeOK
  <2> QED BY <1>1, <2>1, <2>2 DEF OutputInv
<1>3. CASE PmiPause
  <2>1. options.output = "topa" /\ options.set
    BY <1>3 DEF PmiPause, OutputInv, Unset, IptTypeOK
  <2>2. options'.set = options.set /\ options'.output = options.output
        /\ options'.entries = options.entries
    BY <1>3, OptionsUpdate DEF PmiPause
  <2>3. UNCHANGED <<hardware, topaTable, config, region, unread, fault, topaPmi, foreignPmi>>
    BY <1>3 DEF PmiPause, capVars
  <2> QED BY <1>1, <2>1, <2>2, <2>3 DEF OutputInv
<1>4. CASE IptDpc
  <2>1. options.output = "topa" /\ options.set
    BY <1>4 DEF IptDpc, OutputInv, Unset, IptTypeOK
  <2>2. options'.set = options.set /\ options'.output = options.output
        /\ options'.entries = options.entries
    <3>1. CASE IptResumeTrace
      BY <3>1, OptionsUpdate DEF IptResumeTrace
    <3>2. CASE UNCHANGED options
      BY <3>2
    <3> QED BY <1>4, <3>1, <3>2 DEF IptDpc
  <2>3. topaTable' = NewTopaTable(options.entries)
    <3>1. topaTable = NewTopaTable(options.entries)
      BY <2>1 DEF OutputInv
    <3> QED BY <1>4, <3>1 DEF IptDpc, LinkNewBuffer
  <2>4. region' = 1 /\ UNCHANGED <<hardware, config, fault>>
    BY <1>4 DEF IptDpc, capVars
  <2>5. options.entries >= 1 /\ options.entries \in {1, Entries} /\ options.output # "page"
    BY <2>1, SizeOfTable DEF OutputInv
  <2> QED BY <1>1, <2>1, <2>2, <2>3, <2>4, <2>5 DEF OutputInv
<1> QED BY <1>2, <1>3, <1>4 DEF Interrupt

\* The hardware fills the regions of the table in turn.
LEMMA TraceOutput ==
  ASSUME IptTypeOK, OutputInv, Trace
  PROVE  OutputInv'
<1>1. Running /\ FillRegion /\ UNCHANGED <<entry, queryFirst>>
  BY DEF Trace, requestVars
<1>2. options.output = "topa" /\ options.set /\ region \in 1..options.entries
      /\ options.entries \in {1, Entries}
      /\ region' = IF region = options.entries THEN 1 ELSE region + 1
  BY <1>1, Walk
<1>3. region' <= options.entries
  BY <1>2, SizeOfTable
<1>4. UNCHANGED <<hardware, options, topaTable, config, foreignPmi, dpcs, fault>>
      /\ (topaPmi => topaPmi')
  BY <1>1 DEF FillRegion, capVars
<1> QED BY <1>1, <1>2, <1>3, <1>4 DEF OutputInv

\* Every step keeps OutputInv.
LEMMA OutputStep ==
  ASSUME DriverInv, Next
  PROVE  OutputInv'
<1>1. IptTypeOK /\ HookTypeOK /\ RequestTypeOK /\ OutputInv
  BY TypeParts DEF DriverInv
<1>2. Running /\ (queryFirst => queryFirst')
      /\ (entry \in {"loaded", "unloaded"} => entry' \in {"loaded", "unloaded"})
  BY NothingTakenBack
<1>3. CASE DriverEntry
  BY <1>1, <1>2, <1>3, EntrySteps, QuietOutput, InitPerCoreOutput DEF EntryEffect
<1>4. CASE PtwCommandQueryCapabilities \/ PtwCommandTraceProcess
  BY <1>1, <1>2, <1>4, RequestSteps, QuietOutput
<1>5. ASSUME NEW p \in Procs,
             \/ ImageLoad(p) \/ ExitIgnored(p) \/ PtwHookProcessExit(p)
             \/ \E t \in Threads : PtwHookThreadCreation(p, t)
      PROVE  OutputInv'
  <2>1. Callback /\ CallbackEffect(p)
    BY <1>5, CallbackSteps
  <2>2. CASE UNCHANGED iptVars \/ AllocationFails
    <3>1. Quiet
      BY <1>1, <2>2, StutterQuiet, AllocationFailsQuiet
    <3> QED BY <1>1, <1>2, <3>1, QuietOutput
  <2> QED BY <1>1, <2>1, <2>2, SetupOutput, DisableOutput DEF CallbackEffect
<1>6. CASE Interrupt \/ Trace
  BY <1>1, <1>6, InterruptOutput, TraceOutput
<1>7. CASE DriverUnload
  <2>1. Quiet
    BY <1>7 DEF DriverUnload, Quiet, capVars, hwVars
  <2> QED BY <1>1, <1>2, <2>1, QuietOutput
<1> QED BY <1>3, <1>4, <1>5, <1>6, <1>7 DEF Next

-----------------------------------------------------------------------------
(* The capabilities.                                                       *)

\* Capabilities that stay what they are stay what DriverEntry has made them.
LEMMA SameCapabilities ==
  ASSUME CapabilitiesInv, Running, UNCHANGED <<hardware, gPtCapabilities, entry, query>>,
         options'.output = options.output, queryFirst => queryFirst',
         failures \in Nat, failures' \in Nat, failures' >= failures
  PROVE  CapabilitiesInv'
  BY DEF CapabilitiesInv, CapabilitiesAreReal, Running

\* Without a QUERY before it, IptInitPerCore asks the real capabilities.
LEMMA InitPerCoreCapabilities ==
  ASSUME DriverInv, PtwIpiPerCoreInit
  PROVE  CapabilitiesInv'
<1>1. IptTypeOK /\ OutputInv /\ CapabilitiesInv
  BY TypeParts DEF DriverInv
<1>2. Running /\ entry = "IptInitPerCore" /\ entry' = "loaded" /\ IptInitPerCore
      /\ UNCHANGED <<queryFirst, query, hardware, gPtCapabilities>>
  BY DEF PtwIpiPerCoreInit, EntryStep, requestVars, IptInitPerCore, capVars
<1>3. ~queryFirst => gPtCapabilities = "real"
  BY <1>1, <1>2 DEF CapabilitiesInv, Running
<1>4. ASSUME hardware.multiple, failures' = 0, ~queryFirst
      PROVE  options'.output = "topa"
  <2>1. hardware.topa /\ hardware.available
    BY <1>1, <1>4, OutputRegistersAssumption DEF IptTypeOK, Kind
  <2>2. ~Fail
    BY <1>1, <1>4, FailTyped DEF IptTypeOK
  <2>3. Believed("topa") = {TRUE} /\ Believed("multiple") = {TRUE} /\ EnoughEntries = {TRUE}
    <3>1. Believed("topa") = {hardware.topa} /\ Believed("multiple") = {hardware.multiple}
      BY <1>3, <1>4 DEF Believed
    <3>2. hardware.topa = TRUE /\ hardware.multiple = TRUE
      BY <1>1, <1>4, <2>1, OutputRegistersAssumption DEF IptTypeOK, Kind
    <3> QED BY <3>1, <3>2 DEF EnoughEntries
  <2>4. IptInitTopaOutput
    BY <1>2, <2>1, <2>2, <2>3 DEF IptInitPerCore
  <2> QED BY <2>3, <2>4 DEF IptInitTopaOutput
<1> QED BY <1>1, <1>2, <1>3, <1>4 DEF CapabilitiesInv, CapabilitiesAreReal, Early, FailingCalls

\* DriverEntry keeps CapabilitiesInv: IptInit fills what it has allocated.
LEMMA EntryCapabilities ==
  ASSUME DriverInv, DriverEntry
  PROVE  CapabilitiesInv'
<1> USE DEF EntryStep, FailingCalls
<1>1. IptTypeOK /\ OutputInv /\ CapabilitiesInv
  BY TypeParts DEF DriverInv
<1>2. Running /\ UNCHANGED <<query, queryFirst>>
  BY <1>1, EntrySteps DEF requestVars
<1>a. hardware.multiple => hardware.available
  BY <1>1, OutputRegistersAssumption DEF IptTypeOK, Kind
<1>3. CASE gPtCapabilities' = gPtCapabilities /\ hardware' = hardware
           /\ entry' \notin {"loaded", "clear", "IptQueryCapabilities", "IptInitPerCore"}
           /\ entry \in Early
  BY <1>1, <1>2, <1>3 DEF CapabilitiesInv, CapabilitiesAreReal, Running
<1>4. CASE \E call \in FailingCalls : EntryFails(call)
  BY <1>3, <1>4 DEF EntryFails, Early, capVars
<1>5. CASE WdfDriverCreate \/ WdfDeviceCreate \/ PtwCommunicationInit \/ WdfControlFinishInitializing
  BY <1>3, <1>5
     DEF WdfDriverCreate, WdfDeviceCreate, PtwCommunicationInit, WdfControlFinishInitializing,
         Early, iptVars, capVars
<1>6. CASE InitDeviceInit \/ WdfDeviceCreateSymbolicLink
  BY <1>3, <1>6 DEF InitDeviceInit, WdfDeviceCreateSymbolicLink, Early, iptVars, capVars
<1>7. CASE AllocationFails /\ entry' = "loaded"
  <2>1. failures' # 0 /\ UNCHANGED <<gPtCapabilities, hardware>>
    BY <1>1, <1>7, FailTyped DEF AllocationFails, capVars, IptTypeOK
  <2> QED BY <1>1, <1>2, <1>7, <2>1 DEF CapabilitiesInv, CapabilitiesAreReal, Early
<1>8. CASE PtwInit
  BY <1>3, <1>7, <1>8 DEF PtwInit, Early, iptVars, capVars
<1>9. CASE IptInit
  <2>1. CASE entry = "IptInit" /\ gPtCapabilities = "null"
    <3>1. CASE entry' = "IptQueryCapabilities" /\ AllocateCapabilities
      BY <1>1, <1>2, <3>1
         DEF AllocateCapabilities, CapabilitiesInv, CapabilitiesAreReal, Early
    <3> QED BY <1>7, <1>9, <2>1, <3>1 DEF IptInit
  <2>2. CASE entry = "IptInit" /\ gPtCapabilities # "null"
    <3>1. queryFirst
      BY <1>1, <1>2, <2>2 DEF CapabilitiesInv, Running, Early
    <3>2. entry' = "IptInitPerCore" /\ UNCHANGED <<gPtCapabilities, hardware>>
      BY <1>9, <2>2 DEF IptInit, iptVars, capVars
    <3> QED BY <1>1, <1>2, <3>1, <3>2 DEF CapabilitiesInv, CapabilitiesAreReal
  <2>3. CASE entry = "IptQueryCapabilities" /\ IptQueryCapabilities /\ entry' = "IptInitPerCore"
    BY <1>1, <1>2, <2>3 DEF IptQueryCapabilities, CapabilitiesInv, CapabilitiesAreReal, Early
  <2>4. CASE ~hardware.available /\ (FreeCapabilities \/ ClearCapabilities)
             /\ entry' \in {"clear", "loaded"}
    BY <1>a, <2>4 DEF FreeCapabilities, ClearCapabilities, CapabilitiesInv, CapabilitiesAreReal, Early
  <2> QED BY <1>9, <2>1, <2>2, <2>3, <2>4 DEF IptInit
<1> QED BY <1>4, <1>5, <1>6, <1>8, <1>9, InitPerCoreCapabilities DEF DriverEntry

\* A request allocates the capabilities only if it comes before IptInit.
LEMMA RequestCapabilities ==
  ASSUME DriverInv, PtwCommandQueryCapabilities \/ PtwCommandTraceProcess
  PROVE  CapabilitiesInv'
<1>1. IptTypeOK /\ RequestTypeOK /\ CapabilitiesInv
  BY TypeParts DEF DriverInv
<1>2. Request /\ Running /\ entry' = entry /\ hardware' = hardware /\ options' = options
      /\ failures \in Nat /\ failures' \in Nat /\ failures' >= failures
      /\ (queryFirst => queryFirst')
  <2>1. failures \in 0..MaxFailures
    BY <1>1 DEF IptTypeOK
  <2> QED BY <1>1, <2>1, RequestSteps DEF Request, Quiet
<1>3. CASE QueryTest
  <2>1. UNCHANGED <<gPtCapabilities, failures, queryFirst>>
        /\ query' = IF gPtCapabilities = "null" THEN "allocate" ELSE "copy"
    BY <1>3 DEF QueryTest, iptVars, capVars
  <2> QED BY <1>1, <1>2, <2>1 DEF CapabilitiesInv, CapabilitiesAreReal, Running
<1>4. CASE QueryAllocate
  <2>1. CASE AllocateCapabilities /\ queryFirst'
    BY <1>1, <1>2, <2>1 DEF AllocateCapabilities, CapabilitiesInv, CapabilitiesAreReal
  <2>2. CASE AllocationFails /\ query' = "idle"
    BY <1>1, <1>2, <2>2 DEF AllocationFails, capVars, CapabilitiesInv, CapabilitiesAreReal, Running
  <2> QED BY <1>4, <2>1, <2>2 DEF QueryAllocate
<1>5. CASE QueryCopy
  <2>1. query' = "idle" /\ gPtCapabilities' = gPtCapabilities
    BY <1>5 DEF QueryCopy, CopyCapabilities, capVars
  <2> QED BY <1>1, <1>2, <2>1 DEF CapabilitiesInv, CapabilitiesAreReal, Running
<1>6. CASE PtwCommandTraceProcess
  <2>1. UNCHANGED <<query, gPtCapabilities>>
    BY <1>6 DEF PtwCommandTraceProcess, iptVars, capVars
  <2> QED BY <1>1, <1>2, <2>1, SameCapabilities
<1> QED BY <1>3, <1>4, <1>5, <1>6 DEF PtwCommandQueryCapabilities

\* A trace that is set up finds the capabilities there, or faults.
LEMMA SetupCapabilities ==
  ASSUME DriverInv, Callback, NEW p \in Procs, PtwIpiPerCoreSetup(p)
  PROVE  CapabilitiesInv'
<1>1. IptTypeOK /\ OutputInv /\ CapabilitiesInv
  BY TypeParts DEF DriverInv
<1>2. Running /\ UNCHANGED <<hardware, failures, entry, query, queryFirst>>
  BY DEF PtwIpiPerCoreSetup, Callback, requestVars
<1>3. options'.output = options.output
  <2>1. CASE options' = options
    BY <2>1
  <2>2. CASE options' = [options EXCEPT !.status = "ENABLED"]
    BY <1>1, <2>2, OptionsUpdate
  <2> QED BY <2>1, <2>2 DEF PtwIpiPerCoreSetup
<1>4. gPtCapabilities' = IF gPtCapabilities = "null" THEN "garbage" ELSE gPtCapabilities
  BY DEF PtwIpiPerCoreSetup
<1>5. fault' = "none" => entry \in {"loaded", "unloaded"}
  <2>1. fault' = "none" => options.set
    BY DEF PtwIpiPerCoreSetup, Fault
  <2> QED BY <1>1, <2>1 DEF OutputInv
<1> QED BY <1>1, <1>2, <1>3, <1>4, <1>5 DEF CapabilitiesInv, CapabilitiesAreReal, Early, FailingCalls


\* Every step keeps CapabilitiesInv.
LEMMA CapabilitiesStep ==
  ASSUME DriverInv, Next
  PROVE  CapabilitiesInv'
<1>1. IptTypeOK /\ HookTypeOK /\ RequestTypeOK /\ OutputInv /\ CapabilitiesInv
  BY TypeParts DEF DriverInv
<1>2. Running /\ hardware' = hardware /\ (queryFirst => queryFirst')
      /\ failures \in Nat /\ failures' \in Nat /\ failures' >= failures
  BY NothingTakenBack
<1>3. ASSUME NEW p \in Procs,
             \/ ImageLoad(p) \/ ExitIgnored(p) \/ PtwHookProcessExit(p)
             \/ \E t \in Threads : PtwHookThreadCreation(p, t)
      PROVE  CapabilitiesInv'
  <2>1. Callback /\ CallbackEffect(p)
    BY <1>3, CallbackSteps
  <2>2. UNCHANGED <<entry, query>>
    BY <2>1 DEF Callback, requestVars
  <2>3. CASE UNCHANGED iptVars \/ AllocationFails
    <3>1. Quiet /\ gPtCapabilities' = gPtCapabilities
      BY <1>1, <2>3, StutterQuiet, AllocationFailsQuiet
    <3>2. options'.output = options.output
      BY <3>1 DEF Quiet
    <3> QED BY <1>1, <1>2, <2>2, <3>1, <3>2, SameCapabilities
  <2>4. CASE PtwDpcPerCoreDisable
    <3>1. options'.output = options.output
      <4>1. CASE options' = options
        BY <4>1
      <4>2. CASE options' = [options EXCEPT !.status = "DISABLED"]
        BY <1>1, <4>2, OptionsUpdate
      <4> QED BY <2>4, <4>1, <4>2 DEF PtwDpcPerCoreDisable
    <3>2. gPtCapabilities' = gPtCapabilities
      BY <2>4 DEF PtwDpcPerCoreDisable, capVars
    <3> QED BY <1>1, <1>2, <2>2, <3>1, <3>2, SameCapabilities
  <2> QED BY <2>1, <2>3, <2>4, SetupCapabilities DEF CallbackEffect
<1>4. CASE Interrupt \/ Trace
  <2>1. UNCHANGED <<entry, query, gPtCapabilities>>
    BY <1>4 DEF Interrupt, Trace, requestVars, PmiForeign, PmiPause, PmiForeignReset, DpcRefused,
                IptDpc, FillRegion, capVars
  <2>2. options'.output = options.output
    <3>1. options' = options \/ \E s \in {"PAUSED", "ENABLED"} : options' = [options EXCEPT !.status = s]
      BY <1>4 DEF Interrupt, Trace, PmiForeign, PmiPause, PmiForeignReset, DpcRefused,
                  IptDpc, IptResumeTrace, FillRegion
    <3> QED BY <1>1, <3>1, OptionsUpdate
  <2> QED BY <1>1, <1>2, <2>1, <2>2, SameCapabilities
<1>5. CASE DriverUnload
  BY <1>1, <1>5 DEF DriverUnload, capVars, requestVars, CapabilitiesInv, CapabilitiesAreReal, Early,
                    FailingCalls
<1> QED BY <1>3, <1>4, <1>5, EntryCapabilities, RequestCapabilities DEF Next

-----------------------------------------------------------------------------
(* Processes and their threads.                                            *)

\* Steps of others keep ProcessInv.
LEMMA SameProcesses ==
  ASSUME ProcessInv, UNCHANGED hookVars, setups' >= setups, setups \in Nat, setups' \in Nat,
         failures \in Nat, failures' \in Nat, failures' >= failures
  PROVE  ProcessInv'
  BY DEF ProcessInv, hookVars

\* Steps outside the callbacks leave their variables alone.
LEMMA HooksKept ==
  ASSUME IptTypeOK, RequestTypeOK,
         \/ DriverEntry \/ PtwCommandQueryCapabilities \/ PtwCommandTraceProcess
         \/ Interrupt \/ Trace \/ DriverUnload
  PROVE  UNCHANGED hookVars
<1>1. CASE DriverEntry
  BY <1>1, EntrySteps
<1>2. CASE PtwCommandQueryCapabilities \/ PtwCommandTraceProcess
  BY <1>2, RequestSteps DEF Request
<1>3. CASE Interrupt \/ Trace \/ DriverUnload
  BY <1>3 DEF Interrupt, Trace, DriverUnload
<1> QED BY <1>1, <1>2, <1>3

\* The image-load callback makes its process the one the others react to.
LEMMA ImageLoadProcess ==
  ASSUME HookTypeOK, IptTypeOK, ProcessInv, failures' \in Nat, failures' >= failures, failures \in Nat,
         NEW p \in Procs, ImageLoad(p)
  PROVE  ProcessInv'
<1>1. /\ setups > 0 /\ setups' = setups /\ threadPc' = threadPc /\ gProcessId' = p
      /\ procState[p] = "none" /\ procState'[p] = "loaded"
      /\ \A q \in Procs : q # p => procState'[q] = procState[q]
      /\ raced' = (raced \/ \E q \in Procs : procState[q] = "loaded")
  BY DEF ImageLoad, Callback, requestVars, HookTypeOK
<1>2. \A q \in Procs : procState'[q] # "none" => setups' > 0
  BY <1>1
<1>3. \A q \in Procs, t \in Threads : threadPc'[q][t] \in Busy => procState'[q] = "loaded"
  BY <1>1 DEF ProcessInv
<1>4. ~raced' => \A q \in Procs : procState'[q] = "loaded" => gProcessId' = q
  BY <1>1
<1>5. failures' = 0 => exitHook'
  <2>1. AllocationFails => failures' # 0
    BY FailTyped DEF AllocationFails, IptTypeOK
  <2> QED BY <2>1 DEF ImageLoad
<1> QED BY <1>2, <1>3, <1>4, <1>5 DEF ProcessInv

\* The exit callback forgets the process that ends.
LEMMA ExitProcess ==
  ASSUME HookTypeOK, ProcessInv, failures' \in Nat, failures' >= failures, failures \in Nat,
         NEW p \in Procs, ExitIgnored(p) \/ PtwHookProcessExit(p)
  PROVE  ProcessInv'
<1>1. /\ procState[p] = "loaded" /\ procState'[p] = "gone"
      /\ \A q \in Procs : q # p => procState'[q] = procState[q]
      /\ \A t \in Threads : threadPc[p][t] \notin Busy
      /\ UNCHANGED <<threadPc, exitHook, setups>> /\ (raced => raced')
      /\ gProcessId' = gProcessId \/ gProcessId = p
  BY DEF ExitIgnored, PtwHookProcessExit, Exits, Callback, requestVars, HookTypeOK, Busy
<1>2. \A q \in Procs : procState'[q] # "none" => setups' > 0
  BY <1>1 DEF ProcessInv
<1>3. \A q \in Procs, t \in Threads : threadPc'[q][t] \in Busy => procState'[q] = "loaded"
  BY <1>1 DEF ProcessInv
<1>4. ~raced' => \A q \in Procs : procState'[q] = "loaded" => gProcessId' = q
  BY <1>1 DEF ProcessInv
<1>5. failures' = 0 => \A q \in Procs : procState'[q] = "loaded" => exitHook'
  BY <1>1 DEF ProcessInv
<1> QED BY <1>2, <1>3, <1>4, <1>5 DEF ProcessInv

\* Threads are created while their process is loaded.
LEMMA ThreadProcess ==
  ASSUME HookTypeOK, ProcessInv, failures' \in Nat, failures' >= failures, failures \in Nat,
         NEW p \in Procs, NEW t \in Threads, PtwHookThreadCreation(p, t)
  PROVE  ProcessInv'
<1>1. PICK from, to \in {"none", "claim", "install", "setup", "done"} :
           ThreadGoto(p, t, from, to) /\ (from = "none" => procState[p] = "loaded")
           /\ from \in {"none", "claim", "install", "setup"}
  BY DEF PtwHookThreadCreation, ThreadTest, ThreadClaim, InstallPmiHandler, PtwSetup
<1>2. /\ threadPc[p][t] = from
      /\ \A q \in Procs, u \in Threads : q # p \/ u # t => threadPc'[q][u] = threadPc[q][u]
  BY <1>1, ThreadMoves
<1>3. procState[p] = "loaded"
  BY <1>1, <1>2 DEF ProcessInv, Busy
<1>4. UNCHANGED <<procState, gProcessId, exitHook, setups>> /\ (raced => raced')
  <2>1. raced => raced'
    BY DEF PtwHookThreadCreation, ThreadTest, ThreadClaim, InstallPmiHandler, PtwSetup
  <2>2. UNCHANGED <<procState, gProcessId, exitHook>>
    BY DEF PtwHookThreadCreation, ThreadTest, ThreadClaim, InstallPmiHandler, PtwSetup
  <2>3. setups' = setups
    BY <1>1 DEF ThreadGoto, Callback, requestVars
  <2> QED BY <2>1, <2>2, <2>3
<1>5. \A q \in Procs, u \in Threads : threadPc'[q][u] \in Busy => procState'[q] = "loaded"
  BY <1>2, <1>3, <1>4 DEF ProcessInv
<1> QED BY <1>4, <1>5 DEF ProcessInv

\* Every step keeps ProcessInv.
LEMMA ProcessStep ==
  ASSUME DriverInv, Next
  PROVE  ProcessInv'
<1>1. IptTypeOK /\ HookTypeOK /\ RequestTypeOK /\ ProcessInv
  BY TypeParts DEF DriverInv
<1>2. setups' >= setups /\ setups \in Nat
      /\ failures \in Nat /\ failures' \in Nat /\ failures' >= failures
  BY NothingTakenBack
<1>3. setups' \in Nat
  <2>1. setups' \in 0..MaxSetups
    BY NextTyped, TypePartsBack DEF RequestTypeOK
  <2> QED BY <2>1
<1>4. CASE UNCHANGED hookVars
  BY <1>1, <1>2, <1>3, <1>4, SameProcesses
<1>5. CASE \E p \in Procs : ImageLoad(p) \/ ExitIgnored(p) \/ PtwHookProcessExit(p)
  BY <1>1, <1>2, <1>5, ImageLoadProcess, ExitProcess
<1>6. CASE \E p \in Procs, t \in Threads : PtwHookThreadCreation(p, t)
  BY <1>1, <1>2, <1>6, ThreadProcess
<1> QED BY <1>1, <1>4, <1>5, <1>6, HooksKept DEF Next

-----------------------------------------------------------------------------
(* The trace.                                                              *)

\* Steps that start no trace keep ClaimInv and TraceInv.
LEMMA SameTrace ==
  ASSUME ClaimInv, TraceInv, Running, UNCHANGED <<hookVars, config, hardware>>, Traced' => Traced,
         queryFirst => queryFirst',
         failures \in Nat, failures' \in Nat, failures' >= failures
  PROVE  ClaimInv' /\ TraceInv'
<1>1. ClaimInv'
  BY DEF ClaimInv, hookVars
<1>2. ASSUME failures' = 0, ~raced'
      PROVE  TraceInv'
  <2>1. failures = 0 /\ ~raced
    BY <1>2 DEF hookVars
  <2> QED BY <2>1 DEF TraceInv, hookVars, Running
<1> QED BY <1>1, <1>2 DEF TraceInv

\* No process is loaded, so no thread is in its callback and, unless a call
\* failed, nothing is traced.
LEMMA ImageLoadTrace ==
  ASSUME HookTypeOK, IptTypeOK, ProcessInv, ClaimInv, TraceInv,
         failures \in Nat, failures' \in Nat, failures' >= failures,
         NEW p \in Procs, ImageLoad(p)
  PROVE  ClaimInv' /\ TraceInv'
<1>1. SUFFICES ASSUME ~raced'
               PROVE  ClaimInv' /\ TraceInv'
  BY DEF ClaimInv, TraceInv
<1>2. ~raced /\ (\A q \in Procs : procState[q] # "loaded") /\ UNCHANGED <<threadPc, gThreadHoodked>>
  BY <1>1 DEF ImageLoad
<1>3. Traced' <=> Traced
  <2>1. UNCHANGED hwVars
    BY DEF ImageLoad, iptVars, AllocationFails
  <2> QED BY <2>1 DEF Traced, hwVars
<1>4. \A q \in Procs, t \in Threads : threadPc'[q][t] \notin Setting
  BY <1>2 DEF ProcessInv, Busy, Setting
<1>5. failures' = 0 => ~Traced'
  BY <1>2, <1>3 DEF TraceInv
<1>6. ClaimInv'
  BY <1>2, <1>3, <1>4 DEF ClaimInv
<1> QED BY <1>4, <1>5, <1>6 DEF TraceInv, Setting

\* The exit callback comes for the process that is traced, whose threads are
\* done: with no ToPA PMI pending and no IptDpc queued, nothing is left of the
\* trace.  An exit that is ignored, after a failed call, leaves it on.
LEMMA ExitTrace ==
  ASSUME HookTypeOK, IptTypeOK, OutputInv, ProcessInv, ClaimInv, TraceInv,
         failures \in Nat, failures' \in Nat, failures' >= failures,
         NEW p \in Procs, ExitIgnored(p) \/ PtwHookProcessExit(p)
  PROVE  ClaimInv' /\ TraceInv'
<1>1. SUFFICES ASSUME ~raced'
               PROVE  ClaimInv' /\ TraceInv'
  BY DEF ClaimInv, TraceInv
<1>2. procState[p] = "loaded" /\ (raced => raced') /\ UNCHANGED threadPc
      /\ \A t \in Threads : threadPc[p][t] \in {"none", "done"}
  <2>1. raced => raced'
    BY DEF ExitIgnored, PtwHookProcessExit
  <2> QED BY <2>1 DEF ExitIgnored, PtwHookProcessExit, Exits
<1>3. ~raced /\ gProcessId = p
  BY <1>1, <1>2 DEF ProcessInv
<1>5. \A q \in Procs, t \in Threads : threadPc'[q][t] \notin Setting
  BY <1>2, <1>3 DEF ProcessInv, Busy, Setting
<1>6. CASE PtwHookProcessExit(p)
  <2>1. ~topaPmi /\ ~(dpcs > 0) /\ PtwDpcPerCoreDisable
    BY <1>1, <1>6 DEF PtwHookProcessExit
  <2>2. UNCHANGED <<topaPmi, dpcs>>
    BY <2>1 DEF PtwDpcPerCoreDisable, hwVars
  <2>3. traceEn => hardware.available /\ options.set
    BY DEF IptTypeOK, OutputInv
  <2>4. ~traceEn'
    BY <2>1, <2>3 DEF PtwDpcPerCoreDisable, hwVars
  <2>5. ~Traced'
    BY <2>1, <2>2, <2>4 DEF Traced
  <2> QED BY <1>5, <2>5 DEF ClaimInv, TraceInv, Setting
<1>7. CASE ExitIgnored(p)
  <2>1. UNCHANGED <<gThreadHoodked, hwVars, failures>> /\ ~exitHook
    BY <1>3, <1>7 DEF ExitIgnored, iptVars
  <2>2. Traced' <=> Traced
    BY <2>1 DEF Traced, hwVars
  <2>3. failures' # 0
    BY <1>2, <2>1 DEF ProcessInv
  <2> QED BY <1>3, <1>5, <2>1, <2>2, <2>3 DEF ClaimInv, TraceInv
<1> QED BY <1>6, <1>7

\* The first thread claims the trace and goes on alone.
LEMMA ClaimTrace ==
  ASSUME HookTypeOK, IptTypeOK, ProcessInv, ClaimInv, TraceInv,
         failures \in Nat, failures' \in Nat, failures' >= failures,
         NEW p \in Procs, NEW t \in Threads,
         ThreadTest(p, t) \/ ThreadClaim(p, t) \/ InstallPmiHandler(p, t)
  PROVE  ClaimInv' /\ TraceInv'
<1> USE DEF Setting
<1>1. SUFFICES ASSUME ~raced'
               PROVE  ClaimInv' /\ TraceInv'
  BY DEF ClaimInv, TraceInv
<1>2. PICK from, to \in {"none", "claim", "install", "setup", "done"} :
           ThreadGoto(p, t, from, to)
  BY DEF ThreadTest, ThreadClaim, InstallPmiHandler
<1>3. /\ threadPc[p][t] = from /\ threadPc'[p][t] = to /\ Callback
      /\ \A q \in Procs, u \in Threads : q # p \/ u # t => threadPc'[q][u] = threadPc[q][u]
  BY <1>2, ThreadMoves
<1>4. ~raced /\ UNCHANGED <<procState, gProcessId, queryFirst>> /\ (failures' = 0 => failures = 0)
  <2>1. ~raced /\ UNCHANGED <<procState, gProcessId>>
    <3>1. raced => raced'
      BY DEF ThreadTest, ThreadClaim, InstallPmiHandler
    <3> QED BY <1>1, <3>1 DEF ThreadTest, ThreadClaim, InstallPmiHandler
  <2> QED BY <1>3, <2>1 DEF Callback, requestVars
<1>5. (Traced' <=> Traced) /\ UNCHANGED <<config, hardware, fault>>
  <2>1. UNCHANGED <<hwVars, hardware, fault>>
    BY DEF ThreadTest, ThreadClaim, InstallPmiHandler, iptVars, AllocationFails, capVars
  <2> QED BY <2>1 DEF Traced, hwVars
<1>6. CASE ThreadTest(p, t)
  <2>1. \A q \in Procs, u \in Threads : threadPc'[q][u] \in Setting => threadPc'[q][u] = threadPc[q][u]
    BY <1>3, <1>6, ThreadMoves DEF ThreadTest
  <2>2. UNCHANGED <<gThreadHoodked, pmiHandler>>
    BY <1>6 DEF ThreadTest
  <2>3. ClaimInv'
    BY <1>4, <1>5, <2>1, <2>2 DEF ClaimInv
  <2>4. TraceInv'
    BY <1>4, <1>5, <2>1, <2>2 DEF TraceInv
  <2> QED BY <2>3, <2>4
<1>7. CASE ThreadClaim(p, t)
  <2>1. ~gThreadHoodked /\ gThreadHoodked' = TRUE /\ UNCHANGED pmiHandler
    BY <1>1, <1>7 DEF ThreadClaim
  <2>2. ~Traced /\ \A q \in Procs, u \in Threads : threadPc[q][u] \notin Setting
    BY <1>4, <2>1 DEF ClaimInv
  <2>3. to = "install"
    BY <1>3, <1>7, ThreadMoves DEF ThreadClaim
  <2>4. \A q \in Procs, u \in Threads :
          threadPc'[q][u] \in Setting => q = p /\ u = t /\ threadPc'[q][u] = "install"
    BY <1>3, <2>2, <2>3
  <2>5. ClaimInv'
    BY <1>5, <2>1, <2>2, <2>4 DEF ClaimInv
  <2>6. TraceInv'
    BY <1>5, <2>2, <2>4 DEF TraceInv
  <2> QED BY <2>5, <2>6
<1>8. CASE InstallPmiHandler(p, t)
  <2>1. from = "install" /\ UNCHANGED gThreadHoodked
    BY <1>3, <1>8, ThreadMoves DEF InstallPmiHandler
  <2>2. failures' = 0 => pmiHandler'
    <3>1. AllocationFails => failures' # 0
      BY FailTyped DEF AllocationFails, IptTypeOK
    <3> QED BY <1>8, <3>1 DEF InstallPmiHandler
  <2>3. \A q \in Procs, u \in Threads : threadPc'[q][u] \in Setting => threadPc[q][u] \in Setting
    BY <1>3, <2>1
  <2>4. ClaimInv'
    BY <1>4, <1>5, <2>1, <2>3 DEF ClaimInv
  <2>5. TraceInv'
    BY <1>4, <1>5, <2>2 DEF TraceInv
  <2> QED BY <2>4, <2>5
<1> QED BY <1>6, <1>7, <1>8

\* The one thread that sets the trace up does it for the traced process, as
\* the real capabilities let it.
LEMMA SetupTrace ==
  ASSUME TypeOK, OutputInv, CapabilitiesInv, ProcessInv, ClaimInv, TraceInv,
         NEW p \in Procs, NEW t \in Threads, PtwSetup(p, t)
  PROVE  ClaimInv' /\ TraceInv'
<1> USE DEF Setting
<1>0. IptTypeOK /\ HookTypeOK
  BY TypeParts
<1>1. SUFFICES ASSUME ~raced'
               PROVE  ClaimInv' /\ TraceInv'
  BY DEF ClaimInv, TraceInv
<1>2. /\ threadPc[p][t] = "setup" /\ threadPc'[p][t] = "done" /\ Callback
      /\ \A q \in Procs, u \in Threads : q # p \/ u # t => threadPc'[q][u] = threadPc[q][u]
  BY <1>0, ThreadMoves DEF PtwSetup
<1>3. /\ PtwIpiPerCoreSetup(p)
      /\ UNCHANGED <<procState, gProcessId, gThreadHoodked, threadHooks, exitHook, pmiHandler, raced>>
  BY DEF PtwSetup
<1>4. UNCHANGED <<hardware, failures, queryFirst, entry>> /\ ~raced
  BY <1>1, <1>2, <1>3 DEF PtwIpiPerCoreSetup, Callback, requestVars
<1>5. procState[p] = "loaded" /\ gProcessId = p
      /\ \A q \in Procs : procState[q] = "loaded" => q = p
  BY <1>2, <1>4 DEF ProcessInv, Busy
<1>6. gThreadHoodked /\ \A u \in Threads : threadPc[p][u] \in Setting => u = t
  BY <1>2, <1>4 DEF ClaimInv
<1>7. \A q \in Procs, u \in Threads : threadPc'[q][u] \notin Setting
  <2>1. \A q \in Procs, u \in Threads : threadPc[q][u] \in Setting => q = p /\ u = t
    BY <1>5, <1>6 DEF ProcessInv, Busy
  <2> QED BY <1>2, <2>1
<1>8. ASSUME fault' = "none", ~queryFirst', hardware'.filters, failures' = 0
      PROVE  config' = gProcessId'
  <2>1. options.set /\ hardware.available
    BY <1>8 DEF PtwSetup, PtwIpiPerCoreSetup, Fault
  <2>2. entry = "loaded"
    BY <1>2, <2>1 DEF OutputInv, Callback, Served, Unprepared
  <2>3. gPtCapabilities = "real"
    BY <1>4, <1>8, <2>1, <2>2 DEF CapabilitiesInv, CapabilitiesAreReal
  <2>4. \A accepted \in IptValidateConfigurationRequest : accepted
    BY <1>4, <1>8, <2>3 DEF IptValidateConfigurationRequest, Believed
  <2>5. config' = p
    BY <1>3, <1>8, <2>4 DEF PtwIpiPerCoreSetup, IptConfigureProcessorTrace, Fault
  <2> QED BY <1>3, <1>5, <2>5
<1>9. failures' = 0 => pmiHandler' /\ procState'[p] = "loaded"
  BY <1>2, <1>3, <1>4, <1>5 DEF TraceInv
<1>10. ClaimInv'
  BY <1>3, <1>6, <1>7 DEF ClaimInv
<1>11. TraceInv'
  BY <1>7, <1>8, <1>9 DEF TraceInv
<1> QED BY <1>10, <1>11

\* Every step keeps ClaimInv and TraceInv: one thread passes the test of
\* gThreadHoodked unless two race, and the exit ends what it has set up.
LEMMA TraceStep ==
  ASSUME DriverInv, Next
  PROVE  ClaimInv' /\ TraceInv'
<1>1. /\ TypeOK /\ IptTypeOK /\ HookTypeOK /\ RequestTypeOK
      /\ OutputInv /\ CapabilitiesInv /\ ProcessInv /\ ClaimInv /\ TraceInv
  BY TypeParts DEF DriverInv
<1>2. Running /\ hardware' = hardware /\ (queryFirst => queryFirst')
      /\ failures \in Nat /\ failures' \in Nat /\ failures' >= failures
  BY NothingTakenBack
<1>3. CASE DriverEntry \/ PtwCommandQueryCapabilities \/ PtwCommandTraceProcess \/ DriverUnload
  <2>1. UNCHANGED hookVars
    BY <1>1, <1>3, HooksKept
  <2>2. UNCHANGED hwVars
    <3>1. Quiet => UNCHANGED hwVars
      BY DEF Quiet
    <3>2. PtwIpiPerCoreInit => UNCHANGED hwVars
      BY DEF PtwIpiPerCoreInit, IptInitPerCore
    <3>3. DriverUnload => UNCHANGED hwVars
      BY DEF DriverUnload
    <3> QED BY <1>1, <1>3, <3>1, <3>2, <3>3, EntrySteps, RequestSteps DEF EntryEffect
  <2>3. (Traced' <=> Traced) /\ UNCHANGED config
    BY <2>2 DEF hwVars, Traced
  <2> QED BY <1>1, <1>2, <2>1, <2>3, SameTrace
<1>4. CASE Interrupt \/ Trace
  <2>1. UNCHANGED hookVars
    BY <1>1, <1>4, HooksKept
  <2>2. UNCHANGED config
    BY <1>4 DEF Interrupt, Trace, PmiForeign, PmiPause, PmiForeignReset, DpcRefused, IptDpc, FillRegion
  <2>3. Traced' => Traced
    <3>1. CASE PmiForeign \/ PmiPause
      BY <3>1 DEF PmiForeign, PmiPause, Traced
    <3>2. CASE PmiForeignReset
      BY <3>2 DEF PmiForeignReset, Traced
    <3>3. CASE DpcRefused \/ IptDpc
      BY <3>3 DEF DpcRefused, IptDpc, Traced
    <3>4. CASE FillRegion
      BY <3>4 DEF FillRegion, Traced
    <3> QED BY <1>4, <3>1, <3>2, <3>3, <3>4 DEF Interrupt, Trace
  <2> QED BY <1>1, <1>2, <2>1, <2>2, <2>3, SameTrace
<1>5. CASE \E p \in Procs : ImageLoad(p) \/ ExitIgnored(p) \/ PtwHookProcessExit(p)
  BY <1>1, <1>2, <1>5, ImageLoadTrace, ExitTrace
<1>6. CASE \E p \in Procs, t \in Threads : PtwHookThreadCreation(p, t)
  BY <1>1, <1>2, <1>6, ClaimTrace, SetupTrace DEF PtwHookThreadCreation
<1> QED BY <1>3, <1>4, <1>5, <1>6 DEF Next

-----------------------------------------------------------------------------
(* What the hardware fills.                                                *)

\* Steps that leave the regions alone keep FillInv.
LEMMA SameFill ==
  ASSUME FillInv, UNCHANGED <<region, unread, waiting, overwritten, reused>>,
         queryFirst => queryFirst',
         failures \in Nat, failures' \in Nat, failures' >= failures
  PROVE  FillInv'
  BY DEF FillInv

\* The table is walked from the first region to the INT entry's and on, which
\* is reported as soon as it is full.
LEMMA TraceFill ==
  ASSUME IptTypeOK, OutputInv, FillInv, Trace
  PROVE  FillInv'
<1> USE SizeOfTable
<1>1. Running /\ FillRegion /\ UNCHANGED <<queryFirst, failures, reused>>
  BY DEF Trace, FillRegion, requestVars
<1>2. SUFFICES ASSUME waiting' # TooMany, ~reused', failures' = 0, ~queryFirst'
               PROVE  FillInv'
  BY DEF FillInv
<1>3. /\ options.entries = Entries /\ region \in 1..Entries
      /\ topaTable[region].INT <=> region + 1 = Entries
      /\ region' = IF region = Entries THEN 1 ELSE region + 1
  <2>1. options.entries = Entries
    BY <1>1, <1>2, Walk DEF OutputInv
  <2> QED BY <1>1, <2>1, Walk
<1>4. /\ waiting' = IF waiting > 0 \/ region + 1 = Entries
                      THEN IF waiting < TooMany THEN waiting + 1 ELSE waiting
                      ELSE 0
      /\ overwritten' = (overwritten \/ region \in unread)
      /\ unread' = unread \cup {region}
  <2>1. topaTable[region].INT <=> region + 1 = Entries
    BY <1>3
  <2> QED BY <1>1, <2>1 DEF FillRegion
<1>5. waiting # TooMany
  BY <1>2, <1>4 DEF TooMany
<1>6. /\ ~overwritten
      /\ \/ (waiting = 0 /\ region < Entries /\ unread = 1..(region - 1))
         \/ (waiting = 1 /\ region = Entries /\ unread = 1..(Entries - 1))
         \/ (waiting = 2 /\ region = 1 /\ unread = 1..Entries)
  BY <1>1, <1>2, <1>5 DEF FillInv
<1>7. CASE waiting = 0
  <2>1. region \notin unread /\ unread' = 1..region /\ region' = region + 1
    BY <1>3, <1>4, <1>6, <1>7
  <2>2. ~overwritten'
    BY <1>4, <1>6, <2>1
  <2>3. CASE region + 1 = Entries
    <3>1. waiting' = 1 /\ region' = Entries /\ unread' = 1..(Entries - 1)
      BY <1>3, <1>4, <1>7, <2>1, <2>3 DEF TooMany
    <3> QED BY <2>2, <3>1 DEF FillInv
  <2>4. CASE region + 1 # Entries
    <3>1. waiting' = 0 /\ region' < Entries /\ unread' = 1..(region' - 1)
      BY <1>3, <1>4, <1>6, <1>7, <2>1, <2>4
    <3> QED BY <2>2, <3>1 DEF FillInv
  <2> QED BY <2>3, <2>4
<1>8. CASE waiting = 1
  <2>1. region \notin unread /\ unread' = 1..Entries /\ region' = 1 /\ waiting' = 2
    BY <1>3, <1>4, <1>6, <1>8 DEF TooMany
  <2>2. ~overwritten'
    BY <1>4, <1>6, <2>1
  <2> QED BY <2>1, <2>2 DEF FillInv
<1>9. waiting # 2
  BY <1>2, <1>4 DEF TooMany
<1> QED BY <1>6, <1>7, <1>8, <1>9

\* A trace that starts in a buffer without one starts at its first region.
LEMMA SetupFill ==
  ASSUME IptTypeOK, FillInv, Callback, NEW p \in Procs, PtwIpiPerCoreSetup(p)
  PROVE  FillInv'
<1>1. UNCHANGED <<failures, queryFirst>>
  BY DEF PtwIpiPerCoreSetup, Callback, requestVars
<1>2. CASE UNCHANGED hwVars
  BY <1>1, <1>2 DEF FillInv, hwVars
<1>3. CASE /\ reused' = (reused \/ unread # {}) /\ region' \in {1, region}
           /\ UNCHANGED <<unread, waiting, overwritten>>
  <2>1. SUFFICES ASSUME waiting' # TooMany, ~reused', failures' = 0, ~queryFirst'
                 PROVE  FillInv'
    BY DEF FillInv
  <2>2. ~reused /\ unread = {}
    BY <1>3, <2>1
  <2>3. /\ ~overwritten
        /\ \/ (waiting = 0 /\ region < Entries /\ unread = 1..(region - 1))
           \/ (waiting = 1 /\ region = Entries /\ unread = 1..(Entries - 1))
           \/ (waiting = 2 /\ region = 1 /\ unread = 1..Entries)
    BY <1>1, <1>3, <2>1, <2>2 DEF FillInv
  <2>4. 1 \in 1..(Entries - 1) /\ 1 \in 1..Entries
    BY SizeOfTable
  <2>5. region \in Nat /\ (region # 1 => 1 \in 1..(region - 1))
    BY SizeOfTable DEF IptTypeOK, Entries
  <2>6. waiting = 0 /\ region = 1
    BY <2>2, <2>3, <2>4, <2>5
  <2>7. ~overwritten' /\ waiting' = 0 /\ region' = 1 /\ unread' = {} /\ 1..(1 - 1) = {}
    BY <1>3, <2>2, <2>3, <2>6
  <2> QED BY <2>7, SizeOfTable DEF FillInv
<1> QED BY <1>2, <1>3 DEF PtwIpiPerCoreSetup, IptConfigureProcessorTrace

\* Serving the interrupt starts the table anew.
LEMMA InterruptFill ==
  ASSUME IptTypeOK, FillInv, failures \in Nat, failures' \in Nat, failures' >= failures, Interrupt
  PROVE  FillInv'
<1>1. UNCHANGED queryFirst
  BY DEF Interrupt, requestVars
<1>2. CASE PmiForeign \/ PmiPause \/ PmiForeignReset \/ DpcRefused
  <2>1. UNCHANGED <<region, unread, waiting, overwritten, reused>>
    BY <1>2 DEF PmiForeign, PmiPause, PmiForeignReset, DpcRefused
  <2> QED BY <1>1, <2>1, SameFill
<1>3. CASE IptDpc
  <2>1. SUFFICES ASSUME waiting' # TooMany, ~reused', failures' = 0, ~queryFirst'
                 PROVE  FillInv'
    BY DEF FillInv
  <2>2. ~Fail
    BY <2>1, FailTyped DEF IptTypeOK
  <2>3. /\ region' = 1 /\ unread' = {} /\ UNCHANGED <<overwritten, reused>>
        /\ waiting' = IF waiting = TooMany THEN TooMany ELSE 0
    BY <1>3, <2>2 DEF IptDpc, LinkNewBuffer, IptResumeTrace
  <2>4. waiting' = 0 /\ waiting # TooMany
    BY <2>1, <2>3
  <2>5. failures = 0
    BY <2>1
  <2>6. ~overwritten
    BY <1>1, <2>1, <2>3, <2>4, <2>5 DEF FillInv
  <2>7. 1..(1 - 1) = {}
    OBVIOUS
  <2> QED BY <2>3, <2>4, <2>6, <2>7, SizeOfTable DEF FillInv
<1> QED BY <1>2, <1>3 DEF Interrupt

\* Every step keeps FillInv.
LEMMA FillStep ==
  ASSUME DriverInv, Next
  PROVE  FillInv'
<1>1. IptTypeOK /\ RequestTypeOK /\ OutputInv /\ FillInv
  BY TypeParts DEF DriverInv
<1>2. (queryFirst => queryFirst') /\ failures \in Nat /\ failures' \in Nat /\ failures' >= failures
  BY NothingTakenBack
<1>3. CASE UNCHANGED <<region, unread, waiting, overwritten, reused>>
  BY <1>1, <1>2, <1>3, SameFill
<1>4. Quiet => UNCHANGED <<region, unread, waiting, overwritten, reused>>
  BY DEF Quiet, hwVars
<1>5. CASE DriverEntry
  <2>1. PtwIpiPerCoreInit => UNCHANGED <<region, unread, waiting, overwritten, reused>>
    BY DEF PtwIpiPerCoreInit, IptInitPerCore, hwVars
  <2> QED BY <1>1, <1>3, <1>4, <1>5, <2>1, EntrySteps DEF EntryEffect
<1>6. CASE PtwCommandQueryCapabilities \/ PtwCommandTraceProcess
  BY <1>1, <1>3, <1>4, <1>6, RequestSteps
<1>7. ASSUME NEW p \in Procs,
             \/ ImageLoad(p) \/ ExitIgnored(p) \/ PtwHookProcessExit(p)
             \/ \E t \in Threads : PtwHookThreadCreation(p, t)
      PROVE  FillInv'
  <2>1. Callback /\ CallbackEffect(p)
    BY <1>7, CallbackSteps
  <2>2. CASE UNCHANGED iptVars \/ AllocationFails
    BY <1>1, <1>3, <1>4, <2>2, StutterQuiet, AllocationFailsQuiet
  <2>3. CASE PtwDpcPerCoreDisable
    <3>1. UNCHANGED <<region, unread, waiting, overwritten, reused>>
      BY <2>3 DEF PtwDpcPerCoreDisable, hwVars
    <3> QED BY <1>3, <3>1
  <2> QED BY <1>1, <2>1, <2>2, <2>3, SetupFill DEF CallbackEffect
<1>8. CASE DriverUnload
  BY <1>3, <1>8 DEF DriverUnload, hwVars
<1> QED BY <1>1, <1>2, <1>5, <1>6, <1>7, <1>8, TraceFill, InterruptFill DEF Next

-----------------------------------------------------------------------------
(* Faults.                                                                 *)

\* A processor that can do what the driver asks for has Intel PT and ToPA.
LEMMA FullProcessor ==
  ASSUME IptTypeOK, hardware.multiple
  PROVE  hardware.available /\ hardware.topa
  BY OutputRegistersAssumption DEF IptTypeOK, Kind

\* In the callback of a traced process, with nothing to blame, the output
\* structure is a ToPA table.
LEMMA CallbackOutput ==
  ASSUME DriverInv, Callback, NEW p \in Procs, procState[p] = "loaded",
         failures = 0, ~queryFirst, hardware.multiple, ~(Unprepared /\ setups > 0)
  PROVE  options.output = "topa" /\ options.set /\ hardware.available
<1>1. IptTypeOK /\ OutputInv /\ CapabilitiesInv /\ ProcessInv
  BY TypeParts DEF DriverInv
<1>2. setups > 0
  BY <1>1 DEF ProcessInv
<1>3. entry = "loaded"
  BY <1>2 DEF Callback, Served
<1>4. options.output = "topa"
  BY <1>1, <1>3 DEF CapabilitiesInv
<1> QED BY <1>1, <1>4, FullProcessor DEF OutputInv, Unset, IptTypeOK

\* DriverEntry breaks the machine only for a cause.
LEMMA EntryFault ==
  ASSUME DriverInv, DriverEntry
  PROVE  FaultNeedsCause'
<1>1. IptTypeOK
  BY TypeParts DEF DriverInv
<1>2. CASE PtwIpiPerCoreInit
  <2>1. Running /\ IptInitPerCore
    BY <1>2 DEF PtwIpiPerCoreInit, EntryStep
  <2>2. hardware' = hardware /\ (fault' # "none" => ~hardware.available)
    BY <2>1 DEF IptInitPerCore, capVars, Running
  <2> QED BY <1>1, <2>2, FullProcessor DEF FaultNeedsCause
<1>3. CASE EntryEffect
  <2>1. fault' # "none" => fault' = "deviceInit" /\ failures' > 0
    BY <1>3 DEF EntryEffect
  <2> QED BY <2>1 DEF FaultNeedsCause
<1> QED BY <1>1, <1>2, <1>3, EntrySteps

\* A QUERY finds the capabilities gone only where there is no Intel PT.
LEMMA RequestFault ==
  ASSUME DriverInv, PtwCommandQueryCapabilities \/ PtwCommandTraceProcess
  PROVE  FaultNeedsCause'
<1>1. IptTypeOK /\ CapabilitiesInv
  BY TypeParts DEF DriverInv
<1>2. CASE QueryCopy
  <2>1. Running /\ query = "copy" /\ UNCHANGED <<hardware, queryFirst>>
    BY <1>2 DEF QueryCopy, Request, CopyCapabilities, capVars
  <2>2. fault' # "none" => gPtCapabilities \in {"null", "freed"}
    BY <1>2, <2>1 DEF QueryCopy, CopyCapabilities, Running
  <2>3. fault' # "none" => queryFirst \/ ~hardware.available
    BY <1>1, <2>1, <2>2 DEF CapabilitiesInv
  <2> QED BY <1>1, <2>1, <2>3, FullProcessor DEF FaultNeedsCause
<1>3. CASE QueryTest \/ QueryAllocate \/ PtwCommandTraceProcess
  <2>1. fault' = "none"
    BY <1>3 DEF QueryTest, QueryAllocate, PtwCommandTraceProcess, Request, Running, iptVars,
                AllocateCapabilities, AllocationFails
  <2> QED BY <2>1 DEF FaultNeedsCause
<1> QED BY <1>2, <1>3 DEF PtwCommandQueryCapabilities

\* The registers are written by the one thread of the traced process that sets
\* the trace up while none is on.
LEMMA SetupFault ==
  ASSUME DriverInv, NEW p \in Procs, NEW t \in Threads, PtwSetup(p, t)
  PROVE  FaultNeedsCause'
<1>1. IptTypeOK /\ HookTypeOK /\ OutputInv /\ ProcessInv /\ ClaimInv
  BY TypeParts DEF DriverInv
<1>2. /\ Callback /\ Running /\ PtwIpiPerCoreSetup(p) /\ threadPc[p][t] = "setup"
      /\ UNCHANGED <<hardware, failures, raced, queryFirst, entry, setups>>
  BY DEF PtwSetup, ThreadGoto, PtwIpiPerCoreSetup, Callback, requestVars
<1>3. Unprepared' <=> Unprepared
  BY <1>2 DEF Unprepared
<1>4. ASSUME ~raced, ~queryFirst, hardware.multiple, hardware.filters, ~(Unprepared /\ setups > 0)
      PROVE  fault' = "none" \/ (fault' = "options" /\ failures > 0)
  <2>1. procState[p] = "loaded"
    BY <1>1, <1>2 DEF ProcessInv, Busy
  <2>2. hardware.available /\ hardware.topa
    BY <1>1, <1>4, FullProcessor
  <2>3. ~traceEn
    BY <1>1, <1>2, <1>4 DEF ClaimInv, Traced, Setting
  <2>4. ~ConfigureFaults
    BY <1>4, <2>2, <2>3 DEF ConfigureFaults
  <2>5. CASE options.set
    <3>1. options.output = "topa"
      BY <1>1, <1>4, <2>5 DEF OutputInv
    <3> QED BY <1>2, <2>2, <2>4, <2>5, <3>1 DEF PtwIpiPerCoreSetup, Running
  <2>6. CASE ~options.set
    <3>1. failures # 0
      BY <1>2, <1>4, <2>1, <2>6, CallbackOutput
    <3>2. failures > 0
      BY <1>1, <3>1 DEF IptTypeOK
    <3> QED BY <1>2, <2>2, <2>4, <2>6, <3>2 DEF PtwIpiPerCoreSetup, Fault
  <2> QED BY <2>5, <2>6
<1> QED BY <1>2, <1>3, <1>4 DEF FaultNeedsCause

\* So does the exit callback.
LEMMA ExitFault ==
  ASSUME DriverInv, NEW p \in Procs, PtwHookProcessExit(p)
  PROVE  FaultNeedsCause'
<1>1. IptTypeOK
  BY TypeParts DEF DriverInv
<1>2. /\ Callback /\ Running /\ PtwDpcPerCoreDisable /\ procState[p] = "loaded"
      /\ UNCHANGED <<hardware, failures, queryFirst, entry, setups>>
  BY DEF PtwHookProcessExit, Exits, PtwDpcPerCoreDisable, Callback, requestVars, capVars
<1>3. Unprepared' <=> Unprepared
  BY <1>2 DEF Unprepared
<1>4. ASSUME ~queryFirst, hardware.multiple, ~(Unprepared /\ setups > 0)
      PROVE  fault' = "none" \/ (fault' = "options" /\ failures > 0)
  <2>1. hardware.available
    BY <1>1, <1>4, FullProcessor
  <2>2. CASE options.set
    BY <1>2, <2>1, <2>2 DEF PtwDpcPerCoreDisable, Running
  <2>3. CASE ~options.set
    <3>1. failures # 0
      BY <1>2, <1>4, <2>3, CallbackOutput
    <3>2. failures > 0
      BY <1>1, <3>1 DEF IptTypeOK
    <3> QED BY <1>2, <2>1, <2>3, <3>2 DEF PtwDpcPerCoreDisable, Fault
  <2> QED BY <2>2, <2>3
<1> QED BY <1>2, <1>3, <1>4 DEF FaultNeedsCause

\* Every step breaks the machine only for a cause.
LEMMA FaultStep ==
  ASSUME DriverInv, Next
  PROVE  FaultNeedsCause'
<1>1. IptTypeOK
  BY TypeParts DEF DriverInv
<1>2. CASE fault' = "none"
  BY <1>2 DEF FaultNeedsCause
<1>3. Running
  BY NothingTakenBack
<1>4. ASSUME NEW p \in Procs, ImageLoad(p) \/ ExitIgnored(p)
      PROVE  fault' = "none"
  BY <1>3, <1>4 DEF ImageLoad, ExitIgnored, Running, iptVars, AllocationFails
<1>5. ASSUME NEW p \in Procs, NEW t \in Threads,
             ThreadTest(p, t) \/ ThreadClaim(p, t) \/ InstallPmiHandler(p, t)
      PROVE  fault' = "none"
  BY <1>3, <1>5 DEF ThreadTest, ThreadClaim, InstallPmiHandler, Running, iptVars, AllocationFails
<1>6. CASE Interrupt \/ Trace
  <2>1. fault' = "none"
    BY <1>3, <1>6 DEF Interrupt, Trace, PmiForeign, PmiPause, PmiForeignReset, DpcRefused, IptDpc,
                      FillRegion, Running
  <2> QED BY <1>2, <2>1
<1>7. CASE DriverUnload
  <2>1. fault' # "none" => entry' = "unloaded" /\ (setups' > 0 \/ fault' = "breakpoint")
    BY <1>3, <1>7 DEF DriverUnload, requestVars, Running, Fault
  <2> QED BY <2>1 DEF FaultNeedsCause
<1> QED BY <1>2, <1>4, <1>5, <1>6, <1>7, EntryFault, RequestFault, SetupFault, ExitFault
        DEF Next, PtwHookThreadCreation

-----------------------------------------------------------------------------
(* The invariant of the driver.                                            *)

\* The driver before DriverEntry.
LEMMA DriverInit ==
  ASSUME Init
  PROVE  DriverInv
<1> USE SizeOfTable
<1>1. IptTypeOK
  <2>1. 0 \in 0..MaxFailures /\ 0 \in 0..TooMany /\ 0 \in 0..MaxDpcs
    BY OutputRegistersAssumption DEF TooMany
  <2>2. 1 \in 1..(Entries + 1)
    OBVIOUS
  <2>3. Len(<<>>) = 0
    OBVIOUS
  <2>4. /\ options = Unset /\ topaTable = <<>> /\ traceEn = FALSE /\ region = 1 /\ unread = {}
        /\ waiting = 0 /\ failures = 0 /\ fault = "none" /\ hardware \in HardwareKinds
        /\ gPtCapabilities = "null" /\ config = NoProc
        /\ topaPmi = FALSE /\ foreignPmi = FALSE /\ dpcs = 0
        /\ overwritten = FALSE /\ reused = FALSE
    BY DEF Init, IptInitial
  <2>5. options \in [set : BOOLEAN, output : {"none", "topa", "page"}, entries : Nat,
                     status : {"garbage", "INITIALIZED", "DISABLED", "PAUSED", "ENABLED"}]
        /\ options.output # "topa"
    BY <2>4 DEF Unset
  <2>6. Len(topaTable) = IF options.output = "topa" THEN options.entries + 1 ELSE 0
    BY <2>3, <2>4, <2>5
  <2>7. region \in 1..(Entries + 1) /\ unread \subseteq 1..options.entries
    BY <2>2, <2>4
  <2>8. waiting \in 0..TooMany /\ failures \in 0..MaxFailures /\ dpcs \in 0..MaxDpcs
    BY <2>1, <2>4
  <2> QED BY <2>4, <2>5, <2>6, <2>7, <2>8 DEF IptTypeOK, Entries
<1>2. TypeOK
  <2>1. 0 \in 0..MaxSetups
    BY LifecycleAssumption
  <2>2. EntryTypeOK /\ RequestTypeOK
    BY <2>1 DEF Init, EntryTypeOK, EntryLabels, FailingCalls, RequestTypeOK
  <2>3. HookTypeOK
    BY DEF Init, HookTypeOK
  <2> QED BY <1>1, <2>2, <2>3, TypeParts
<1>3. OutputInv
  BY DEF Init, IptInitial, OutputInv, Unset
<1>4. CapabilitiesInv
  BY DEF Init, IptInitial, CapabilitiesInv, CapabilitiesAreReal
<1>5. ProcessInv
  BY DEF Init, ProcessInv, Busy
<1>6. ClaimInv /\ TraceInv
  BY DEF Init, IptInitial, ClaimInv, TraceInv, Traced, Setting
<1>7. FillInv
  <2>1. 1..(1 - 1) = {}
    OBVIOUS
  <2> QED BY <2>1 DEF Init, IptInitial, FillInv
<1>8. FaultNeedsCause
  BY DEF Init, IptInitial, FaultNeedsCause
<1> QED BY <1>2, <1>3, <1>4, <1>5, <1>6, <1>7, <1>8 DEF DriverInv

\* Nothing changes when no variable does.
LEMMA DriverStutter ==
  ASSUME DriverInv, UNCHANGED vars
  PROVE  DriverInv'
<1> USE DEF vars, iptVars, capVars, hwVars, hookVars, requestVars
<1>1. TypeOK'
  <2>1. IptTypeOK'
    <3>1. IptTypeOK
      BY DEF DriverInv, TypeOK
    <3>2. Quiet /\ UNCHANGED <<gPtCapabilities, failures, fault>>
      BY DEF Quiet
    <3> QED BY <3>1, <3>2, QuietTyped DEF IptTypeOK
  <2>2. EntryTypeOK' /\ HookTypeOK' /\ RequestTypeOK'
    BY TypeParts DEF DriverInv, EntryTypeOK, HookTypeOK, RequestTypeOK
  <2> QED BY <2>1, <2>2, TypePartsNext
<1>2. OutputInv'
  BY DEF DriverInv, OutputInv
<1>3. CapabilitiesInv'
  BY DEF DriverInv, CapabilitiesInv, CapabilitiesAreReal
<1>4. ProcessInv'
  BY DEF DriverInv, ProcessInv
<1>5. ClaimInv' /\ TraceInv'
  BY DEF DriverInv, ClaimInv, TraceInv, Traced
<1>6. FillInv'
  BY DEF DriverInv, FillInv
<1>7. FaultNeedsCause'
  BY DEF DriverInv, FaultNeedsCause, Unprepared
<1> QED BY <1>1, <1>2, <1>3, <1>4, <1>5, <1>6, <1>7 DEF DriverInv

\* The inductive invariant: what is known of the types, the capabilities, the
\* output structure, the processes, the trace and the regions it has filled.
THEOREM DriverInvariant == Spec => []DriverInv
<1>1. Init => DriverInv
  BY DriverInit
<1>2. DriverInv /\ [Next]_vars => DriverInv'
  <2>1. ASSUME DriverInv, Next
        PROVE  DriverInv'
    BY <2>1, NextTyped, OutputStep, CapabilitiesStep, ProcessStep, TraceStep, FillStep, FaultStep
       DEF DriverInv
  <2> QED BY <2>1, DriverStutter
<1> QED BY <1>1, <1>2, PTL DEF Spec

\* The types, and that the ToPA table the hardware walks has the entries that
\* OutputOptions says, with the trace enabled only where a structure is set.
THEOREM TypeCorrect == Spec => []TypeOK
<1>1. DriverInv => TypeOK
  BY DEF DriverInv
<1> QED BY <1>1, DriverInvariant, PTL

\* Once DriverEntry is through, gPtCapabilities holds what CPUID says, unless
\* IptGetCapabilities has allocated it before IptInit could fill it.
THEOREM CapabilitiesReal == Spec => []CapabilitiesAreReal
<1>1. DriverInv => CapabilitiesAreReal
  BY DEF DriverInv, CapabilitiesInv
<1> QED BY <1>1, DriverInvariant, PTL

\* A trace that is on has its PMI handler installed: PtwHookProcessExit removes
\* the handler only with the trace, unless a ToPA interrupt or an IptDpc that is
\* still queued turns it on again.
THEOREM TraceServed == Spec => []TraceIsServed
<1>1. DriverInv => TraceIsServed
  BY DEF DriverInv, TraceInv, Traced, TraceIsServed
<1> QED BY <1>1, DriverInvariant, PTL

\* A trace that is on filters for gProcessId where the processor has the filters.
\* Where it has none, IptSetup refuses the configuration, PtwIpiPerCoreSetup goes
\* on all the same, and the trace is on without one.
THEOREM TracesProcess == Spec => []TracesTheProcess
<1>1. DriverInv => TracesTheProcess
  <2>1. ASSUME DriverInv, hardware.filters
        PROVE  TracesTheProcess
    BY <2>1 DEF DriverInv, TraceInv, Traced, TracesTheProcess
  <2>2. ASSUME DriverInv, ~hardware.filters
        PROVE  TracesTheProcess
    BY <2>2 DEF DriverInv, OutputInv, TracesTheProcess
  <2> QED BY <2>1, <2>2
<1> QED BY <1>1, DriverInvariant, PTL

\* However many regions the ToPA table has, the INT entry in the last but one
\* leaves a region of time: nothing is overwritten before the hardware has
\* filled that one and the next without being served.
THEOREM OverwriteCaused == Spec => []OverwriteNeedsCause
<1>1. DriverInv => OverwriteNeedsCause
  <2>1. TypeOK => failures \in Nat
    <3>1. TypeOK => failures \in 0..MaxFailures
      BY DEF TypeOK, IptTypeOK
    <3> QED BY <3>1
  <2> QED BY <2>1 DEF DriverInv, FillInv, OverwriteNeedsCause
<1> QED BY <1>1, DriverInvariant, PTL

\* On any processor, for any number of processes, threads, failing calls and
\* queued IptDpcs, the driver breaks the machine only for one of the reasons
\* listed; a failing call is one only for two of the ways it can break.
THEOREM FaultCaused == Spec => []FaultNeedsCause
<1>1. DriverInv => FaultNeedsCause
  BY DEF DriverInv
<1> QED BY <1>1, DriverInvariant, PTL
=============================================================================
