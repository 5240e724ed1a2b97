--------------------------- MODULE OutputRegisters ---------------------------
(***************************************************************************)
(* ProcessorTrace.c on one processor: what the driver believes the         *)
(* hardware can do, the output structure it builds from that, the          *)
(* configuration it writes, and the ToPA table the hardware walks.         *)
(*                                                                         *)
(* The hardware fills one region (a page) of the table at a time and wraps *)
(* at the END entry, which points back to the same table.  CoreTrace has   *)
(* the steps of the PMI handler and of IptDpc; here each is one step, and  *)
(* what matters is how much is written before it.                          *)
(***************************************************************************)
EXTENDS Naturals, Sequences

CONSTANTS Procs,         \* traced processes
          NoProc,        \* "no process"
          HardwareKinds, \* processors: what CPUID reports
          MaxDpcs,       \* bound on the IptDpcs queued at a time
          DEFAULT_NUMBER_OF_TOPA_ENTRIES,
          MaxFailures    \* bound on the calls that fail

Kind == [available : BOOLEAN, topa : BOOLEAN, multiple : BOOLEAN, filters : BOOLEAN]

ASSUME OutputRegistersAssumption ==
  /\ NoProc \notin Procs
  /\ HardwareKinds \subseteq
       {k \in Kind : (k.multiple => k.topa) /\ (k.topa \/ k.filters => k.available)}
  /\ DEFAULT_NUMBER_OF_TOPA_ENTRIES \in Nat \ {0, 1}
  /\ MaxDpcs \in Nat /\ MaxFailures \in Nat

VARIABLES
  hardware,         \* the processor's kind, never changes
  gPtCapabilities,  \* "null", "garbage" (allocated only), "real" or "freed"
  options,          \* OutputOptions: set, output, entries, status
  topaTable,        \* the INT and END bits of the entries
  traceEn,          \* IA32_RTIT_CTL.TraceEn
  config,           \* the process the configuration MSRs filter for
  region,           \* table offset: the region being filled
  unread,           \* regions of the linked buffer that were filled
  topaPmi,          \* IA32_PERF_GLOBAL_STATUS.TopaPMI
  foreignPmi,       \* the PMI handler saw no ToPA reason and will reset it
  dpcs,             \* IptDpcs queued
  waiting,          \* regions filled from the INT entry's on; TooMany stays
  overwritten,      \* history: a filled region was filled again
  reused,           \* history: a trace was set up in a buffer that holds one
  failures,         \* calls that failed so far
  fault             \* what the driver has broken, or "none"

capVars == <<hardware, gPtCapabilities>>
hwVars  == <<traceEn, config, region, unread, topaPmi, foreignPmi, dpcs, waiting, overwritten, reused>>
iptVars == <<capVars, options, topaTable, hwVars, failures, fault>>

Fail == failures < MaxFailures /\ failures' = failures + 1

Fault(f) == fault' = f

\* The INT entry's region, the one behind it and one that was full before.
TooMany == 3

\* OutputOptions of a pool allocation nobody has written to.
Unset == [set |-> FALSE, output |-> "none", entries |-> 0, status |-> "garbage"]

IptInitial ==
  /\ hardware \in HardwareKinds
  /\ gPtCapabilities = "null"
  /\ options = Unset
  /\ topaTable = <<>>
  /\ traceEn = FALSE /\ config = NoProc
  /\ region = 1 /\ unread = {}
  /\ topaPmi = FALSE /\ foreignPmi = FALSE /\ dpcs = 0 /\ waiting = 0
  /\ overwritten = FALSE /\ reused = FALSE
  /\ failures = 0 /\ fault = "none"

\* What a capability bit may read as.
Believed(bit) == IF gPtCapabilities = "real" THEN {hardware[bit]} ELSE BOOLEAN

-----------------------------------------------------------------------------
(* gPtCapabilities: IptInit fills it, IptGetCapabilities allocates it where  *)
(* it finds none and returns what is in it.                                *)

AllocateCapabilities ==
  /\ gPtCapabilities' = "garbage"
  /\ UNCHANGED <<hardware, options, topaTable, hwVars, failures, fault>>

AllocationFails == Fail /\ UNCHANGED <<capVars, options, topaTable, hwVars, fault>>

IptQueryCapabilities ==
  /\ hardware.available
  /\ gPtCapabilities' = "real"
  /\ UNCHANGED <<hardware, options, topaTable, hwVars, failures, fault>>

\* Without Intel PT, IptInit frees the structure and then clears the pointer.
FreeCapabilities ==
  /\ gPtCapabilities' = "freed"
  /\ UNCHANGED <<hardware, options, topaTable, hwVars, failures, fault>>

ClearCapabilities ==
  /\ gPtCapabilities' = "null"
  /\ UNCHANGED <<hardware, options, topaTable, hwVars, failures, fault>>

CopyCapabilities ==
  /\ IF gPtCapabilities \in {"null", "freed"} THEN Fault("capabilities") ELSE UNCHANGED fault
  /\ UNCHANGED <<capVars, options, topaTable, hwVars, failures>>

-----------------------------------------------------------------------------
(* Output structures: IptInitPerCore and what it calls.                    *)

\* Faulty variant: no entry for the link back.
TopaTableWithoutLink(entries) ==
  [i \in 1..entries |-> [INT |-> i + 1 = entries, END |-> i = entries]]

\* Faulty variant: the last entry interrupts.
TopaTableIntLast(entries) ==
  [i \in 1..(entries + 1) |-> [INT |-> i = entries, END |-> i = entries + 1]]

\* IptAllocateNewTopaBuffer: the INT entry is the last but one, if there is
\* one, and the END entry links back to the table.
NewTopaTable(entries) ==
  [i \in 1..(entries + 1) |-> [INT |-> i + 1 = entries, END |-> i = entries + 1]]

\* TopaOutputEntries is read from the mask register (127 or more) where
\* multiple entries are supported and is 0 otherwise: too little even for the
\* one entry of the single-region table.
EnoughEntries == Believed("multiple")

IptInitTopaOutput ==
  \E multiple \in Believed("multiple"), enough \in EnoughEntries :
    LET entries == IF multiple THEN DEFAULT_NUMBER_OF_TOPA_ENTRIES ELSE 1 IN
    IF enough
      THEN /\ options' = [set |-> TRUE, output |-> "topa", entries |-> entries,
                          status |-> "INITIALIZED"]
           /\ topaTable' = NewTopaTable(entries)
      ELSE UNCHANGED <<options, topaTable>>

\* Without ToPA: one zeroed page, and no status.
IptInitSingleRegionOutput ==
  /\ options' = [set |-> TRUE, output |-> "page", entries |-> DEFAULT_NUMBER_OF_TOPA_ENTRIES,
                 status |-> "garbage"]
  /\ UNCHANGED topaTable

\* Reading an MSR of a processor without the feature faults.  Any allocation
\* can fail, and leaves OutputOptions unset.
IptInitPerCore ==
  /\ IF ~hardware.available
       THEN Fault("msr") /\ UNCHANGED <<options, topaTable, failures>>
       ELSE /\ UNCHANGED fault
            /\ \/ Fail /\ UNCHANGED <<options, topaTable>>
               \/ /\ \/ TRUE \in Believed("topa") /\ IptInitTopaOutput
                     \/ FALSE \in Believed("topa") /\ IptInitSingleRegionOutput
                  /\ UNCHANGED failures
  /\ UNCHANGED <<capVars, hwVars>>

-----------------------------------------------------------------------------
(* PtwIpiPerCoreSetup: IptSetup, whose failure is ignored, and             *)
(* IptEnableTrace.                                                         *)

\* Faulty variant: an option is refused where it is supported.
ValidateInverted == {~filters : filters \in Believed("filters")}

\* Validation lets every range pass: NumberOfRanges is 0 when there is one.
IptValidateConfigurationRequest == Believed("filters")

\* The registers fault where the bits are reserved or the trace is on.
ConfigureFaults == traceEn \/ ~hardware.filters \/ ~hardware.topa

\* The MSRs are set for the process, and the trace starts at the first region.
IptConfigureProcessorTrace(p) ==
  /\ config' = p
  /\ region' = 1

\* A configuration that is refused leaves the old one, and the trace goes on.
PtwIpiPerCoreSetup(p) ==
  /\ gPtCapabilities' = IF gPtCapabilities = "null" THEN "garbage" ELSE gPtCapabilities
  /\ \E accepted \in IptValidateConfigurationRequest :
       IF ~hardware.available \/ (accepted /\ ConfigureFaults)
         THEN Fault("msr") /\ UNCHANGED <<options, hwVars>>
       ELSE IF ~options.set
         THEN Fault("options") /\ UNCHANGED <<options, hwVars>>
       ELSE /\ traceEn' = TRUE
            /\ options' = [options EXCEPT !.status = "ENABLED"]
            /\ reused' = (reused \/ unread # {})
            /\ IF accepted THEN IptConfigureProcessorTrace(p) ELSE UNCHANGED <<config, region>>
            /\ IF accepted /\ options.output = "page" THEN Fault("wild") ELSE UNCHANGED fault
            /\ UNCHANGED <<unread, topaPmi, foreignPmi, dpcs, waiting, overwritten>>
  /\ UNCHANGED <<hardware, topaTable, failures>>

\* Faulty variant: TraceEn is not cleared.
DisableWithoutClear ==
  /\ IF ~hardware.available THEN Fault("msr") /\ UNCHANGED <<options, hwVars>>
     ELSE IF ~options.set THEN Fault("options") /\ UNCHANGED <<options, hwVars>>
     ELSE /\ options' = [options EXCEPT !.status = "DISABLED"]
          /\ UNCHANGED <<hwVars, fault>>
  /\ UNCHANGED <<capVars, topaTable, failures>>

\* IptDisableTrace in PtwDpcPerCoreDisable: the buffer goes out with the LAST
\* packet and stays linked.
PtwDpcPerCoreDisable ==
  /\ IF ~hardware.available THEN Fault("msr") /\ UNCHANGED <<options, hwVars>>
     ELSE IF ~options.set THEN Fault("options") /\ UNCHANGED <<options, hwVars>>
     ELSE /\ traceEn' = FALSE
          /\ options' = [options EXCEPT !.status = "DISABLED"]
          /\ UNCHANGED <<config, region, unread, topaPmi, foreignPmi, dpcs, waiting, overwritten,
                         reused, fault>>
  /\ UNCHANGED <<capVars, topaTable, failures>>

-----------------------------------------------------------------------------
(* The hardware, the PMI handler and IptDpc.                               *)

FillRegion ==
  /\ traceEn /\ config # NoProc
  /\ LET signal == topaTable[region].INT IN
     /\ waiting' = IF waiting > 0 \/ signal
                     THEN IF waiting < TooMany THEN waiting + 1 ELSE waiting
                     ELSE 0
     /\ topaPmi' = (topaPmi \/ signal)
  /\ overwritten' = (overwritten \/ region \in unread)
  /\ unread' = unread \cup {region}
  /\ region' = IF topaTable[region + 1].END THEN 1 ELSE region + 1
  /\ UNCHANGED <<capVars, options, topaTable, traceEn, config, foreignPmi, dpcs, reused,
                 failures, fault>>

\* A PMI of another source: the handler reads no ToPA reason ...
PmiForeign ==
  /\ ~topaPmi /\ ~foreignPmi
  /\ foreignPmi' = TRUE
  /\ UNCHANGED <<capVars, options, topaTable, traceEn, config, region, unread, topaPmi, dpcs,
                 waiting, overwritten, reused, failures, fault>>

\* ... and resets it: one that has come in between is erased.
PmiForeignReset ==
  /\ foreignPmi
  /\ foreignPmi' = FALSE /\ topaPmi' = FALSE
  /\ UNCHANGED <<capVars, options, topaTable, traceEn, config, region, unread, dpcs, waiting,
                 overwritten, reused, failures, fault>>

\* The ToPA reason, which stays set until an IptDpc resets it: each PMI until
\* then pauses the trace and queues another IptDpc.  Without a KDPC the trace
\* stays paused.
PmiPause ==
  /\ topaPmi /\ ~foreignPmi /\ dpcs < MaxDpcs
  /\ traceEn' = FALSE
  /\ options' = [options EXCEPT !.status = "PAUSED"]
  /\ \/ dpcs' = dpcs + 1 /\ UNCHANGED failures
     \/ Fail /\ UNCHANGED dpcs
  /\ UNCHANGED <<capVars, topaTable, config, region, unread, topaPmi, foreignPmi, waiting,
                 overwritten, reused, fault>>

\* IptUnlinkFullTopaBuffers refuses while the trace is marked as running.
DpcRefused ==
  /\ dpcs > 0 /\ options.status = "ENABLED"
  /\ dpcs' = dpcs - 1
  /\ UNCHANGED <<capVars, options, topaTable, traceEn, config, region, unread, topaPmi, foreignPmi,
                 waiting, overwritten, reused, failures, fault>>

LinkNewBuffer ==
  /\ unread' = {}
  /\ topaTable' = NewTopaTable(options.entries)

IptResumeTrace ==
  /\ topaPmi' = FALSE
  /\ waiting' = IF waiting = TooMany THEN TooMany ELSE 0
  /\ traceEn' = TRUE
  /\ options' = [options EXCEPT !.status = "ENABLED"]

\* The table is rewound, which is no fault: the trace is off (IptTypeOK).
\* Without memory it stays off, with the old buffer linked or a new one.  One
\* that was queued behind PtwDpcPerCoreDisable resumes the trace it ended.
IptDpc ==
  /\ dpcs > 0 /\ options.status # "ENABLED"
  /\ dpcs' = dpcs - 1
  /\ region' = 1
  /\ \/ LinkNewBuffer /\ IptResumeTrace /\ UNCHANGED failures
     \/ /\ LinkNewBuffer \/ UNCHANGED <<unread, topaTable>>
        /\ Fail /\ UNCHANGED <<topaPmi, waiting, traceEn, options>>
  /\ UNCHANGED <<capVars, config, foreignPmi, overwritten, reused, fault>>

IptTypeOK ==
  /\ hardware \in HardwareKinds
  /\ gPtCapabilities \in {"null", "garbage", "real", "freed"}
  /\ options \in [set : BOOLEAN, output : {"none", "topa", "page"}, entries : Nat,
                  status : {"garbage", "INITIALIZED", "DISABLED", "PAUSED", "ENABLED"}]
  /\ Len(topaTable) = IF options.output = "topa" THEN options.entries + 1 ELSE 0
  /\ traceEn \in BOOLEAN /\ config \in Procs \cup {NoProc}
  /\ region \in 1..(DEFAULT_NUMBER_OF_TOPA_ENTRIES + 1)
  /\ unread \subseteq 1..options.entries
  /\ traceEn => options.set /\ options.status = "ENABLED"
  /\ traceEn /\ config # NoProc => region <= options.entries
  /\ topaPmi \in BOOLEAN /\ foreignPmi \in BOOLEAN /\ dpcs \in 0..MaxDpcs
  /\ waiting \in 0..TooMany
  /\ overwritten \in BOOLEAN /\ reused \in BOOLEAN
  /\ failures \in 0..MaxFailures
  /\ fault \in {"none", "msr", "options", "wild", "capabilities", "deviceInit", "breakpoint",
                "unloaded"}
=============================================================================
