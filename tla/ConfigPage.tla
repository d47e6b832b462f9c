------------------------------ MODULE ConfigPage ------------------------------
(***************************************************************************)
(* The configuration page and the process it restarts (internal/configui,  *)
(* internal/platecheck/config.go, main.go run): the page submits printers  *)
(* and plate-check settings, keeps the secrets it never shows, replaces    *)
(* the file and has the process start again from it.                       *)
(*                                                                         *)
(* A file is absent, unreadable, or printers and plate-check settings.     *)
(* Ports, listeners and the other sections are left out: a submission that *)
(* fails their checks changes nothing, and a port that is taken at start   *)
(* is a failure that may happen at any start.                              *)
(***************************************************************************)
EXTENDS Configuration

CONSTANTS
  PrinterForms,  \* bound: the printer lists submitted, each with the stored printer a row was
  PlateForms,    \* bound: the plate-check settings submitted
  HandFiles      \* bound: the files written by hand

ASSUME PageAssumption ==
  /\ \A rows \in PrinterForms : DOMAIN rows = 1 .. Len(rows) /\ Len(rows) \in Nat
  /\ \A form \in PlateForms : DOMAIN form = {"on", "to", "key"}
  /\ \A f \in HandFiles :
       /\ f.kind \in {"absent", "unreadable", "file"}
       /\ DOMAIN f.printers = 1 .. Len(f.printers) /\ Len(f.printers) \in Nat

VARIABLES
  file,    \* the configuration file
  byHand,  \* it was last written by hand
  put,     \* a submission has replaced the file and not signalled yet
  saved,   \* Store.saved holds a signal
  proc,    \* the process: starting, serving, set-up page only, stopping, ended
  fresh,   \* the process runs what the file says
  typed,   \* history: the secrets entered, each for its destination
  probed,  \* the secret and destination of the last provider test
  tested   \* the printer that a connection test is under way with

pageVars == <<file, byHand, put, saved, proc, fresh, typed, probed, tested>>

NoFile == [kind |-> "absent", printers |-> <<>>, plate |-> [on |-> FALSE, to |-> Blank, key |-> Blank]]
Unreadable == [NoFile EXCEPT !.kind = "unreadable"]
File(ps, plate) == [kind |-> "file", printers |-> ps, plate |-> plate]
NoSecret == [secret |-> Blank, to |-> Blank]
NoTest == [serial |-> Blank, to |-> Blank]
Secret(code, to) == [secret |-> code, to |-> to]

(* The secrets a file holds, and where the process would send them.        *)
Secrets(f) ==
  {Secret(f.printers[i].code, WithDefaultPrinterPort(f.printers[i].address)) : i \in DOMAIN f.printers}
    \cup {Secret(f.plate.key, f.plate.to)}
Held(f) == {s \in Secrets(f) : s.secret # Blank}

Valid(f) == Validate(f.printers) /\ (f.plate.on => Blank \notin {f.plate.to, f.plate.key})

PageTypes ==
  /\ file.kind \in {"absent", "unreadable", "file"} /\ {byHand, put, saved, fresh} \subseteq BOOLEAN
  /\ proc \in {"starting", "serving", "setup", "stopping", "ended"}
  /\ \A s \in typed \cup {probed} : DOMAIN s = {"secret", "to"}
  /\ DOMAIN tested = {"serial", "to"}

PageInit ==
  /\ file = NoFile /\ byHand = FALSE /\ put = FALSE /\ saved = FALSE
  /\ proc = "starting" /\ fresh = FALSE /\ typed = {} /\ probed = NoSecret /\ tested = NoTest
-----------------------------------------------------------------------------
(* resolveConfig, run and serve: a file that cannot be read ends the       *)
(* process; one that fails a check, has no printers or cannot be served    *)
(* leaves the page, if its port can be had.                                *)
Start ==
  /\ proc = "starting" /\ fresh' = TRUE
  /\ proc' \in IF file.kind = "unreadable" THEN {"ended"}
               ELSE IF Valid(file) /\ file.printers # <<>> THEN {"serving", "setup", "ended"}
               ELSE {"setup", "ended"}
  /\ UNCHANGED <<file, byHand, put, saved, typed, probed, tested>>

Answering == proc \in {"serving", "setup", "stopping"}

(* The stored printer a row was edited from.                               *)
Stored(serial) ==
  LET own == {i \in DOMAIN file.printers : file.printers[i].serial = serial}
  IN  IF own = {} THEN [serial |-> Blank, alias |-> Blank, address |-> Blank, code |-> Blank]
      ELSE file.printers[CHOOSE i \in own : \A j \in own : j <= i]

\* Mutant: the code is kept whatever the address.
KeepsCodeOfSerial(row) == row.code = Blank /\ Stored(row.previous).code # Blank

(* View.toConfig: a blank code keeps the stored one at the same address.   *)
KeepsCode(row) ==
  /\ row.code = Blank /\ Stored(row.previous).code # Blank
  /\ WithDefaultPrinterPort(Stored(row.previous).address) = WithDefaultPrinterPort(row.address)

ToPrinter(row) ==
  [serial |-> row.serial, alias |-> row.alias, address |-> row.address,
   code |-> IF KeepsCode(row) THEN Stored(row.previous).code ELSE row.code]
ToPrinters(rows) == [i \in DOMAIN rows |-> ToPrinter(rows[i])]

(* platecheck Save: a blank key keeps the stored one for its destination.  *)
ToPlate(form) ==
  [form EXCEPT !.key = IF form.key = Blank /\ form.to = file.plate.to THEN file.plate.key ELSE form.key]

Typed(rows, form) ==
  {s \in {Secret(rows[i].code, WithDefaultPrinterPort(rows[i].address)) : i \in DOMAIN rows}
           \cup {Secret(form.key, form.to)} : s.secret # Blank}

(* handlePut under Store.mu: what toConfig or a check refuses changes      *)
(* nothing, nor does a write that fails before its rename.                 *)
Put(rows, form) ==
  /\ Answering /\ ~put
  /\ LET new == File(ToPrinters(rows), ToPlate(form)) IN
       /\ Valid(new) /\ file' = new /\ fresh' = FALSE
  /\ byHand' = FALSE /\ put' = TRUE /\ typed' = typed \cup Typed(rows, form)
  /\ UNCHANGED <<saved, proc, probed, tested>>

(* The answer is flushed and the signal left in the channel.               *)
SignalSaved ==
  /\ put /\ put' = FALSE /\ saved' = TRUE
  /\ UNCHANGED <<file, byHand, proc, fresh, typed, probed, tested>>

(* handleSectionTest and resolveTestSettings, which take no lock.          *)
TestKey(form) == IF form.key = Blank /\ form.to = file.plate.to THEN file.plate.key ELSE form.key
Test(form) ==
  /\ Answering /\ Blank \notin {form.to, TestKey(form)}
  /\ probed' = Secret(TestKey(form), form.to)
  /\ typed' = typed \cup Typed(<<>>, form)
  /\ UNCHANGED <<file, byHand, put, saved, proc, fresh, tested>>

(* handlePrinterTest and effectivePrinters: a printer the file does not    *)
(* have yet; one connection, which may take ten seconds.                   *)
Owned(row) ==
  \E i \in DOMAIN file.printers :
    \/ row.serial = file.printers[i].serial
    \/ WithDefaultPrinterPort(row.address) = WithDefaultPrinterPort(file.printers[i].address)

TestPrinter(row) ==
  /\ Answering /\ tested = NoTest /\ file.kind # "unreadable"
  /\ Blank \notin {row.serial, row.address, row.code} /\ ~Owned(row)
  /\ tested' = [serial |-> row.serial, to |-> WithDefaultPrinterPort(row.address)]
  /\ UNCHANGED <<file, byHand, put, saved, proc, fresh, typed, probed>>

PrinterTested ==
  /\ tested # NoTest /\ tested' = NoTest
  /\ UNCHANGED <<file, byHand, put, saved, proc, fresh, typed, probed>>

Edit(f) ==
  /\ file' = f /\ byHand' = TRUE /\ fresh' = FALSE /\ typed' = typed \cup Held(f)
  /\ UNCHANGED <<put, saved, proc, probed, tested>>
-----------------------------------------------------------------------------
(* waitStop takes the signal; the process tears down while submissions     *)
(* under way still end, and executes itself, which ends them.              *)
TakeSignal ==
  /\ proc \in {"serving", "setup"} /\ saved
  /\ saved' = FALSE /\ proc' = "stopping"
  /\ UNCHANGED <<file, byHand, put, fresh, typed, probed, tested>>

Exec ==
  /\ proc = "stopping" /\ proc' = "starting"
  /\ put' = FALSE /\ saved' = FALSE /\ fresh' = FALSE /\ probed' = NoSecret /\ tested' = NoTest
  /\ UNCHANGED <<file, byHand, typed>>

(* A crash or a signal, after which the user starts the process again.     *)
Killed ==
  /\ proc' = "starting"
  /\ put' = FALSE /\ saved' = FALSE /\ fresh' = FALSE /\ probed' = NoSecret /\ tested' = NoTest
  /\ UNCHANGED <<file, byHand, typed>>

PageNext ==
  \/ Start \/ SignalSaved \/ TakeSignal \/ Exec \/ Killed
  \/ \E rows \in PrinterForms, form \in PlateForms : Put(rows, form)
  \/ \E form \in PlateForms : Test(form)
  \/ \E rows \in PrinterForms : TestPrinter(rows[1])
  \/ PrinterTested
  \/ \E f \in HandFiles : Edit(f)

PageSpec == PageInit /\ [][PageNext]_pageVars
-----------------------------------------------------------------------------
(* A secret is stored, and so used by the next start, or sent by a test,   *)
(* only for the destination it was entered for: no sequence of renamed,    *)
(* moved or swapped printers and changed providers carries it elsewhere    *)
(* (View.toConfig, ConfigSection.Save, resolveTestSettings).               *)
SecretsStayPut == Held(file) \cup ({probed} \ {NoSecret}) \subseteq typed

(* What the page saved is a file the process can start from.               *)
SavedIsValid == file.kind = "file" /\ ~byHand => Valid(file)

(* A process that runs on with another configuration than the one the page *)
(* saved is about to be told (handlePut, Saved, waitStop).                 *)
SavedIsServed == proc \in {"serving", "setup"} /\ ~fresh /\ ~byHand => put \/ saved

(* While the process serves what the file says, a connection test stays    *)
(* away from every printer it serves, however its address was entered      *)
(* (handlePrinterTest).  The test reads the file, so between a save that   *)
(* removes a printer and the restart nothing keeps it off that printer.    *)
TestsKeepOff ==
  proc = "serving" /\ fresh /\ tested # NoTest =>
    \A i \in DOMAIN file.printers :
      /\ file.printers[i].serial # tested.serial
      /\ WithDefaultPrinterPort(file.printers[i].address) # tested.to

PageKeeps == SecretsStayPut /\ SavedIsValid /\ SavedIsServed /\ TestsKeepOff
=============================================================================
