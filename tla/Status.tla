-------------------------------- MODULE Status --------------------------------
(***************************************************************************)
(* bosun status, which shows the journal of deferred actions and clears    *)
(* entries of it, beside a bosun apply that replays, retries and parks the *)
(* same entries: status takes no lock. A directory is read as a list of    *)
(* names, and each file is read, renamed or removed on its own.            *)
(***************************************************************************)
EXTENDS Naturals, FiniteSets

CONSTANTS
  EntryIds,        \* ids of deferred actions
  MaxStEvents      \* bound: what the apply does meanwhile

ASSUME StatusAssumption == MaxStEvents \in Nat

VARIABLES
  stFiles,    \* the files of the journal, by id and extension
  stCorrupt,  \* those that no reader can parse
  stArgs,     \* StatusArgs
  stPc,
  stNames,    \* the names that read_dir returned and that are not visited yet
  stFile,     \* the file that clear_one is about to remove, as a set
  stShown,    \* StatusEntry: id and state
  stExit,
  stHeld,     \* history: the ids with a file at every moment of the listing
  stOld,      \* history: the files there were when the clearing began
  stRemoved,  \* history: the files that this command removed
  stEvents

stVars == <<stFiles, stCorrupt, stArgs, stPc, stNames, stFile, stShown, stExit, stHeld, stOld, stRemoved, stEvents>>

DEFERRED_EXT == "deferred"
MANUAL_CLEAR_EXT == "manual_clear"
JournalFiles == EntryIds \X {DEFERRED_EXT, MANUAL_CLEAR_EXT}
\* --clear takes an id, which stands for both files of it, or the name of a
\* file.
StatusArgs ==
  [clear : {{}} \cup {{id} \X {DEFERRED_EXT, MANUAL_CLEAR_EXT} : id \in EntryIds} \cup {{f} : f \in JournalFiles},
   clear_all_manual : BOOLEAN]
StatusEntry == EntryIds \X {"pending", "manual_clear"}

\* The exit codes of status.
StOk == 0
StManualClearPresent == 1
StEnvError == 4

StTypeOK ==
  /\ stFiles \subseteq JournalFiles /\ stCorrupt \subseteq JournalFiles /\ stArgs \in StatusArgs
  /\ stPc \in {"open", "clear", "remove", "clear_all", "list_pending", "pending", "list_manual", "manual", "print", "done"}
  /\ stNames \subseteq JournalFiles /\ stFile \subseteq JournalFiles /\ stShown \subseteq StatusEntry
  /\ stExit \in {StOk, StManualClearPresent, StEnvError} /\ stEvents \in 0..MaxStEvents

StInit ==
  /\ stFiles \in SUBSET JournalFiles /\ stCorrupt \in {{}} \cup {{f} : f \in stFiles} /\ stArgs \in StatusArgs
  /\ stPc = "open" /\ stNames = {} /\ stFile = {} /\ stShown = {} /\ stExit = StOk
  /\ stHeld = {} /\ stOld = {} /\ stRemoved = {} /\ stEvents = 0

StHistory == <<stHeld, stOld, stRemoved>>
StJournal == <<stFiles, stCorrupt>>
IdsOf(files) == {f[1] : f \in files}
StEnd(code) == stPc' = "done" /\ stExit' = code

-----------------------------------------------------------------------------
(* run *)

\* Journal::open; then the clearing, if it is asked for.
StOpen ==
  /\ stPc = "open" /\ UNCHANGED <<StJournal, stArgs, stFile, stShown, stHeld, stRemoved, stEvents>>
  /\ stOld' = stFiles
  /\ \/ stPc' = (IF stArgs.clear # {} THEN "clear" ELSE IF stArgs.clear_all_manual THEN "clear_all" ELSE "list_pending")
        /\ stNames' = stFiles /\ UNCHANGED stExit
     \/ StEnd(StEnvError) /\ UNCHANGED stNames

StGone(f) == f \notin stFiles
Matches(f) == f \in stArgs.clear
IsName == Cardinality(stArgs.clear) = 1

\* clear_one: the files in the order of the directory. A name is enough; for an
\* id the file is read, which may be gone by now.
ClearOneVisit(f) ==
  /\ stPc = "clear" /\ f \in stNames /\ stNames' = stNames \ {f}
  /\ IF Matches(f) /\ (IsName \/ (~StGone(f) /\ f \notin stCorrupt)) THEN stPc' = "remove" /\ stFile' = {f} ELSE UNCHANGED <<stPc, stFile>>
  /\ UNCHANGED <<StJournal, stArgs, stShown, stExit, StHistory, stEvents>>
ClearOneNone ==
  /\ stPc = "clear" /\ stNames = {} /\ StEnd(StEnvError)
  /\ UNCHANGED <<StJournal, stArgs, stNames, stFile, stShown, StHistory, stEvents>>
\* remove_file of the one that was found, which fails if it is gone.
ClearOneRemove ==
  /\ stPc = "remove"
  /\ IF stFile \subseteq stFiles
     THEN /\ stFiles' = stFiles \ stFile /\ stRemoved' = stRemoved \cup stFile
          /\ IF stArgs.clear_all_manual THEN stPc' = "clear_all" /\ stNames' = stFiles'
             ELSE stPc' = "list_pending" /\ stNames' = {}
          /\ UNCHANGED stExit
     ELSE StEnd(StEnvError) /\ UNCHANGED <<stFiles, stRemoved, stNames>>
  /\ stFile' = {}
  /\ UNCHANGED <<stCorrupt, stArgs, stShown, stHeld, stOld, stEvents>>

\* clear_all_manual: a file that is gone is none of its business.
ClearAllVisit(f) ==
  /\ stPc = "clear_all" /\ f \in stNames /\ stNames' = stNames \ {f}
  /\ IF f[2] = MANUAL_CLEAR_EXT /\ ~StGone(f)
     THEN stFiles' = stFiles \ {f} /\ stRemoved' = stRemoved \cup {f}
     ELSE UNCHANGED <<stFiles, stRemoved>>
  /\ UNCHANGED <<stCorrupt, stArgs, stPc, stFile, stShown, stExit, stHeld, stOld, stEvents>>
ClearAllEnd ==
  /\ stPc = "clear_all" /\ stNames = {} /\ stPc' = "list_pending"
  /\ UNCHANGED <<StJournal, stArgs, stNames, stFile, stShown, stExit, StHistory, stEvents>>

Named(ext) == {f \in stFiles : f[2] = ext}

\* Mutant: the parked entries are listed first.
ListOrder_ManualFirst == <<[pc |-> "list_pending", reads |-> "pending", ext |-> MANUAL_CLEAR_EXT, then |-> "list_manual"],
                           [pc |-> "list_manual", reads |-> "manual", ext |-> DEFERRED_EXT, then |-> "print"]>>

\* The pending entries, then the parked ones.
ListOrder == <<[pc |-> "list_pending", reads |-> "pending", ext |-> DEFERRED_EXT, then |-> "list_manual"],
               [pc |-> "list_manual", reads |-> "manual", ext |-> MANUAL_CLEAR_EXT, then |-> "print"]>>
StateName(ext) == IF ext = DEFERRED_EXT THEN "pending" ELSE "manual_clear"

\* read_dir of list_sorted, or of list_manual_clear; it may fail.
StReadDir(l) ==
  /\ stPc = l.pc /\ UNCHANGED <<StJournal, stArgs, stFile, stShown, stOld, stRemoved, stEvents>>
  /\ stHeld' = IF l.pc = "list_pending" THEN IdsOf(stFiles \ stCorrupt) ELSE stHeld
  /\ \/ stPc' = l.reads /\ stNames' = Named(l.ext) /\ UNCHANGED stExit
     \/ StEnd(StEnvError) /\ UNCHANGED stNames
\* A file that is gone or corrupt is passed over.
ReadOne(l, f) ==
  /\ stPc = l.reads /\ f \in stNames /\ stNames' = stNames \ {f}
  /\ stShown' = IF StGone(f) \/ f \in stCorrupt THEN stShown ELSE stShown \cup {<<f[1], StateName(l.ext)>>}
  /\ UNCHANGED <<StJournal, stArgs, stPc, stFile, stExit, StHistory, stEvents>>
ReadEnd(l) ==
  /\ stPc = l.reads /\ stNames = {} /\ stPc' = l.then
  /\ UNCHANGED <<StJournal, stArgs, stNames, stFile, stShown, stExit, StHistory, stEvents>>

\* A file or a directory cannot be read, removed or flushed.
StIoFails ==
  /\ stPc \in {"clear", "remove", "clear_all", "pending", "manual"} /\ StEnd(StEnvError)
  /\ stNames' = {} /\ stFile' = {} /\ stShown' = {}
  /\ UNCHANGED <<StJournal, stArgs, StHistory, stEvents>>

\* print_text, print_json, and the exit code.
StPrint ==
  /\ stPc = "print"
  /\ StEnd(IF \E e \in stShown : e[2] = "manual_clear" THEN StManualClearPresent ELSE StOk)
  /\ UNCHANGED <<StJournal, stArgs, stNames, stFile, stShown, StHistory, stEvents>>

-----------------------------------------------------------------------------
(* The apply, at the same time *)

StWorld(files, corrupt) ==
  /\ stPc # "done" /\ stEvents < MaxStEvents /\ stEvents' = stEvents + 1
  /\ stFiles' = files /\ stCorrupt' = corrupt
  /\ stHeld' = stHeld \cap IdsOf(files \ corrupt)
  /\ UNCHANGED <<stArgs, stPc, stNames, stFile, stShown, stExit, stOld, stRemoved>>
\* enqueue, and the rename of bump_attempt, also of an entry that was cleared.
WorldWrites(id) == StWorld(stFiles \cup {<<id, DEFERRED_EXT>>}, stCorrupt \ {<<id, DEFERRED_EXT>>})
WorldRemoves(id) ==
  <<id, DEFERRED_EXT>> \in stFiles \ stCorrupt /\ StWorld(stFiles \ {<<id, DEFERRED_EXT>>}, stCorrupt)
\* move_to_manual_clear: a rename, over the file of an earlier one.
WorldParks(id) ==
  /\ <<id, DEFERRED_EXT>> \in stFiles \ stCorrupt
  /\ StWorld((stFiles \ {<<id, DEFERRED_EXT>>}) \cup {<<id, MANUAL_CLEAR_EXT>>}, stCorrupt \ {<<id, MANUAL_CLEAR_EXT>>})

StStep ==
  \/ StOpen \/ ClearOneNone \/ ClearOneRemove \/ ClearAllEnd \/ StIoFails \/ StPrint
  \/ \E f \in JournalFiles : ClearOneVisit(f) \/ ClearAllVisit(f)
  \/ \E i \in 1..2 : StReadDir(ListOrder[i]) \/ ReadEnd(ListOrder[i]) \/ \E f \in JournalFiles : ReadOne(ListOrder[i], f)
StNext == StStep \/ \E id \in EntryIds : WorldWrites(id) \/ WorldRemoves(id) \/ WorldParks(id)
StSpec == StInit /\ [][StNext]_stVars

-----------------------------------------------------------------------------
(* Properties *)

\* No entry slips through the listing: what has a file at every moment of it,
\* be it parked meanwhile, is shown, and the exit code tells whether anything
\* is shown that waits for the operator.
ListingWhole ==
  stPc = "done" /\ stExit # StEnvError =>
    /\ stHeld \subseteq IdsOf(stShown)
    /\ stExit = StManualClearPresent <=> \E e \in stShown : e[2] = "manual_clear"

\* The clearing takes what it was asked to take, and nothing else: one file of
\* the id, and every parked file that was there when it began and that the
\* apply did not replace or that nobody took.
ClearExact ==
  /\ \A f \in stRemoved : Matches(f) \/ (stArgs.clear_all_manual /\ f[2] = MANUAL_CLEAR_EXT)
  /\ stPc = "done" /\ stExit # StEnvError =>
       /\ stArgs.clear # {} => stArgs.clear \cap stRemoved # {}
       /\ stArgs.clear_all_manual => \A f \in stOld : f[2] = MANUAL_CLEAR_EXT /\ ~StGone(f) => f \in stRemoved

\* Both.
StatusHonest == ListingWhole /\ ClearExact
=============================================================================
