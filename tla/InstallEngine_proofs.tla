------------------------ MODULE InstallEngine_proofs ------------------------
(***************************************************************************)
(* Theorems about the install engine for any number of processes, runs and *)
(* hidden directories.  The invariant has three layers.  Base: the lock    *)
(* has one holder, which knows the directories it works with.  Standing:   *)
(* what is at the destination and aside at each step of a run.  Tidy and   *)
(* Spare: which backups there are, from which InstallSurvives follows.     *)
(***************************************************************************)
EXTENDS InstallEngine, WellFoundedInduction, TLAPS

Outside == {"idle", "waiting"}

\* Only the holder of the lock is past waiting for it.
Locked == \A p \in Proc : pc[p] \notin Outside => lock = p

\* A directory that was not made yet is not there.
Above == \A d \in Dirs : d > made => hidden[d] = Gone

\* The directories a process works with.
Hands(p) ==
  /\ \/ pc[p] \in Outside \cup {"sweeping", "recovering", "install", "uninstall"}
     \/ pc[p] = "discarding" /\ outcome[p] = "none"
     => stage[p] = None /\ aside[p] = None /\ outcome[p] = "none"
  /\ pc[p] \in {"packaging", "checking", "displacing", "replacing"} =>
       stage[p] \in Dirs /\ hidden[stage[p]].kind = "staging"
  /\ pc[p] \in {"packaging", "checking"} => aside[p] = None
  /\ pc[p] \in {"replaced", "cleaning"} => stage[p] \in Dirs /\ stage[p] # aside[p] /\ hidden[stage[p]].kind \in {"staging", "gone"}
  /\ pc[p] \in {"displacing", "restoring"} => aside[p] \in Dirs
  /\ pc[p] \in {"displacing", "replacing", "replaced", "cleaning", "restoring"} /\ aside[p] # None =>
       aside[p] = made /\ hidden[aside[p]].kind = "backup"
  /\ pc[p] \in {"removing", "removed", "undoing"} => aside[p] \in Dirs /\ hidden[aside[p]].kind = "removing"
  /\ pc[p] = "discarding" => doomed[p] \in Dirs /\ hidden[doomed[p]].kind \in {"backup", "removing"}
  /\ pc[p] = "recovering" \/ (pc[p] = "discarding" /\ outcome[p] = "none") => todo[p] \subseteq Backups
  /\ pc[p] = "discarding" /\ outcome[p] = "none" => doomed[p] \notin todo[p]
  /\ pc[p] \in {"cleaning", "restoring"} => outcome[p] \in {"failed", "interrupted"}
  /\ pc[p] = "undoing" => outcome[p] \in {"failed", "interrupted"}
  /\ pc[p] = "finishing" => outcome[p] # "none"

\* The old install is where the run found it, or it was moved aside; or the
\* new one is in place.
Unmoved(p) == dest = before[p] /\ (aside[p] # None => hidden[aside[p]].holds = Absent)
Moved(p)   == dest = Absent /\ aside[p] # None /\ hidden[aside[p]].holds = before[p] /\ Owned(before[p])
InPlace(p) == stage[p] # None /\ dest = Whole(stage[p])

\* What a run that nobody meddles with knows of the destination.
Stands(p) ==
  /\ pc[p] \in {"install", "uninstall", "packaging", "checking"} => dest = before[p]
  /\ pc[p] \in {"checking", "displacing", "replacing"} => hidden[stage[p]].holds = Whole(stage[p])
  /\ pc[p] \in {"displacing", "removing"} => Unmoved(p) /\ Owned(dest)
  /\ pc[p] = "replacing" => dest = Absent /\ (Moved(p) \/ (Unmoved(p) /\ aside[p] = None))
  /\ pc[p] = "replaced" => InPlace(p)
  /\ pc[p] \in {"cleaning", "restoring"} => Unmoved(p) \/ Moved(p) \/ (outcome[p] = "interrupted" /\ InPlace(p))
  /\ pc[p] = "removed" => Moved(p)
  /\ pc[p] = "undoing" => Moved(p) \/ Unmoved(p)
  /\ pc[p] = "discarding" =>
       /\ hidden[doomed[p]].kind = "removing" \/ hidden[doomed[p]].holds = Absent \/ Owned(dest)
       /\ outcome[p] = "none" => Owned(dest)
       /\ outcome[p] = "failed" => dest = before[p]
       /\ outcome[p] = "interrupted" => dest = before[p] \/ InPlace(p)
  /\ pc[p] \in {"discarding", "finishing"} =>
       /\ outcome[p] = "installed" => InPlace(p)
       /\ outcome[p] \in {"uninstalled", "absent"} => dest = Absent
  /\ pc[p] = "finishing" /\ "rmtree" \notin faults =>
       /\ outcome[p] = "failed" => dest = before[p] \/ Moved(p)
       /\ outcome[p] = "interrupted" => dest = before[p] \/ Moved(p) \/ InPlace(p)

\* The backups that a recovery would put back.
Kept == {d \in Backups : Owned(hidden[d].holds)}

\* As long as deletions leave nothing behind: when nothing is installed there
\* is at most one backup, which is whole,
TidyDisk ==
  /\ ~Owned(dest) => /\ \A d, e \in Kept : d = e
                     /\ \A d \in Kept : hidden[d].holds.state = "whole"
  /\ dest.state \in {"whole", "absent", "foreign"}

\* and a run that may move an install aside has deleted all others.
Tidy(p) ==
  /\ before[p].state \in {"whole", "absent", "foreign"}
  /\ Owned(dest) /\ pc[p] = "recovering" => Kept \subseteq todo[p]
  /\ pc[p] = "discarding" /\ outcome[p] = "none" => Kept \subseteq todo[p] \cup {doomed[p]}
  /\ Owned(dest) /\ pc[p] \in {"install", "uninstall", "packaging", "checking", "displacing", "removing"} => Kept = {}

\* As long as backups can be renamed: a recovery passes none over.
Spare(p) == pc[p] = "recovering" /\ dest = Absent => Kept \subseteq todo[p]

\* Nobody meddles; deletions leave nothing behind; backups can be renamed.
Quiet   == "meddling" \notin faults
Deletes == Quiet /\ "rmtree" \notin faults
Renames == Quiet /\ "rename" \notin faults

Fine(p) == Hands(p) /\ (Quiet => Stands(p)) /\ (Deletes => Tidy(p)) /\ (Renames => Spare(p))

IInv ==
  /\ TypeOK /\ Locked /\ Above
  /\ Deletes => TidyDisk
  /\ Deletes \/ Renames => InstallSurvives
  /\ \A p \in Proc : Fine(p)

-----------------------------------------------------------------------------
(* Directories and what they hold.                                         *)

LEMMA NewestIs ==
  ASSUME NEW S \in SUBSET Dirs, S # {}
  PROVE  Newest(S) \in S /\ \A e \in S : e <= Newest(S)
<1> DEFINE T == {MaxDirs - d : d \in S}
<1>1. MaxDirs \in Nat /\ T \in SUBSET Nat /\ T # {}
  <2>1. MaxDirs \in Nat /\ \A d \in S : d \in Nat /\ d <= MaxDirs
    BY InstallAssumption DEF Dirs
  <2>2. \A d \in S : MaxDirs - d \in Nat
    BY <2>1
  <2>3. QED
    BY <2>1, <2>2
<1> HIDE DEF T
<1>2. PICK x \in T : \A y \in T : ~ (<<y, x>> \in OpToRel(<, Nat))
  BY <1>1, WFMin, NatLessThanWellFounded, Zenon
<1>3. \A y \in T : ~(y < x)
  BY <1>1, <1>2, Zenon DEF OpToRel
<1>4. \A y \in T : x <= y
  BY <1>1, <1>3
<1>5. PICK d \in S : x = MaxDirs - d
  BY DEF T
<1>6. \A e \in S : e <= d
  <2> SUFFICES ASSUME NEW e \in S PROVE e <= d
    OBVIOUS
  <2>1. MaxDirs - e \in T
    BY DEF T
  <2>2. QED
    BY <1>1, <1>4, <1>5, <2>1 DEF Dirs
<1>7. QED
  BY <1>6 DEF Newest

LEMMA NewestOnly ==
  ASSUME NEW S \in SUBSET Dirs, NEW d \in S, \A e \in S : e <= d
  PROVE  Newest(S) = d
<1>1. Newest(S) \in S /\ d <= Newest(S)
  BY NewestIs
<1>2. Newest(S) <= d
  BY <1>1
<1>3. Newest(S) \in Dirs /\ d \in Dirs
  BY <1>1
<1>4. Newest(S) \in Nat /\ d \in Nat
  BY <1>3, InstallAssumption DEF Dirs
<1>5. QED
  BY <1>1, <1>2, <1>4

LEMMA NoneIs == None \notin Dirs /\ None \notin Proc
  BY InstallAssumption DEF Dirs

LEMMA PlaceIs ==
  ASSUME NEW x \in Place
  PROVE  /\ Owned(x) => x \in Copy /\ x # Absent /\ x # Foreign
         /\ x.state = "absent" <=> x = Absent
         /\ x.state = "whole" => x.version \in Dirs /\ x = Whole(x.version)
         /\ x.state \in {"whole", "torn", "husk", "absent", "foreign"}
  BY DEF Place, Copy, Absent, Foreign, Owned, Whole

LEMMA WholeIs ==
  ASSUME NEW v \in Dirs
  PROVE  /\ Whole(v) \in Place /\ Owned(Whole(v)) /\ Whole(v).state = "whole" /\ Whole(v).version = v
         /\ Whole(v) # Absent
  BY DEF Place, Copy, Whole, Owned, Absent

LEMMA AbsentIs == Absent \in Place /\ Foreign \in Place /\ ~Owned(Absent) /\ ~Owned(Foreign) /\ Absent # Foreign
                  /\ Absent.state = "absent" /\ Foreign.state = "foreign"
  BY DEF Place, Owned, Absent, Foreign

LEMMA GoneIs == Gone \in Dir \cup {Gone} /\ Gone.kind = "gone" /\ Gone.holds = Absent
  BY DEF Gone

\* What directory d holds becomes x.
LEMMA HoldsIs ==
  ASSUME TypeOK, NEW d \in Dirs, hidden[d].kind # "gone", NEW x \in Place, hidden' = [hidden EXCEPT ![d].holds = x]
  PROVE  /\ hidden' \in [Dirs -> Dir \cup {Gone}]
         /\ hidden'[d].kind = hidden[d].kind /\ hidden'[d].holds = x
         /\ \A e \in Dirs \ {d} : hidden'[e] = hidden[e]
<1>1. hidden[d] \in Dir /\ hidden' = [hidden EXCEPT ![d] = [hidden[d] EXCEPT !.holds = x]]
  BY DEF TypeOK, Gone
<1>2. [hidden[d] EXCEPT !.holds = x] \in Dir
      /\ [hidden[d] EXCEPT !.holds = x].kind = hidden[d].kind /\ [hidden[d] EXCEPT !.holds = x].holds = x
  BY <1>1 DEF Dir
<1>3. QED
  BY <1>1, <1>2 DEF TypeOK

LEMMA TearIs ==
  ASSUME TypeOK, NEW p \in Proc, doomed[p] \in Dirs, hidden[doomed[p]].kind # "gone", Tear(p)
  PROVE  /\ hidden' \in [Dirs -> Dir \cup {Gone}]
         /\ hidden'[doomed[p]].kind = hidden[doomed[p]].kind
         /\ hidden'[doomed[p]].holds.state \in {"torn", "husk"}
         /\ hidden'[doomed[p]].holds.state = "torn" => hidden[doomed[p]].holds.state = "whole"
         /\ Owned(hidden[doomed[p]].holds)
         /\ \A e \in Dirs \ {doomed[p]} : hidden'[e] = hidden[e]
<1> DEFINE d == doomed[p]
           held == hidden[d].holds
<1>1. PICK s \in {"torn", "husk"} : /\ held.state = "whole" \/ (held.state = "torn" /\ s = "husk")
                                    /\ hidden' = [hidden EXCEPT ![d].holds.state = s]
  BY DEF Tear
<1> DEFINE x == [held EXCEPT !.state = s]
<1>2. hidden[d] \in Dir /\ held \in Copy
  BY <1>1 DEF TypeOK, Gone, Dir, Place, Absent, Foreign
<1>3. x \in Place /\ x.state = s
  BY <1>1, <1>2 DEF Copy, Place
<1>4. hidden' = [hidden EXCEPT ![d].holds = x]
  BY <1>1
<1> HIDE DEF x
<1>5. /\ hidden' \in [Dirs -> Dir \cup {Gone}] /\ hidden'[d].kind = hidden[d].kind /\ hidden'[d].holds = x
      /\ \A e \in Dirs \ {d} : hidden'[e] = hidden[e]
  BY <1>3, <1>4, HoldsIs
<1>6. QED
  BY <1>1, <1>3, <1>5 DEF Owned

LEMMA MakeDirIs ==
  ASSUME TypeOK, NEW kind \in {"staging", "backup", "removing"}, NEW x \in Place, MakeDir(kind, x)
  PROVE  /\ hidden' \in [Dirs -> Dir \cup {Gone}] /\ made' \in 0 .. MaxDirs /\ made + 1 \in Dirs /\ made' = made + 1
         /\ hidden'[made + 1].kind = kind /\ hidden'[made + 1].holds = x
         /\ \A e \in Dirs \ {made + 1} : hidden'[e] = hidden[e]
<1>1. made + 1 \in Dirs /\ made' \in 0 .. MaxDirs /\ made' = made + 1
  BY InstallAssumption DEF MakeDir, TypeOK, Dirs
<1>2. [kind |-> kind, holds |-> x] \in Dir
  BY DEF Dir
<1>3. QED
  BY <1>1, <1>2 DEF MakeDir, TypeOK

LEMMA RemoveDirIs ==
  ASSUME TypeOK, NEW d \in Dirs, hidden' = [hidden EXCEPT ![d] = Gone]
  PROVE  /\ hidden' \in [Dirs -> Dir \cup {Gone}] /\ hidden'[d] = Gone
         /\ \A e \in Dirs \ {d} : hidden'[e] = hidden[e]
  BY DEF TypeOK

LEMMA NextBackupIs ==
  ASSUME TypeOK, NEW p \in Proc, todo[p] # {}
  PROVE  NextBackup(p) \in todo[p] /\ NextBackup(p) \in Dirs /\ \A e \in todo[p] : e <= NextBackup(p)
  BY NewestIs DEF NextBackup, TypeOK

-----------------------------------------------------------------------------
(* Steps of the process that holds the lock.                               *)

\* A step that changes the locals of one process.
Mine(p) ==
  \A q \in Proc \ {p} :
    /\ pc'[q] = pc[q] /\ command'[q] = command[q] /\ todo'[q] = todo[q] /\ stage'[q] = stage[q] /\ aside'[q] = aside[q]
    /\ doomed'[q] = doomed[q] /\ outcome'[q] = outcome[q] /\ before'[q] = before[q]

LEMMA HolderStep ==
  ASSUME IInv, NEW p \in Proc, pc[p] \notin Outside, Mine(p), faults' = faults,
         lock' = lock \/ (lock' = None /\ pc'[p] \in Outside),
         TypeOK', Above', (Deletes => TidyDisk'), (Deletes \/ Renames => InstallSurvives'), Fine(p)'
  PROVE  IInv'
<1>1. lock = p /\ \A q \in Proc \ {p} : pc[q] \in Outside
  BY DEF IInv, Locked
<1>2. \A q \in Proc \ {p} : Fine(q)'
  <2> SUFFICES ASSUME NEW q \in Proc \ {p} PROVE Fine(q)'
    OBVIOUS
  <2>1. Fine(q) /\ pc'[q] = pc[q] /\ pc[q] \in {"idle", "waiting"}
    BY <1>1 DEF IInv, Outside, Mine
  <2>2. stage'[q] = stage[q] /\ aside'[q] = aside[q] /\ outcome'[q] = outcome[q] /\ before'[q] = before[q]
    BY DEF Mine
  <2>3. Hands(q)'
    BY <2>1, <2>2 DEF Fine, Hands, Outside
  <2>4. Stands(q)' /\ Spare(q)'
    BY <2>1 DEF Stands, Spare
  <2>5. Deletes => Tidy(q)'
    BY <2>1, <2>2 DEF Fine, Tidy
  <2>6. QED
    BY <2>3, <2>4, <2>5 DEF Fine, Deletes, Quiet
<1>3. Locked'
  BY <1>1 DEF Locked, Mine
<1>4. QED
  BY <1>2, <1>3 DEF IInv, Deletes, Renames, Quiet

\* A step that leaves the disk alone.
LEMMA QuietStep ==
  ASSUME IInv, NEW p \in Proc, pc[p] \notin Outside, Mine(p), UNCHANGED <<faults, lock, dest, hidden, made, live>>,
         TypeOK', Fine(p)'
  PROVE  IInv'
<1>1. Above' /\ (Deletes => TidyDisk') /\ (Deletes \/ Renames => InstallSurvives')
  BY DEF IInv, Above, TidyDisk, Kept, Backups, InstallSurvives
<1>2. QED
  BY <1>1, HolderStep

\* InstallSurvives, with a name for the backups it speaks of.
LEMMA SurvivesIs ==
  InstallSurvives <=> (live # None => \/ dest = Whole(live)
                                      \/ ~Owned(dest) /\ Kept # {} /\ hidden[Newest(Kept)].holds = Whole(live))
  BY DEF InstallSurvives, Kept

\* A step that leaves the destination alone, and the backups that matter, or an
\* install at the destination.
LEMMA DiskAlone ==
  ASSUME IInv, UNCHANGED <<faults, dest, live>>,
         Owned(dest) \/ (Kept' = Kept /\ \A d \in Kept : hidden'[d].holds = hidden[d].holds)
  PROVE  (Deletes => TidyDisk') /\ (Deletes \/ Renames => InstallSurvives')
<1>1. Deletes => TidyDisk'
  BY DEF IInv, TidyDisk
<1>2. Deletes \/ Renames => InstallSurvives'
  <2> SUFFICES ASSUME Deletes \/ Renames, live # None, dest # Whole(live) PROVE InstallSurvives'
    BY SurvivesIs DEF InstallSurvives
  <2>1. ~Owned(dest) /\ Kept # {} /\ hidden[Newest(Kept)].holds = Whole(live)
    BY SurvivesIs DEF IInv
  <2>2. Kept \in SUBSET Dirs
    BY DEF Kept, Backups
  <2>3. Newest(Kept) \in Kept
    BY <2>1, <2>2, NewestIs
  <2>4. Kept' = Kept /\ hidden'[Newest(Kept)].holds = Whole(live)
    BY <2>1, <2>3
  <2>5. QED
    BY <2>1, <2>4 DEF InstallSurvives, Kept
<1>3. QED
  BY <1>1, <1>2

LEMMA SweptStep == ASSUME IInv, NEW p \in Proc, Swept(p), faults' = faults PROVE IInv'
<1>1. /\ pc[p] = "sweeping" /\ pc'[p] = "recovering" /\ todo'[p] = Backups
      /\ stage'[p] = stage[p] /\ aside'[p] = aside[p] /\ outcome'[p] = outcome[p] /\ before'[p] = before[p]
      /\ UNCHANGED <<faults, lock, dest, hidden, made, live>>
  BY DEF Swept, Goto, IInv, TypeOK
<1>2. TypeOK' /\ Mine(p)
  BY DEF Swept, Goto, IInv, TypeOK, Mine, Backups
<1>3. Hands(p)'
  BY <1>1 DEF IInv, Fine, Hands, Backups, Outside
<1>4. Stands(p)'
  BY <1>1 DEF Stands
<1>5. Kept' \subseteq todo'[p]
  BY <1>1 DEF Kept, Backups
<1>6. Deletes => Tidy(p)'
  BY <1>1, <1>5 DEF IInv, Fine, Tidy
<1>7. Fine(p)'
  BY <1>1, <1>3, <1>4, <1>5, <1>6 DEF Fine, Deletes, Quiet, Spare
<1>8. QED
  BY <1>1, <1>2, <1>7, QuietStep DEF Outside

LEMMA SkipStep == ASSUME IInv, NEW p \in Proc, Skip(p), faults' = faults PROVE IInv'
<1> DEFINE d == NextBackup(p)
<1>1. TypeOK /\ pc[p] = "recovering" /\ todo[p] # {} /\ d \in todo[p] /\ d \in Dirs
  BY NextBackupIs DEF Skip, IInv
<1>2. ~Owned(hidden[d].holds) \/ Blocking(dest) \/ (dest = Absent /\ "rename" \in faults)
  BY DEF Skip
<1>3. todo' = [todo EXCEPT ![p] = todo[p] \ {d}]
  BY DEF Skip, Looked
<1> HIDE DEF d
<1>4. /\ pc'[p] = "recovering" /\ todo'[p] = todo[p] \ {d}
      /\ stage'[p] = stage[p] /\ aside'[p] = aside[p] /\ outcome'[p] = outcome[p] /\ before'[p] = before[p]
      /\ UNCHANGED <<faults, lock, dest, hidden, made, live>>
  BY <1>1, <1>3 DEF Skip, TypeOK
<1>5. TypeOK' /\ Mine(p)
  BY <1>1, <1>3 DEF Skip, TypeOK, Mine
<1>6. Hands(p)' /\ Stands(p)'
  BY <1>1, <1>4 DEF IInv, Fine, Hands, Stands, Backups
<1>7. Deletes => Tidy(p)'
  BY <1>1, <1>2, <1>4, AbsentIs DEF IInv, Fine, Tidy, Kept, Backups, Blocking, Owned
<1>8. Renames => Spare(p)'
  BY <1>1, <1>2, <1>4, AbsentIs DEF IInv, Fine, Spare, Kept, Backups, Blocking, Renames
<1>9. QED
  BY <1>1, <1>4, <1>5, <1>6, <1>7, <1>8, QuietStep DEF Fine, Deletes, Renames, Quiet, Outside

LEMMA SupersedeStep == ASSUME IInv, NEW p \in Proc, Supersede(p), faults' = faults PROVE IInv'
<1> DEFINE d == NextBackup(p)
<1>1. TypeOK /\ pc[p] = "recovering" /\ todo[p] # {} /\ d \in todo[p] /\ d \in Dirs
  BY NextBackupIs DEF Supersede, Goto, IInv
<1>2. Owned(hidden[d].holds) /\ Owned(dest)
  BY DEF Supersede
<1>3. todo' = [todo EXCEPT ![p] = todo[p] \ {d}] /\ doomed' = [doomed EXCEPT ![p] = d]
  BY DEF Supersede, Looked
<1> HIDE DEF d
<1>4. /\ pc'[p] = "discarding" /\ todo'[p] = todo[p] \ {d} /\ doomed'[p] = d
      /\ stage'[p] = stage[p] /\ aside'[p] = aside[p] /\ outcome'[p] = outcome[p] /\ before'[p] = before[p]
      /\ UNCHANGED <<faults, lock, dest, hidden, made, live>>
  BY <1>1, <1>3 DEF Supersede, Goto, TypeOK
<1>5. TypeOK' /\ Mine(p)
  BY <1>1, <1>3 DEF Supersede, Goto, TypeOK, Mine
<1>6. Hands(p)'
  BY <1>1, <1>4 DEF IInv, Fine, Hands, Backups
<1>7. Stands(p)'
  BY <1>1, <1>2, <1>4 DEF IInv, Fine, Hands, Stands
<1>8. (Deletes => Tidy(p)') /\ Spare(p)'
  BY <1>1, <1>2, <1>4 DEF IInv, Fine, Tidy, Spare, Kept, Backups
<1>9. QED
  BY <1>1, <1>4, <1>5, <1>6, <1>7, <1>8, QuietStep DEF Fine, Deletes, Quiet, Outside

LEMMA RecoveredStep == ASSUME IInv, NEW p \in Proc, Recovered(p), faults' = faults PROVE IInv'
<1>1. /\ pc[p] = "recovering" /\ todo[p] = {} /\ command[p] \in {"install", "uninstall"}
      /\ pc'[p] = command[p]
      /\ before'[p] = dest
      /\ command'[p] = command[p] /\ todo'[p] = todo[p] /\ stage'[p] = stage[p] /\ aside'[p] = aside[p]
      /\ doomed'[p] = doomed[p] /\ outcome'[p] = outcome[p]
      /\ UNCHANGED <<faults, lock, dest, hidden, made, live>>
  BY NoneIs DEF Recovered, Goto, IInv, TypeOK, locals
<1>2. TypeOK' /\ Mine(p)
  BY DEF Recovered, Goto, IInv, TypeOK, Mine, locals
<1>3. Hands(p)'
  BY <1>1 DEF IInv, Fine, Hands, Backups, Outside
<1>4. Quiet => Stands(p)'
  BY <1>1 DEF IInv, Fine, Stands, Unmoved, Moved, InPlace
<1>5. (Deletes => Tidy(p)') /\ (Renames => Spare(p)')
  BY <1>1, AbsentIs DEF IInv, Fine, Tidy, Spare, Kept, Backups, TidyDisk
<1>6. QED
  BY <1>1, <1>2, <1>3, <1>4, <1>5, QuietStep DEF Fine, Deletes, Renames, Quiet, Outside

LEMMA DiscardFailsStep == ASSUME IInv, NEW p \in Proc, DiscardFails(p), faults' = faults PROVE IInv'
<1>1. /\ pc[p] = "discarding" /\ "rmtree" \in faults
      /\ pc'[p] = AfterDiscard(p)
      /\ doomed'[p] = None /\ outcome'[p] = (IF outcome[p] = "uninstalled" THEN "failed" ELSE outcome[p])
      /\ command'[p] = command[p] /\ todo'[p] = todo[p] /\ stage'[p] = stage[p] /\ aside'[p] = aside[p]
      /\ before'[p] = before[p]
      /\ UNCHANGED <<faults, lock, dest, hidden, made, live>>
  BY NoneIs DEF DiscardFails, Goto, IInv, TypeOK, locals, AfterDiscard
<1>2. TypeOK' /\ Mine(p)
  BY DEF DiscardFails, Goto, IInv, TypeOK, Mine, locals, AfterDiscard
<1>3. Hands(p)'
  BY <1>1 DEF IInv, Fine, Hands, Backups, Outside, AfterDiscard
<1>4. Quiet => Stands(p)'
  BY <1>1, AbsentIs DEF IInv, Fine, Stands, Unmoved, Moved, InPlace, AfterDiscard
<1>5. (Deletes => Tidy(p)') /\ (Renames => Spare(p)')
  BY <1>1, AbsentIs DEF IInv, Fine, Tidy, Spare, Kept, Backups, Stands, Deletes, Renames, AfterDiscard
<1>6. QED
  BY <1>1, <1>2, <1>3, <1>4, <1>5, QuietStep DEF Fine, Deletes, Renames, Quiet, Outside

LEMMA MakeDirFailsStep == ASSUME IInv, NEW p \in Proc, MakeDirFails(p), faults' = faults PROVE IInv'
<1>1. /\ pc[p] = command[p] /\ command[p] \in {"install", "uninstall"}
      /\ pc'[p] = "finishing"
      /\ outcome'[p] = "failed"
      /\ command'[p] = command[p] /\ todo'[p] = todo[p] /\ stage'[p] = stage[p] /\ aside'[p] = aside[p]
      /\ doomed'[p] = doomed[p] /\ before'[p] = before[p]
      /\ UNCHANGED <<faults, lock, dest, hidden, made, live>>
  BY NoneIs DEF MakeDirFails, Goto, IInv, TypeOK, locals
<1>2. TypeOK' /\ Mine(p)
  BY DEF MakeDirFails, Goto, IInv, TypeOK, Mine, locals
<1>3. Hands(p)'
  BY <1>1 DEF IInv, Fine, Hands, Backups, Outside
<1>4. Quiet => Stands(p)'
  BY <1>1 DEF IInv, Fine, Stands, Unmoved, Moved, InPlace
<1>5. (Deletes => Tidy(p)') /\ (Renames => Spare(p)')
  BY <1>1 DEF IInv, Fine, Tidy, Spare, Kept, Backups
<1>6. QED
  BY <1>1, <1>2, <1>3, <1>4, <1>5, QuietStep DEF Fine, Deletes, Renames, Quiet, Outside

LEMMA NothingToBackUpStep == ASSUME IInv, NEW p \in Proc, NothingToBackUp(p), faults' = faults PROVE IInv'
<1>1. /\ pc[p] = "checking" /\ dest = Absent
      /\ pc'[p] = "replacing"
      /\ command'[p] = command[p] /\ todo'[p] = todo[p] /\ stage'[p] = stage[p] /\ aside'[p] = aside[p]
      /\ doomed'[p] = doomed[p] /\ outcome'[p] = outcome[p] /\ before'[p] = before[p]
      /\ UNCHANGED <<faults, lock, dest, hidden, made, live>>
  BY NoneIs DEF NothingToBackUp, Goto, IInv, TypeOK, locals
<1>2. TypeOK' /\ Mine(p)
  BY DEF NothingToBackUp, Goto, IInv, TypeOK, Mine, locals
<1>3. Hands(p)'
  BY <1>1 DEF IInv, Fine, Hands, Backups, Outside
<1>4. Quiet => Stands(p)'
  BY <1>1 DEF IInv, Fine, Stands, Unmoved, Moved, InPlace, Hands
<1>5. (Deletes => Tidy(p)') /\ (Renames => Spare(p)')
  BY <1>1 DEF IInv, Fine, Tidy, Spare, Kept, Backups
<1>6. QED
  BY <1>1, <1>2, <1>3, <1>4, <1>5, QuietStep DEF Fine, Deletes, Renames, Quiet, Outside

LEMMA InstalledStep == ASSUME IInv, NEW p \in Proc, Installed(p), faults' = faults PROVE IInv'
<1>1. /\ pc[p] = "replaced"
      /\ pc'[p] = IF aside[p] = None THEN "finishing" ELSE "discarding"
      /\ doomed'[p] = aside[p] /\ outcome'[p] = "installed"
      /\ command'[p] = command[p] /\ todo'[p] = todo[p] /\ stage'[p] = stage[p] /\ aside'[p] = aside[p]
      /\ before'[p] = before[p]
      /\ UNCHANGED <<faults, lock, dest, hidden, made, live>>
  BY NoneIs DEF Installed, Goto, IInv, TypeOK, locals
<1>2. TypeOK' /\ Mine(p)
  BY DEF Installed, Goto, IInv, TypeOK, Mine, locals
<1>3. Hands(p)'
  BY <1>1 DEF IInv, Fine, Hands, Backups, Outside, TypeOK
<1>4. Quiet => Stands(p)'
  BY <1>1, WholeIs DEF IInv, Fine, Stands, Unmoved, Moved, InPlace, Hands
<1>5. (Deletes => Tidy(p)') /\ (Renames => Spare(p)')
  BY <1>1 DEF IInv, Fine, Tidy, Spare, Kept, Backups
<1>6. QED
  BY <1>1, <1>2, <1>3, <1>4, <1>5, QuietStep DEF Fine, Deletes, Renames, Quiet, Outside

LEMMA InstallFailsStep == ASSUME IInv, NEW p \in Proc, InstallFails(p), faults' = faults PROVE IInv'
<1>1. /\ pc[p] \in {"packaging", "checking", "displacing", "replacing"}
      /\ pc'[p] = "cleaning"
      /\ outcome'[p] = "failed"
      /\ command'[p] = command[p] /\ todo'[p] = todo[p] /\ stage'[p] = stage[p] /\ aside'[p] = aside[p]
      /\ doomed'[p] = doomed[p] /\ before'[p] = before[p]
      /\ UNCHANGED <<faults, lock, dest, hidden, made, live>>
  BY NoneIs DEF InstallFails, Goto, IInv, TypeOK, locals
<1>2. TypeOK' /\ Mine(p)
  BY DEF InstallFails, Goto, IInv, TypeOK, Mine, locals
<1>3. Hands(p)'
  BY <1>1, NoneIs DEF IInv, Fine, Hands, Backups, Outside
<1>4. Quiet => Stands(p)'
  BY <1>1 DEF IInv, Fine, Stands, Unmoved, Moved, InPlace, Hands
<1>5. (Deletes => Tidy(p)') /\ (Renames => Spare(p)')
  BY <1>1 DEF IInv, Fine, Tidy, Spare, Kept, Backups
<1>6. QED
  BY <1>1, <1>2, <1>3, <1>4, <1>5, QuietStep DEF Fine, Deletes, Renames, Quiet, Outside

LEMMA InterruptInstallStep == ASSUME IInv, NEW p \in Proc, InterruptInstall(p), faults' = faults PROVE IInv'
<1>1. /\ pc[p] \in {"packaging", "checking", "displacing", "replacing", "replaced"}
      /\ pc'[p] = "cleaning"
      /\ outcome'[p] = "interrupted"
      /\ command'[p] = command[p] /\ todo'[p] = todo[p] /\ stage'[p] = stage[p] /\ aside'[p] = aside[p]
      /\ doomed'[p] = doomed[p] /\ before'[p] = before[p]
      /\ UNCHANGED <<faults, lock, dest, hidden, made, live>>
  BY NoneIs DEF InterruptInstall, Goto, IInv, TypeOK, locals
<1>2. TypeOK' /\ Mine(p)
  BY DEF InterruptInstall, Goto, IInv, TypeOK, Mine, locals
<1>3. Hands(p)'
  BY <1>1, NoneIs DEF IInv, Fine, Hands, Backups, Outside
<1>4. Quiet => Stands(p)'
  BY <1>1 DEF IInv, Fine, Stands, Unmoved, Moved, InPlace, Hands
<1>5. (Deletes => Tidy(p)') /\ (Renames => Spare(p)')
  BY <1>1 DEF IInv, Fine, Tidy, Spare, Kept, Backups
<1>6. QED
  BY <1>1, <1>2, <1>3, <1>4, <1>5, QuietStep DEF Fine, Deletes, Renames, Quiet, Outside

LEMMA PutBackFailsStep == ASSUME IInv, NEW p \in Proc, PutBackFails(p), faults' = faults PROVE IInv'
<1>1. /\ pc[p] = "restoring" /\ dest = Absent /\ hidden[aside[p]].holds # Absent
      /\ pc'[p] = "finishing"
      /\ command'[p] = command[p] /\ todo'[p] = todo[p] /\ stage'[p] = stage[p] /\ aside'[p] = aside[p]
      /\ doomed'[p] = doomed[p] /\ outcome'[p] = outcome[p] /\ before'[p] = before[p]
      /\ UNCHANGED <<faults, lock, dest, hidden, made, live>>
  BY NoneIs DEF PutBackFails, Goto, IInv, TypeOK, locals, Displaced
<1>2. TypeOK' /\ Mine(p)
  BY DEF PutBackFails, Goto, IInv, TypeOK, Mine, locals, Displaced
<1>3. Hands(p)'
  BY <1>1 DEF IInv, Fine, Hands, Backups, Outside
<1>4. Quiet => Stands(p)'
  BY <1>1, NoneIs, WholeIs DEF IInv, Fine, Stands, Unmoved, Moved, InPlace, Hands, TypeOK
<1>5. (Deletes => Tidy(p)') /\ (Renames => Spare(p)')
  BY <1>1 DEF IInv, Fine, Tidy, Spare, Kept, Backups
<1>6. QED
  BY <1>1, <1>2, <1>3, <1>4, <1>5, QuietStep DEF Fine, Deletes, Renames, Quiet, Outside

LEMMA NothingToPutBackStep == ASSUME IInv, NEW p \in Proc, NothingToPutBack(p), faults' = faults PROVE IInv'
<1>1. /\ pc[p] = "restoring" /\ ~(dest = Absent /\ hidden[aside[p]].holds # Absent)
      /\ pc'[p] = "discarding"
      /\ doomed'[p] = aside[p]
      /\ command'[p] = command[p] /\ todo'[p] = todo[p] /\ stage'[p] = stage[p] /\ aside'[p] = aside[p]
      /\ outcome'[p] = outcome[p] /\ before'[p] = before[p]
      /\ UNCHANGED <<faults, lock, dest, hidden, made, live>>
  BY NoneIs DEF NothingToPutBack, Goto, IInv, TypeOK, locals, Displaced
<1>2. TypeOK' /\ Mine(p)
  BY DEF NothingToPutBack, Goto, IInv, TypeOK, Mine, locals, Displaced
<1>3. Hands(p)'
  BY <1>1, NoneIs DEF IInv, Fine, Hands, Backups, Outside
<1>4. Quiet => Stands(p)'
  BY <1>1, NoneIs, AbsentIs, WholeIs DEF IInv, Fine, Stands, Unmoved, Moved, InPlace, Hands, TypeOK
<1>5. (Deletes => Tidy(p)') /\ (Renames => Spare(p)')
  BY <1>1 DEF IInv, Fine, Tidy, Spare, Kept, Backups, Hands
<1>6. QED
  BY <1>1, <1>2, <1>3, <1>4, <1>5, QuietStep DEF Fine, Deletes, Renames, Quiet, Outside

LEMMA NothingToUninstallStep == ASSUME IInv, NEW p \in Proc, NothingToUninstall(p), faults' = faults PROVE IInv'
<1>1. /\ pc[p] = "uninstall" /\ ~Owned(dest)
      /\ pc'[p] = "finishing"
      /\ outcome'[p] = (IF dest = Absent THEN "absent" ELSE "failed")
      /\ command'[p] = command[p] /\ todo'[p] = todo[p] /\ stage'[p] = stage[p] /\ aside'[p] = aside[p]
      /\ doomed'[p] = doomed[p] /\ before'[p] = before[p]
      /\ UNCHANGED <<faults, lock, dest, hidden, made, live>>
  BY NoneIs DEF NothingToUninstall, Goto, IInv, TypeOK, locals
<1>2. TypeOK' /\ Mine(p)
  BY DEF NothingToUninstall, Goto, IInv, TypeOK, Mine, locals
<1>3. Hands(p)'
  BY <1>1 DEF IInv, Fine, Hands, Backups, Outside
<1>4. Quiet => Stands(p)'
  BY <1>1 DEF IInv, Fine, Stands, Unmoved, Moved, InPlace
<1>5. (Deletes => Tidy(p)') /\ (Renames => Spare(p)')
  BY <1>1 DEF IInv, Fine, Tidy, Spare, Kept, Backups
<1>6. QED
  BY <1>1, <1>2, <1>3, <1>4, <1>5, QuietStep DEF Fine, Deletes, Renames, Quiet, Outside

LEMMA UninstalledStep == ASSUME IInv, NEW p \in Proc, Uninstalled(p), faults' = faults PROVE IInv'
<1>1. /\ pc[p] = "removed"
      /\ pc'[p] = "discarding"
      /\ doomed'[p] = aside[p] /\ outcome'[p] = "uninstalled"
      /\ command'[p] = command[p] /\ todo'[p] = todo[p] /\ stage'[p] = stage[p] /\ aside'[p] = aside[p]
      /\ before'[p] = before[p]
      /\ UNCHANGED <<faults, lock, dest, hidden, made, live>>
  BY NoneIs DEF Uninstalled, Goto, IInv, TypeOK, locals
<1>2. TypeOK' /\ Mine(p)
  BY DEF Uninstalled, Goto, IInv, TypeOK, Mine, locals
<1>3. Hands(p)'
  BY <1>1 DEF IInv, Fine, Hands, Backups, Outside
<1>4. Quiet => Stands(p)'
  BY <1>1 DEF IInv, Fine, Stands, Unmoved, Moved, InPlace, Hands
<1>5. (Deletes => Tidy(p)') /\ (Renames => Spare(p)')
  BY <1>1 DEF IInv, Fine, Tidy, Spare, Kept, Backups
<1>6. QED
  BY <1>1, <1>2, <1>3, <1>4, <1>5, QuietStep DEF Fine, Deletes, Renames, Quiet, Outside

LEMMA UninstallFailsStep == ASSUME IInv, NEW p \in Proc, UninstallFails(p), faults' = faults PROVE IInv'
<1>1. /\ pc[p] \in {"removing", "removed"} /\ outcome'[p] \in {"failed", "interrupted"}
      /\ pc'[p] = "undoing"
      /\ command'[p] = command[p] /\ todo'[p] = todo[p] /\ stage'[p] = stage[p] /\ aside'[p] = aside[p]
      /\ doomed'[p] = doomed[p] /\ before'[p] = before[p]
      /\ UNCHANGED <<faults, lock, dest, hidden, made, live>>
  BY NoneIs DEF UninstallFails, Goto, IInv, TypeOK, locals
<1>2. TypeOK' /\ Mine(p)
  BY DEF UninstallFails, Goto, IInv, TypeOK, Mine, locals
<1>3. Hands(p)'
  BY <1>1 DEF IInv, Fine, Hands, Backups, Outside
<1>4. Quiet => Stands(p)'
  BY <1>1 DEF IInv, Fine, Stands, Unmoved, Moved, InPlace, Hands
<1>5. (Deletes => Tidy(p)') /\ (Renames => Spare(p)')
  BY <1>1 DEF IInv, Fine, Tidy, Spare, Kept, Backups
<1>6. QED
  BY <1>1, <1>2, <1>3, <1>4, <1>5, QuietStep DEF Fine, Deletes, Renames, Quiet, Outside

LEMMA UndoFailsStep == ASSUME IInv, NEW p \in Proc, UndoFails(p), faults' = faults PROVE IInv'
<1>1. /\ pc[p] = "undoing" /\ dest = Absent /\ hidden[aside[p]].holds # Absent
      /\ pc'[p] = "finishing"
      /\ command'[p] = command[p] /\ todo'[p] = todo[p] /\ stage'[p] = stage[p] /\ aside'[p] = aside[p]
      /\ doomed'[p] = doomed[p] /\ outcome'[p] = outcome[p] /\ before'[p] = before[p]
      /\ UNCHANGED <<faults, lock, dest, hidden, made, live>>
  BY NoneIs DEF UndoFails, Goto, IInv, TypeOK, locals, Displaced
<1>2. TypeOK' /\ Mine(p)
  BY DEF UndoFails, Goto, IInv, TypeOK, Mine, locals, Displaced
<1>3. Hands(p)'
  BY <1>1 DEF IInv, Fine, Hands, Backups, Outside
<1>4. Quiet => Stands(p)'
  BY <1>1, NoneIs DEF IInv, Fine, Stands, Unmoved, Moved, InPlace, Hands
<1>5. (Deletes => Tidy(p)') /\ (Renames => Spare(p)')
  BY <1>1 DEF IInv, Fine, Tidy, Spare, Kept, Backups
<1>6. QED
  BY <1>1, <1>2, <1>3, <1>4, <1>5, QuietStep DEF Fine, Deletes, Renames, Quiet, Outside

LEMMA DiscardStep == ASSUME IInv, NEW p \in Proc, Discard(p), faults' = faults PROVE IInv'
<1>1. /\ pc[p] = "discarding" /\ doomed[p] \in Dirs
      /\ pc'[p] = AfterDiscard(p)
      /\ doomed'[p] = None
      /\ command'[p] = command[p] /\ todo'[p] = todo[p] /\ stage'[p] = stage[p] /\ aside'[p] = aside[p]
      /\ outcome'[p] = outcome[p] /\ before'[p] = before[p]
      /\ UNCHANGED <<faults, lock, dest, made, live>>
  BY NoneIs DEF Discard, Goto, IInv, TypeOK, locals, AfterDiscard, Fine, Hands
<1>2. hidden' \in [Dirs -> Dir \cup {Gone}] /\ hidden'[doomed[p]] = Gone /\ \A e \in Dirs \ {doomed[p]} : hidden'[e] = hidden[e]
  BY <1>1, RemoveDirIs DEF IInv, Fine, Hands, Discard
<1>3. TypeOK' /\ Mine(p) /\ Above'
  <2>1. TypeOK'
    BY <1>1, <1>2 DEF Discard, Goto, IInv, TypeOK, Mine, locals, AfterDiscard
  <2>2. Mine(p)
    BY DEF Discard, Goto, IInv, TypeOK, Mine, locals, AfterDiscard
  <2>3. Above'
    BY <1>1, <1>2, GoneIs DEF IInv, Above, TypeOK, Dirs
  <2>4. QED
    BY <2>1, <2>2, <2>3
<1>4. Deletes \/ Renames => Owned(dest) \/ (Kept' = Kept /\ \A d \in Kept : hidden'[d].holds = hidden[d].holds)
  BY <1>1, <1>2, GoneIs, AbsentIs DEF IInv, Fine, Hands, Stands, Kept, Backups, Deletes, Renames, Quiet
<1>5. (Deletes => TidyDisk') /\ (Deletes \/ Renames => InstallSurvives')
  BY <1>1, <1>4, DiskAlone DEF Deletes, Renames
<1>6. Hands(p)'
  BY <1>1, <1>2, NoneIs, GoneIs DEF IInv, Fine, Hands, Backups, Outside, AfterDiscard
<1>7. Quiet => Stands(p)'
  BY <1>1, <1>2, NoneIs, AbsentIs DEF IInv, Fine, Hands, Stands, Unmoved, Moved, InPlace, AfterDiscard
<1>8. (Deletes => Tidy(p)') /\ (Renames => Spare(p)')
  BY <1>1, <1>2, AbsentIs, GoneIs DEF IInv, Fine, Tidy, Spare, Kept, Backups, Deletes, Renames, Stands, AfterDiscard, Quiet
<1>9. QED
  BY <1>1, <1>3, <1>5, <1>6, <1>7, <1>8, HolderStep DEF Fine, Deletes, Renames, Quiet, Outside

LEMMA TearStep == ASSUME IInv, NEW p \in Proc, Tear(p), faults' = faults PROVE IInv'
<1>1. /\ pc[p] = "discarding" /\ doomed[p] \in Dirs /\ hidden[doomed[p]].kind \in {"backup", "removing"}
      /\ pc'[p] = "discarding"
      /\ command'[p] = command[p] /\ todo'[p] = todo[p] /\ stage'[p] = stage[p] /\ aside'[p] = aside[p]
      /\ doomed'[p] = doomed[p] /\ outcome'[p] = outcome[p] /\ before'[p] = before[p]
      /\ UNCHANGED <<faults, lock, dest, made, live>>
  BY NoneIs DEF Tear, Goto, IInv, TypeOK, locals, Fine, Hands
<1>2. /\ hidden' \in [Dirs -> Dir \cup {Gone}] /\ hidden'[doomed[p]].kind = hidden[doomed[p]].kind
      /\ Owned(hidden[doomed[p]].holds)
      /\ \A e \in Dirs \ {doomed[p]} : hidden'[e] = hidden[e]
  BY <1>1, TearIs DEF IInv
<1>3. TypeOK' /\ Mine(p) /\ Above'
  <2>1. TypeOK'
    BY <1>1, <1>2 DEF Tear, Goto, IInv, TypeOK, Mine, locals
  <2>2. Mine(p)
    BY DEF Tear, Goto, IInv, TypeOK, Mine, locals
  <2>3. Above'
    BY <1>1, <1>2, GoneIs DEF IInv, Above, TypeOK, Dirs
  <2>4. QED
    BY <2>1, <2>2, <2>3
<1>4. Deletes \/ Renames => Owned(dest) \/ (Kept' = Kept /\ \A d \in Kept : hidden'[d].holds = hidden[d].holds)
  BY <1>1, <1>2, GoneIs, AbsentIs DEF IInv, Fine, Hands, Stands, Kept, Backups, Deletes, Renames, Quiet
<1>5. (Deletes => TidyDisk') /\ (Deletes \/ Renames => InstallSurvives')
  BY <1>1, <1>4, DiskAlone DEF Deletes, Renames
<1>6. Hands(p)'
  BY <1>1, <1>2, NoneIs DEF IInv, Fine, Hands, Backups, Outside
<1>7. Quiet => Stands(p)'
  BY <1>1, <1>2, NoneIs, AbsentIs DEF IInv, Fine, Hands, Stands, Unmoved, Moved, InPlace
<1>8. (Deletes => Tidy(p)') /\ (Renames => Spare(p)')
  BY <1>1, <1>2 DEF IInv, Fine, Tidy, Spare, Kept, Backups, Deletes, Renames
<1>9. QED
  BY <1>1, <1>3, <1>5, <1>6, <1>7, <1>8, HolderStep DEF Fine, Deletes, Renames, Quiet, Outside

LEMMA MakeStageStep == ASSUME IInv, NEW p \in Proc, MakeStage(p), faults' = faults PROVE IInv'
<1>1. /\ pc[p] = "install"
      /\ pc'[p] = "packaging"
      /\ stage'[p] = made + 1
      /\ command'[p] = command[p] /\ todo'[p] = todo[p] /\ aside'[p] = aside[p] /\ doomed'[p] = doomed[p]
      /\ outcome'[p] = outcome[p] /\ before'[p] = before[p]
      /\ UNCHANGED <<faults, lock, dest, live>>
  BY NoneIs DEF MakeStage, Goto, IInv, TypeOK, locals
<1>2. /\ hidden' \in [Dirs -> Dir \cup {Gone}] /\ made' \in 0 .. MaxDirs /\ made + 1 \in Dirs /\ made' = made + 1
      /\ hidden'[made + 1].kind = "staging" /\ hidden'[made + 1].holds = Absent
      /\ hidden[made + 1] = Gone
      /\ \A e \in Dirs \ {made + 1} : hidden'[e] = hidden[e]
  BY MakeDirIs, AbsentIs DEF MakeStage, IInv, Above, TypeOK, Dirs
<1>3. TypeOK' /\ Mine(p) /\ Above'
  <2>1. TypeOK'
    BY <1>1, <1>2 DEF MakeStage, Goto, IInv, TypeOK, Mine, locals
  <2>2. Mine(p)
    BY DEF MakeStage, Goto, IInv, TypeOK, Mine, locals
  <2>3. Above'
    BY <1>1, <1>2, GoneIs DEF IInv, Above, TypeOK, Dirs
  <2>4. QED
    BY <2>1, <2>2, <2>3
<1>4. Deletes \/ Renames => Owned(dest) \/ (Kept' = Kept /\ \A d \in Kept : hidden'[d].holds = hidden[d].holds)
  BY <1>1, <1>2, GoneIs, AbsentIs DEF IInv, Fine, Hands, Stands, Kept, Backups, Deletes, Renames, Quiet
<1>5. (Deletes => TidyDisk') /\ (Deletes \/ Renames => InstallSurvives')
  BY <1>1, <1>4, DiskAlone DEF Deletes, Renames
<1>6. Hands(p)'
  BY <1>1, <1>2, NoneIs, GoneIs DEF IInv, Fine, Hands, Backups, Outside
<1>7. Quiet => Stands(p)'
  BY <1>1, <1>2, NoneIs DEF IInv, Fine, Hands, Stands, Unmoved, Moved, InPlace
<1>8. (Deletes => Tidy(p)') /\ (Renames => Spare(p)')
  BY <1>1, <1>2 DEF IInv, Fine, Tidy, Spare, Kept, Backups, Deletes, Renames
<1>9. QED
  BY <1>1, <1>3, <1>5, <1>6, <1>7, <1>8, HolderStep DEF Fine, Deletes, Renames, Quiet, Outside

LEMMA MakeBackupStep == ASSUME IInv, NEW p \in Proc, MakeBackup(p), faults' = faults PROVE IInv'
<1>1. /\ pc[p] = "checking" /\ Owned(dest)
      /\ pc'[p] = "displacing"
      /\ aside'[p] = made + 1
      /\ command'[p] = command[p] /\ todo'[p] = todo[p] /\ stage'[p] = stage[p] /\ doomed'[p] = doomed[p]
      /\ outcome'[p] = outcome[p] /\ before'[p] = before[p]
      /\ UNCHANGED <<faults, lock, dest, live>>
  BY NoneIs DEF MakeBackup, Goto, IInv, TypeOK, locals
<1>2. /\ hidden' \in [Dirs -> Dir \cup {Gone}] /\ made' \in 0 .. MaxDirs /\ made + 1 \in Dirs /\ made' = made + 1
      /\ hidden'[made + 1].kind = "backup" /\ hidden'[made + 1].holds = Absent
      /\ hidden[made + 1] = Gone
      /\ \A e \in Dirs \ {made + 1} : hidden'[e] = hidden[e]
  BY MakeDirIs, AbsentIs DEF MakeBackup, IInv, Above, TypeOK, Dirs
<1>3. TypeOK' /\ Mine(p) /\ Above'
  <2>1. TypeOK'
    BY <1>1, <1>2 DEF MakeBackup, Goto, IInv, TypeOK, Mine, locals
  <2>2. Mine(p)
    BY DEF MakeBackup, Goto, IInv, TypeOK, Mine, locals
  <2>3. Above'
    BY <1>1, <1>2, GoneIs DEF IInv, Above, TypeOK, Dirs
  <2>4. QED
    BY <2>1, <2>2, <2>3
<1>4. Deletes \/ Renames => Owned(dest) \/ (Kept' = Kept /\ \A d \in Kept : hidden'[d].holds = hidden[d].holds)
  BY <1>1, <1>2, GoneIs, AbsentIs DEF IInv, Fine, Hands, Stands, Kept, Backups, Deletes, Renames, Quiet
<1>5. (Deletes => TidyDisk') /\ (Deletes \/ Renames => InstallSurvives')
  BY <1>1, <1>4, DiskAlone DEF Deletes, Renames
<1>6. Hands(p)'
  BY <1>1, <1>2, NoneIs, GoneIs DEF IInv, Fine, Hands, Backups, Outside
<1>7. Quiet => Stands(p)'
  BY <1>1, <1>2, NoneIs, GoneIs DEF IInv, Fine, Hands, Stands, Unmoved, Moved, InPlace
<1>8. (Deletes => Tidy(p)') /\ (Renames => Spare(p)')
  BY <1>1, <1>2, AbsentIs DEF IInv, Fine, Tidy, Spare, Kept, Backups, Deletes, Renames
<1>9. QED
  BY <1>1, <1>3, <1>5, <1>6, <1>7, <1>8, HolderStep DEF Fine, Deletes, Renames, Quiet, Outside

LEMMA MakeRemovingStep == ASSUME IInv, NEW p \in Proc, MakeRemoving(p), faults' = faults PROVE IInv'
<1>1. /\ pc[p] = "uninstall" /\ Owned(dest)
      /\ pc'[p] = "removing"
      /\ aside'[p] = made + 1
      /\ command'[p] = command[p] /\ todo'[p] = todo[p] /\ stage'[p] = stage[p] /\ doomed'[p] = doomed[p]
      /\ outcome'[p] = outcome[p] /\ before'[p] = before[p]
      /\ UNCHANGED <<faults, lock, dest, live>>
  BY NoneIs DEF MakeRemoving, Goto, IInv, TypeOK, locals
<1>2. /\ hidden' \in [Dirs -> Dir \cup {Gone}] /\ made' \in 0 .. MaxDirs /\ made + 1 \in Dirs /\ made' = made + 1
      /\ hidden'[made + 1].kind = "removing" /\ hidden'[made + 1].holds = Absent
      /\ hidden[made + 1] = Gone
      /\ \A e \in Dirs \ {made + 1} : hidden'[e] = hidden[e]
  BY MakeDirIs, AbsentIs DEF MakeRemoving, IInv, Above, TypeOK, Dirs
<1>3. TypeOK' /\ Mine(p) /\ Above'
  <2>1. TypeOK'
    BY <1>1, <1>2 DEF MakeRemoving, Goto, IInv, TypeOK, Mine, locals
  <2>2. Mine(p)
    BY DEF MakeRemoving, Goto, IInv, TypeOK, Mine, locals
  <2>3. Above'
    BY <1>1, <1>2, GoneIs DEF IInv, Above, TypeOK, Dirs
  <2>4. QED
    BY <2>1, <2>2, <2>3
<1>4. Deletes \/ Renames => Owned(dest) \/ (Kept' = Kept /\ \A d \in Kept : hidden'[d].holds = hidden[d].holds)
  BY <1>1, <1>2, GoneIs, AbsentIs DEF IInv, Fine, Hands, Stands, Kept, Backups, Deletes, Renames, Quiet
<1>5. (Deletes => TidyDisk') /\ (Deletes \/ Renames => InstallSurvives')
  BY <1>1, <1>4, DiskAlone DEF Deletes, Renames
<1>6. Hands(p)'
  BY <1>1, <1>2, NoneIs, GoneIs DEF IInv, Fine, Hands, Backups, Outside
<1>7. Quiet => Stands(p)'
  BY <1>1, <1>2, NoneIs, GoneIs DEF IInv, Fine, Hands, Stands, Unmoved, Moved, InPlace
<1>8. (Deletes => Tidy(p)') /\ (Renames => Spare(p)')
  BY <1>1, <1>2, AbsentIs DEF IInv, Fine, Tidy, Spare, Kept, Backups, Deletes, Renames
<1>9. QED
  BY <1>1, <1>3, <1>5, <1>6, <1>7, <1>8, HolderStep DEF Fine, Deletes, Renames, Quiet, Outside

LEMMA PackageStep == ASSUME IInv, NEW p \in Proc, Package(p), faults' = faults PROVE IInv'
<1>1. /\ pc[p] = "packaging" /\ stage[p] \in Dirs /\ hidden[stage[p]].kind = "staging"
      /\ pc'[p] = "checking"
      /\ command'[p] = command[p] /\ todo'[p] = todo[p] /\ stage'[p] = stage[p] /\ aside'[p] = aside[p]
      /\ doomed'[p] = doomed[p] /\ outcome'[p] = outcome[p] /\ before'[p] = before[p]
      /\ UNCHANGED <<faults, lock, dest, made, live>>
  BY NoneIs DEF Package, Goto, IInv, TypeOK, locals, Fine, Hands
<1>2. /\ hidden' \in [Dirs -> Dir \cup {Gone}]
      /\ hidden'[stage[p]].kind = hidden[stage[p]].kind /\ hidden'[stage[p]].holds = Whole(stage[p])
      /\ \A e \in Dirs \ {stage[p]} : hidden'[e] = hidden[e]
  BY <1>1, HoldsIs, WholeIs DEF Package, IInv, TypeOK
<1>3. TypeOK' /\ Mine(p) /\ Above'
  <2>1. TypeOK'
    BY <1>1, <1>2 DEF Package, Goto, IInv, TypeOK, Mine, locals
  <2>2. Mine(p)
    BY DEF Package, Goto, IInv, TypeOK, Mine, locals
  <2>3. Above'
    BY <1>1, <1>2, GoneIs DEF IInv, Above, TypeOK, Dirs
  <2>4. QED
    BY <2>1, <2>2, <2>3
<1>4. Deletes \/ Renames => Owned(dest) \/ (Kept' = Kept /\ \A d \in Kept : hidden'[d].holds = hidden[d].holds)
  BY <1>1, <1>2, GoneIs, AbsentIs DEF IInv, Fine, Hands, Stands, Kept, Backups, Deletes, Renames, Quiet
<1>5. (Deletes => TidyDisk') /\ (Deletes \/ Renames => InstallSurvives')
  BY <1>1, <1>4, DiskAlone DEF Deletes, Renames
<1>6. Hands(p)'
  BY <1>1, <1>2, NoneIs DEF IInv, Fine, Hands, Backups, Outside
<1>7. Quiet => Stands(p)'
  BY <1>1, <1>2, NoneIs DEF IInv, Fine, Hands, Stands, Unmoved, Moved, InPlace
<1>8. (Deletes => Tidy(p)') /\ (Renames => Spare(p)')
  BY <1>1, <1>2 DEF IInv, Fine, Tidy, Spare, Kept, Backups, Deletes, Renames
<1>9. QED
  BY <1>1, <1>3, <1>5, <1>6, <1>7, <1>8, HolderStep DEF Fine, Deletes, Renames, Quiet, Outside

LEMMA CleanStageStep == ASSUME IInv, NEW p \in Proc, CleanStage(p), faults' = faults PROVE IInv'
<1>1. /\ pc[p] = "cleaning" /\ stage[p] \in Dirs
      /\ pc'[p] = IF aside[p] = None THEN "finishing" ELSE "restoring"
      /\ command'[p] = command[p] /\ todo'[p] = todo[p] /\ stage'[p] = stage[p] /\ aside'[p] = aside[p]
      /\ doomed'[p] = doomed[p] /\ outcome'[p] = outcome[p] /\ before'[p] = before[p]
      /\ UNCHANGED <<faults, lock, dest, made, live>>
  BY NoneIs DEF CleanStage, Goto, IInv, TypeOK, locals, Fine, Hands
<1>2. /\ hidden' \in [Dirs -> Dir \cup {Gone}] /\ hidden'[stage[p]] \in {Gone, hidden[stage[p]]}
      /\ \A e \in Dirs \ {stage[p]} : hidden'[e] = hidden[e]
  <2>1. CASE hidden' = [hidden EXCEPT ![stage[p]] = Gone]
    BY <1>1, <2>1, RemoveDirIs DEF IInv
  <2>2. CASE UNCHANGED hidden
    BY <2>2 DEF IInv, TypeOK
  <2>3. QED
    BY <2>1, <2>2 DEF CleanStage
<1>3. TypeOK' /\ Mine(p) /\ Above'
  <2>1. TypeOK'
    BY <1>1, <1>2 DEF CleanStage, Goto, IInv, TypeOK, Mine, locals
  <2>2. Mine(p)
    BY DEF CleanStage, Goto, IInv, TypeOK, Mine, locals
  <2>3. Above'
    BY <1>1, <1>2, GoneIs DEF IInv, Above, TypeOK, Dirs
  <2>4. QED
    BY <2>1, <2>2, <2>3
<1>4. Deletes \/ Renames => Owned(dest) \/ (Kept' = Kept /\ \A d \in Kept : hidden'[d].holds = hidden[d].holds)
  BY <1>1, <1>2, GoneIs, AbsentIs DEF IInv, Fine, Hands, Stands, Kept, Backups, Deletes, Renames, Quiet
<1>5. (Deletes => TidyDisk') /\ (Deletes \/ Renames => InstallSurvives')
  BY <1>1, <1>4, DiskAlone DEF Deletes, Renames
<1>6. Hands(p)'
  BY <1>1, <1>2, NoneIs, GoneIs DEF IInv, Fine, Hands, Backups, Outside, TypeOK
<1>7. Quiet => Stands(p)'
  BY <1>1, <1>2, NoneIs DEF IInv, Fine, Hands, Stands, Unmoved, Moved, InPlace, TypeOK
<1>8. (Deletes => Tidy(p)') /\ (Renames => Spare(p)')
  BY <1>1, <1>2 DEF IInv, Fine, Tidy, Spare, Kept, Backups, Deletes, Renames, Hands
<1>9. QED
  BY <1>1, <1>3, <1>5, <1>6, <1>7, <1>8, HolderStep DEF Fine, Deletes, Renames, Quiet, Outside

LEMMA DisplaceStep == ASSUME IInv, NEW p \in Proc, Displace(p), faults' = faults PROVE IInv'
<1>1. /\ pc[p] = "displacing" /\ aside[p] \in Dirs /\ hidden[aside[p]].kind = "backup"
      /\ pc'[p] = "replacing"
      /\ command'[p] = command[p] /\ todo'[p] = todo[p] /\ stage'[p] = stage[p] /\ aside'[p] = aside[p]
      /\ doomed'[p] = doomed[p] /\ outcome'[p] = outcome[p] /\ before'[p] = before[p]
      /\ UNCHANGED <<faults, lock, made, live>> /\ dest' = Absent
  BY NoneIs DEF Displace, Goto, IInv, TypeOK, locals, Fine, Hands
<1>2. /\ hidden' \in [Dirs -> Dir \cup {Gone}]
      /\ hidden'[aside[p]].kind = hidden[aside[p]].kind /\ hidden'[aside[p]].holds = dest
      /\ \A e \in Dirs \ {aside[p]} : hidden'[e] = hidden[e]
  BY <1>1, HoldsIs DEF Displace, IInv, TypeOK
<1>3. TypeOK' /\ Mine(p) /\ Above'
  <2>1. TypeOK'
    BY <1>1, <1>2, AbsentIs DEF Displace, Goto, IInv, TypeOK, Mine, locals
  <2>2. Mine(p)
    BY DEF Displace, Goto, IInv, TypeOK, Mine, locals
  <2>3. Above'
    BY <1>1, <1>2, GoneIs DEF IInv, Above, TypeOK, Dirs
  <2>4. QED
    BY <2>1, <2>2, <2>3
<1>4. Quiet => Owned(dest) /\ aside[p] = made /\ Kept' = Kept \cup {aside[p]}
  BY <1>1, <1>2, NoneIs DEF IInv, Fine, Hands, Stands, Kept, Backups
<1>5. (Deletes => TidyDisk') /\ (Deletes \/ Renames => InstallSurvives')
  <2>1. Deletes => TidyDisk'
    BY <1>1, <1>2, <1>4, AbsentIs, PlaceIs DEF IInv, Fine, Tidy, TidyDisk, Deletes, TypeOK, Owned
  <2>2. SUFFICES ASSUME Quiet, InstallSurvives, live # None PROVE InstallSurvives'
    BY <1>1, <2>1 DEF IInv, Deletes, Renames, Quiet, InstallSurvives
  <2>3. dest = Whole(live)
    BY <1>4, <2>2, SurvivesIs
  <2>4. Kept' \in SUBSET Dirs /\ aside[p] \in Kept' /\ \A e \in Kept' : e <= aside[p]
    BY <1>1, <1>4, GoneIs, AbsentIs, <2>2 DEF IInv, Above, Kept, Backups, TypeOK, Dirs
  <2>5. Newest(Kept') = aside[p]
    BY <2>4, NewestOnly
  <2>6. QED
    BY <1>1, <1>2, <2>3, <2>4, <2>5, AbsentIs DEF InstallSurvives, Kept
<1>6. Hands(p)'
  BY <1>1, <1>2, NoneIs, GoneIs DEF IInv, Fine, Hands, Backups, Outside
<1>7. Quiet => Stands(p)'
  BY <1>1, <1>2, NoneIs DEF IInv, Fine, Hands, Stands, Unmoved, Moved, InPlace
<1>8. (Deletes => Tidy(p)') /\ (Renames => Spare(p)')
  BY <1>1, <1>2 DEF IInv, Fine, Tidy, Spare, Kept, Backups, Deletes, Renames, Hands
<1>9. QED
  BY <1>1, <1>3, <1>5, <1>6, <1>7, <1>8, HolderStep DEF Fine, Deletes, Renames, Quiet, Outside

LEMMA ReplaceStep == ASSUME IInv, NEW p \in Proc, Replace(p), faults' = faults PROVE IInv'
<1>1. /\ pc[p] = "replacing" /\ stage[p] \in Dirs /\ hidden[stage[p]].kind = "staging" /\ dest = Absent
      /\ pc'[p] = "replaced"
      /\ command'[p] = command[p] /\ todo'[p] = todo[p] /\ stage'[p] = stage[p] /\ aside'[p] = aside[p]
      /\ doomed'[p] = doomed[p] /\ outcome'[p] = outcome[p] /\ before'[p] = before[p]
      /\ UNCHANGED <<faults, lock, made>> /\ dest' = hidden[stage[p]].holds /\ live' = stage[p]
  BY NoneIs DEF Replace, Goto, IInv, TypeOK, locals, Fine, Hands
<1>2. hidden' \in [Dirs -> Dir \cup {Gone}] /\ hidden'[stage[p]] = Gone /\ \A e \in Dirs \ {stage[p]} : hidden'[e] = hidden[e]
  BY <1>1, RemoveDirIs DEF IInv, Fine, Hands, Replace
<1> dest' \in Place
  BY <1>1 DEF IInv, TypeOK, Dir, Gone
<1>3. TypeOK' /\ Mine(p) /\ Above'
  <2>1. TypeOK'
    BY <1>1, <1>2 DEF Replace, Goto, IInv, TypeOK, Mine, locals
  <2>2. Mine(p)
    BY DEF Replace, Goto, IInv, TypeOK, Mine, locals
  <2>3. Above'
    BY <1>1, <1>2, GoneIs DEF IInv, Above, TypeOK, Dirs
  <2>4. QED
    BY <2>1, <2>2, <2>3
<1>4. Quiet => dest' = Whole(live') /\ stage[p] \in Dirs
  BY <1>1 DEF IInv, Fine, Stands
<1>5. (Deletes => TidyDisk') /\ (Deletes \/ Renames => InstallSurvives')
  BY <1>1, <1>4, WholeIs DEF TidyDisk, InstallSurvives, Deletes, Renames, Quiet
<1>6. Hands(p)'
  BY <1>1, <1>2, NoneIs, GoneIs DEF IInv, Fine, Hands, Backups, Outside, TypeOK
<1>7. Quiet => Stands(p)'
  BY <1>1, <1>2, NoneIs DEF IInv, Fine, Hands, Stands, Unmoved, Moved, InPlace
<1>8. (Deletes => Tidy(p)') /\ (Renames => Spare(p)')
  BY <1>1, <1>2 DEF IInv, Fine, Tidy, Spare, Kept, Backups, Deletes, Renames, Hands
<1>9. QED
  BY <1>1, <1>3, <1>5, <1>6, <1>7, <1>8, HolderStep DEF Fine, Deletes, Renames, Quiet, Outside

LEMMA PutBackStep == ASSUME IInv, NEW p \in Proc, PutBack(p), faults' = faults PROVE IInv'
<1>1. /\ pc[p] = "restoring" /\ aside[p] \in Dirs /\ hidden[aside[p]].kind = "backup"
      /\ dest = Absent /\ hidden[aside[p]].holds # Absent
      /\ pc'[p] = "discarding"
      /\ doomed'[p] = aside[p]
      /\ command'[p] = command[p] /\ todo'[p] = todo[p] /\ stage'[p] = stage[p] /\ aside'[p] = aside[p]
      /\ outcome'[p] = outcome[p] /\ before'[p] = before[p]
      /\ UNCHANGED <<faults, lock, made, live>> /\ dest' = hidden[aside[p]].holds
  BY NoneIs DEF PutBack, Goto, IInv, TypeOK, locals, Displaced, Fine, Hands
<1>2. /\ hidden' \in [Dirs -> Dir \cup {Gone}]
      /\ hidden'[aside[p]].kind = hidden[aside[p]].kind /\ hidden'[aside[p]].holds = Absent
      /\ \A e \in Dirs \ {aside[p]} : hidden'[e] = hidden[e]
  BY <1>1, HoldsIs, AbsentIs DEF PutBack, IInv, TypeOK
<1> dest' \in Place
  BY <1>1 DEF IInv, TypeOK, Dir, Gone
<1>3. TypeOK' /\ Mine(p) /\ Above'
  <2>1. TypeOK'
    BY <1>1, <1>2 DEF PutBack, Goto, IInv, TypeOK, Mine, locals, Displaced
  <2>2. Mine(p)
    BY DEF PutBack, Goto, IInv, TypeOK, Mine, locals, Displaced
  <2>3. Above'
    BY <1>1, <1>2, GoneIs DEF IInv, Above, TypeOK, Dirs
  <2>4. QED
    BY <2>1, <2>2, <2>3
<1>4. Quiet => /\ Moved(p) /\ dest' = before[p] /\ Owned(dest')
               /\ aside[p] \in Kept /\ aside[p] = made
  BY <1>1, <1>2, NoneIs, WholeIs DEF IInv, Fine, Hands, Stands, Unmoved, Moved, InPlace, Kept, Backups, TypeOK
<1>5. (Deletes => TidyDisk') /\ (Deletes \/ Renames => InstallSurvives')
  <2>1. Deletes => TidyDisk'
    BY <1>1, <1>4, AbsentIs DEF IInv, TidyDisk, Deletes, Quiet
  <2>2. SUFFICES ASSUME Quiet, InstallSurvives, live # None PROVE InstallSurvives'
    BY <1>1, <2>1 DEF IInv, Deletes, Renames, Quiet, InstallSurvives
  <2>3. Kept \in SUBSET Dirs /\ aside[p] \in Kept /\ \A e \in Kept : e <= aside[p]
    BY <1>1, <1>4, GoneIs, AbsentIs, <2>2 DEF IInv, Above, Kept, Backups, TypeOK, Dirs
  <2>4. Newest(Kept) = aside[p]
    BY <2>3, NewestOnly
  <2>5. hidden[aside[p]].holds = Whole(live)
    BY <1>1, <2>2, <2>4, SurvivesIs, WholeIs, AbsentIs DEF IInv, TypeOK
  <2>6. QED
    BY <1>1, <2>5 DEF InstallSurvives
<1>6. Hands(p)'
  BY <1>1, <1>2, NoneIs, GoneIs DEF IInv, Fine, Hands, Backups, Outside
<1>7. Quiet => Stands(p)'
  BY <1>1, <1>2, NoneIs, <1>4 DEF IInv, Fine, Hands, Stands, Unmoved, Moved, InPlace
<1>8. (Deletes => Tidy(p)') /\ (Renames => Spare(p)')
  BY <1>1, <1>2 DEF IInv, Fine, Tidy, Spare, Kept, Backups, Deletes, Renames, Hands
<1>9. QED
  BY <1>1, <1>3, <1>5, <1>6, <1>7, <1>8, HolderStep DEF Fine, Deletes, Renames, Quiet, Outside

LEMMA RemoveStep == ASSUME IInv, NEW p \in Proc, Remove(p), faults' = faults PROVE IInv'
<1>1. /\ pc[p] = "removing" /\ aside[p] \in Dirs /\ hidden[aside[p]].kind = "removing"
      /\ pc'[p] = "removed"
      /\ command'[p] = command[p] /\ todo'[p] = todo[p] /\ stage'[p] = stage[p] /\ aside'[p] = aside[p]
      /\ doomed'[p] = doomed[p] /\ outcome'[p] = outcome[p] /\ before'[p] = before[p]
      /\ UNCHANGED <<faults, lock, made>> /\ dest' = Absent /\ live' = None
  BY NoneIs DEF Remove, Goto, IInv, TypeOK, locals, Fine, Hands
<1>2. /\ hidden' \in [Dirs -> Dir \cup {Gone}]
      /\ hidden'[aside[p]].kind = hidden[aside[p]].kind /\ hidden'[aside[p]].holds = dest
      /\ \A e \in Dirs \ {aside[p]} : hidden'[e] = hidden[e]
  BY <1>1, HoldsIs DEF Remove, IInv, TypeOK
<1>3. TypeOK' /\ Mine(p) /\ Above'
  <2>1. TypeOK'
    BY <1>1, <1>2, AbsentIs DEF Remove, Goto, IInv, TypeOK, Mine, locals
  <2>2. Mine(p)
    BY DEF Remove, Goto, IInv, TypeOK, Mine, locals
  <2>3. Above'
    BY <1>1, <1>2, GoneIs DEF IInv, Above, TypeOK, Dirs
  <2>4. QED
    BY <2>1, <2>2, <2>3
<1>4. Quiet => Owned(dest) /\ Kept' = Kept
  BY <1>1, <1>2 DEF IInv, Fine, Stands, Kept, Backups
<1>5. (Deletes => TidyDisk') /\ (Deletes \/ Renames => InstallSurvives')
  BY <1>1, <1>4, AbsentIs DEF IInv, Fine, Tidy, TidyDisk, InstallSurvives, Deletes
<1>6. Hands(p)'
  BY <1>1, <1>2, NoneIs DEF IInv, Fine, Hands, Backups, Outside
<1>7. Quiet => Stands(p)'
  BY <1>1, <1>2, NoneIs DEF IInv, Fine, Hands, Stands, Unmoved, Moved, InPlace
<1>8. (Deletes => Tidy(p)') /\ (Renames => Spare(p)')
  BY <1>1, <1>2 DEF IInv, Fine, Tidy, Spare, Kept, Backups, Deletes, Renames
<1>9. QED
  BY <1>1, <1>3, <1>5, <1>6, <1>7, <1>8, HolderStep DEF Fine, Deletes, Renames, Quiet, Outside

LEMMA UndoStep == ASSUME IInv, NEW p \in Proc, Undo(p), faults' = faults PROVE IInv'
<1>1. /\ pc[p] = "undoing" /\ aside[p] \in Dirs /\ hidden[aside[p]].kind = "removing"
      /\ pc'[p] = "discarding"
      /\ doomed'[p] = aside[p]
      /\ command'[p] = command[p] /\ todo'[p] = todo[p] /\ stage'[p] = stage[p] /\ aside'[p] = aside[p]
      /\ outcome'[p] = outcome[p] /\ before'[p] = before[p]
      /\ UNCHANGED <<faults, lock, made>>
  BY NoneIs DEF Undo, Goto, IInv, TypeOK, locals, Fine, Hands
<1>2. /\ hidden' \in [Dirs -> Dir \cup {Gone}] /\ dest' \in Place /\ live' \in Dirs \cup {None}
      /\ hidden'[aside[p]].kind = hidden[aside[p]].kind
      /\ \A e \in Dirs \ {aside[p]} : hidden'[e] = hidden[e]
      /\ \/ UNCHANGED <<dest, hidden, live>> /\ ~(dest = Absent /\ hidden[aside[p]].holds # Absent)
         \/ /\ dest = Absent /\ hidden[aside[p]].holds # Absent
            /\ dest' = hidden[aside[p]].holds /\ hidden'[aside[p]].holds = Absent
            /\ live' = Established(dest')
  <2>1. CASE Displaced(p)
    <3>1. dest' = hidden[aside[p]].holds /\ dest' \in Place /\ live' = Established(dest')
      BY <1>1, <2>1 DEF Undo, IInv, TypeOK, Dir, Gone
    <3>2. live' \in Dirs \cup {None}
      BY <3>1, PlaceIs DEF Established
    <3>3. QED
      BY <1>1, <2>1, <3>1, <3>2, HoldsIs, AbsentIs DEF Undo, IInv, Displaced
  <2>2. CASE ~Displaced(p)
    BY <2>2 DEF Undo, IInv, TypeOK, Displaced
  <2>3. QED
    BY <2>1, <2>2
<1> dest' \in Place /\ live' \in Dirs \cup {None}
  BY <1>2
<1>3. TypeOK' /\ Mine(p) /\ Above'
  <2>1. TypeOK'
    BY <1>1, <1>2 DEF Undo, Goto, IInv, TypeOK, Mine, locals
  <2>2. Mine(p)
    BY DEF Undo, Goto, IInv, TypeOK, Mine, locals
  <2>3. Above'
    BY <1>1, <1>2, GoneIs DEF IInv, Above, TypeOK, Dirs
  <2>4. QED
    BY <2>1, <2>2, <2>3
<1>4. Quiet => \/ UNCHANGED <<dest, hidden, live>> /\ dest = before[p]
               \/ Moved(p) /\ dest' = before[p] /\ Owned(dest') /\ live' = Established(dest') /\ Kept' = Kept
  BY <1>1, <1>2, NoneIs, AbsentIs DEF IInv, Fine, Stands, Unmoved, Moved, Kept, Backups
<1>5. (Deletes => TidyDisk') /\ (Deletes \/ Renames => InstallSurvives')
  <2>1. CASE UNCHANGED <<dest, hidden, live>>
    BY <1>1, <2>1, DiskAlone DEF Kept, Backups
  <2>2. CASE Quiet /\ dest' = before[p] /\ Owned(dest') /\ live' = Established(dest')
    <3>1. Deletes => TidyDisk'
      BY <1>1, <2>2 DEF IInv, Fine, Tidy, TidyDisk, Deletes
    <3>2. InstallSurvives'
      BY <1>2, <2>2, PlaceIs DEF InstallSurvives, Established
    <3>3. QED
      BY <3>1, <3>2
  <2>3. QED
    BY <1>1, <1>4, <2>1, <2>2 DEF Deletes, Renames, Quiet
<1>6. Hands(p)'
  BY <1>1, <1>2, NoneIs DEF IInv, Fine, Hands, Backups, Outside
<1>7. Quiet => Stands(p)'
  BY <1>1, <1>2, NoneIs, <1>4, AbsentIs DEF IInv, Fine, Hands, Stands, Unmoved, Moved, InPlace
<1>8. (Deletes => Tidy(p)') /\ (Renames => Spare(p)')
  BY <1>1, <1>2 DEF IInv, Fine, Tidy, Spare, Kept, Backups, Deletes, Renames, Hands
<1>9. QED
  BY <1>1, <1>3, <1>5, <1>6, <1>7, <1>8, HolderStep DEF Fine, Deletes, Renames, Quiet, Outside

LEMMA RestoreStep == ASSUME IInv, NEW p \in Proc, Restore(p), faults' = faults PROVE IInv'
<1> DEFINE d == NextBackup(p)
<1>1. TypeOK /\ pc[p] = "recovering" /\ todo[p] # {} /\ d \in todo[p] /\ d \in Dirs /\ \A e \in todo[p] : e <= d
  BY NextBackupIs DEF Restore, Goto, IInv
<1>2. Owned(hidden[d].holds) /\ dest = Absent /\ dest' = hidden[d].holds
      /\ live' = IF live = None THEN Established(hidden[d].holds) ELSE live
  BY DEF Restore
<1>3. todo' = [todo EXCEPT ![p] = todo[p] \ {d}] /\ doomed' = [doomed EXCEPT ![p] = d]
      /\ hidden' = [hidden EXCEPT ![d].holds = Absent]
  BY DEF Restore, Looked
<1> HIDE DEF d
<1>4. /\ pc'[p] = "discarding" /\ todo'[p] = todo[p] \ {d} /\ doomed'[p] = d
      /\ stage'[p] = stage[p] /\ aside'[p] = aside[p] /\ outcome'[p] = outcome[p] /\ before'[p] = before[p]
      /\ UNCHANGED <<faults, lock, made>>
  BY <1>1, <1>3 DEF Restore, Goto, TypeOK
<1>5. d \in Kept /\ hidden[d].kind = "backup" /\ outcome[p] = "none"
  BY <1>1, <1>2 DEF IInv, Fine, Hands, Kept, Backups
<1>6. /\ hidden' \in [Dirs -> Dir \cup {Gone}]
      /\ hidden'[d].kind = "backup" /\ hidden'[d].holds = Absent
      /\ \A e \in Dirs \ {d} : hidden'[e] = hidden[e]
  BY <1>1, <1>3, <1>5, HoldsIs, AbsentIs
<1>7. dest' \in Place /\ Owned(dest') /\ live' \in Dirs \cup {None}
  <2>1. hidden[d].holds \in Place
    BY <1>1, <1>5 DEF TypeOK, Dir, Gone
  <2>2. QED
    BY <1>1, <1>2, <2>1, PlaceIs DEF Established, TypeOK
<1>8. TypeOK' /\ Mine(p) /\ Above'
  <2>1. TypeOK'
    BY <1>1, <1>3, <1>6, <1>7 DEF Restore, Goto, TypeOK
  <2>2. Mine(p)
    BY <1>1, <1>3 DEF Restore, Goto, TypeOK, Mine
  <2>3. Above'
    BY <1>4, <1>5, <1>6, GoneIs DEF IInv, Above
  <2>4. QED
    BY <2>1, <2>2, <2>3
<1>9. Deletes => TidyDisk' /\ Kept \subseteq {d}
  BY <1>2, <1>4, <1>5, <1>7, AbsentIs DEF IInv, TidyDisk, Deletes, Quiet
<1>10. Deletes \/ Renames => InstallSurvives'
  <2> SUFFICES ASSUME Deletes \/ Renames, live' # None PROVE dest' = Whole(live')
    BY <1>4 DEF InstallSurvives, Deletes, Renames, Quiet
  <2>1. CASE live = None
    BY <1>2, <1>7, <2>1, PlaceIs DEF Established
  <2>2. CASE live # None
    <3>1. dest # Whole(live) /\ live' = live
      BY <1>1, <1>2, <2>2, WholeIs DEF TypeOK
    <3>2. Kept \subseteq todo[p] \cup {d}
      BY <1>1, <1>2, <1>9 DEF IInv, Fine, Spare
    <3>3. Kept \in SUBSET Dirs /\ \A e \in Kept : e <= d
      BY <1>1, <3>2 DEF Kept, Backups, Dirs
    <3>4. Newest(Kept) = d
      BY <1>5, <3>3, NewestOnly
    <3>5. QED
      BY <1>2, <2>2, <3>1, <3>4, SurvivesIs DEF IInv
  <2>3. QED
    BY <2>1, <2>2
<1>11. Hands(p)'
  BY <1>1, <1>4, <1>6 DEF IInv, Fine, Hands, Backups
<1>12. Stands(p)'
  BY <1>4, <1>5, <1>6, <1>7 DEF Stands
<1>13. (Deletes => Tidy(p)') /\ Spare(p)'
  BY <1>1, <1>4, <1>6, <1>9, AbsentIs DEF IInv, Fine, Tidy, Spare, Kept, Backups
<1>14. QED
  BY <1>1, <1>4, <1>8, <1>9, <1>10, <1>11, <1>12, <1>13, HolderStep DEF Fine, Deletes, Quiet, Outside

LEMMA SweepStep == ASSUME IInv, NEW p \in Proc, NEW d \in Dirs, Sweep(p, d), faults' = faults PROVE IInv'
<1>1. /\ pc[p] = "sweeping" /\ d \in Garbage
      /\ UNCHANGED <<faults, dest, made, lock, live, pc, command, todo, stage, aside, doomed, outcome, before>>
  BY DEF Sweep, locals
<1>2. hidden' \in [Dirs -> Dir \cup {Gone}] /\ hidden'[d] = Gone /\ \A e \in Dirs \ {d} : hidden'[e] = hidden[e]
  BY RemoveDirIs DEF Sweep, IInv
<1>3. TypeOK' /\ Mine(p) /\ Above'
  BY <1>1, <1>2 DEF IInv, TypeOK, Mine, Above
<1>4. Kept' = Kept /\ \A e \in Kept : hidden'[e].holds = hidden[e].holds
  BY <1>1, <1>2, GoneIs DEF Kept, Backups, Garbage
<1>5. Fine(p)'
  <2>1. Hands(p)'
    BY <1>1 DEF IInv, Fine, Hands
  <2>2. Stands(p)' /\ Spare(p)'
    BY <1>1 DEF Stands, Spare
  <2>3. Deletes => Tidy(p)'
    BY <1>1 DEF IInv, Fine, Tidy
  <2>4. QED
    BY <1>1, <2>1, <2>2, <2>3 DEF Fine, Deletes, Quiet
<1>6. QED
  BY <1>1, <1>3, <1>4, <1>5, DiskAlone, HolderStep DEF Outside

LEMMA FinishStep == ASSUME IInv, NEW p \in Proc, Finish(p), faults' = faults PROVE IInv'
<1>1. /\ pc[p] = "finishing"
      /\ pc'[p] = "idle" /\ lock' = None
      /\ stage'[p] = None /\ aside'[p] = None /\ outcome'[p] = "none" /\ before'[p] = Absent
      /\ UNCHANGED <<faults, dest, hidden, made, live>>
  BY DEF Finish, Goto, IInv, TypeOK
<1>2. TypeOK' /\ Mine(p) /\ Above'
  BY AbsentIs DEF Finish, Goto, IInv, TypeOK, Mine, Above
<1>3. Fine(p)'
  BY <1>1, AbsentIs DEF Fine, Hands, Stands, Tidy, Spare
<1>4. QED
  BY <1>1, <1>2, <1>3, DiskAlone, HolderStep DEF Outside, Kept, Backups

-----------------------------------------------------------------------------
(* Steps of a process that waits, and of the world.                        *)

LEMMA WaiterStep ==
  ASSUME IInv, NEW p \in Proc, pc[p] \in Outside, Mine(p), UNCHANGED <<faults, dest, hidden, made, live>>,
         TypeOK', Locked', Fine(p)'
  PROVE  IInv'
<1>1. (Deletes => TidyDisk') /\ (Deletes \/ Renames => InstallSurvives')
  BY DiskAlone DEF Kept, Backups
<1>2. \A q \in Proc \ {p} : Fine(q)'
  <2> SUFFICES ASSUME NEW q \in Proc \ {p} PROVE Fine(q)'
    OBVIOUS
  <2>1. Fine(q)
    BY DEF IInv
  <2>2. /\ pc'[q] = pc[q] /\ todo'[q] = todo[q] /\ stage'[q] = stage[q] /\ aside'[q] = aside[q]
        /\ doomed'[q] = doomed[q] /\ outcome'[q] = outcome[q] /\ before'[q] = before[q]
    BY DEF Mine
  <2>3. Hands(q)'
    BY <2>1, <2>2 DEF Fine, Hands, Backups
  <2>4. Quiet => Stands(q)'
    BY <2>1, <2>2 DEF Fine, Stands, Unmoved, Moved, InPlace
  <2>5. (Deletes => Tidy(q)') /\ (Renames => Spare(q)')
    BY <2>1, <2>2 DEF Fine, Tidy, Spare, Kept, Backups
  <2>6. QED
    BY <2>3, <2>4, <2>5 DEF Fine, Deletes, Renames, Quiet
<1>3. Above'
  BY DEF IInv, Above
<1>4. QED
  BY <1>1, <1>2, <1>3 DEF IInv, Deletes, Renames, Quiet

LEMMA TakeLockStep == ASSUME IInv, NEW p \in Proc, TakeLock(p), faults' = faults PROVE IInv'
<1>1. /\ pc[p] = "waiting" /\ pc'[p] = "sweeping"
      /\ stage'[p] = stage[p] /\ aside'[p] = aside[p] /\ outcome'[p] = outcome[p] /\ before'[p] = before[p]
      /\ UNCHANGED <<faults, dest, hidden, made, live>>
  BY DEF TakeLock, Goto, IInv, TypeOK, locals
<1>2. TypeOK' /\ Mine(p)
  BY DEF TakeLock, Goto, IInv, TypeOK, Mine, locals
<1>3. Locked'
  BY <1>1, <1>2, NoneIs DEF TakeLock, Locked, IInv, Mine, Outside
<1>4. Fine(p)'
  <2>1. Hands(p)'
    BY <1>1 DEF IInv, Fine, Hands, Outside
  <2>2. Stands(p)' /\ Spare(p)'
    BY <1>1 DEF Stands, Spare
  <2>3. Deletes => Tidy(p)'
    BY <1>1 DEF IInv, Fine, Tidy
  <2>4. QED
    BY <1>1, <2>1, <2>2, <2>3 DEF Fine, Deletes, Quiet
<1>5. QED
  BY <1>1, <1>2, <1>3, <1>4, WaiterStep DEF Outside

LEMMA GiveUpStep == ASSUME IInv, NEW p \in Proc, GiveUp(p), faults' = faults PROVE IInv'
<1>1. /\ pc[p] = "waiting" /\ pc'[p] = "idle"
      /\ stage'[p] = stage[p] /\ aside'[p] = aside[p] /\ outcome'[p] = outcome[p] /\ before'[p] = before[p]
      /\ UNCHANGED <<faults, dest, hidden, made, live>>
  BY DEF GiveUp, Goto, IInv, TypeOK, locals
<1>2. TypeOK' /\ Mine(p)
  BY DEF GiveUp, Goto, IInv, TypeOK, Mine, locals
<1>3. Locked'
  BY <1>1, <1>2, NoneIs DEF GiveUp, Locked, IInv, Mine, Outside
<1>4. Fine(p)'
  <2>1. Hands(p)'
    BY <1>1 DEF IInv, Fine, Hands, Outside
  <2>2. Stands(p)' /\ Spare(p)'
    BY <1>1 DEF Stands, Spare
  <2>3. Deletes => Tidy(p)'
    BY <1>1 DEF IInv, Fine, Tidy
  <2>4. QED
    BY <1>1, <2>1, <2>2, <2>3 DEF Fine, Deletes, Quiet
<1>5. QED
  BY <1>1, <1>2, <1>3, <1>4, WaiterStep DEF Outside

LEMMA StartStep == ASSUME IInv, NEW p \in Proc, NEW cmd \in {"install", "uninstall"}, Start(p, cmd), faults' = faults PROVE IInv'
<1>1. /\ pc[p] = "idle" /\ pc'[p] = "waiting"
      /\ stage'[p] = stage[p] /\ aside'[p] = aside[p] /\ outcome'[p] = outcome[p] /\ before'[p] = before[p]
      /\ UNCHANGED <<faults, dest, hidden, made, live>>
  BY DEF Start, Goto, IInv, TypeOK, locals
<1>2. TypeOK' /\ Mine(p)
  BY DEF Start, Goto, IInv, TypeOK, Mine, locals
<1>3. Locked'
  BY <1>1, <1>2, NoneIs DEF Start, Locked, IInv, Mine, Outside
<1>4. Fine(p)'
  <2>1. Hands(p)'
    BY <1>1 DEF IInv, Fine, Hands, Outside
  <2>2. Stands(p)' /\ Spare(p)'
    BY <1>1 DEF Stands, Spare
  <2>3. Deletes => Tidy(p)'
    BY <1>1 DEF IInv, Fine, Tidy
  <2>4. QED
    BY <1>1, <2>1, <2>2, <2>3 DEF Fine, Deletes, Quiet
<1>5. QED
  BY <1>1, <1>2, <1>3, <1>4, WaiterStep DEF Outside

LEMMA KillStep == ASSUME IInv, NEW p \in Proc, Kill(p), faults' = faults PROVE IInv'
<1>1. /\ pc[p] # "idle"
      /\ pc'[p] = "idle" /\ lock' = (IF lock = p THEN None ELSE lock)
      /\ stage'[p] = None /\ aside'[p] = None /\ outcome'[p] = "none" /\ before'[p] = Absent
      /\ UNCHANGED <<faults, dest, hidden, made, live>>
  BY DEF Kill, Goto, IInv, TypeOK
<1>2. TypeOK' /\ Mine(p) /\ Above'
  BY AbsentIs DEF Kill, Goto, IInv, TypeOK, Mine, Above
<1>3. Fine(p)'
  BY <1>1, AbsentIs DEF Fine, Hands, Stands, Tidy, Spare
<1>4. CASE pc[p] \in Outside
  <2>1. Locked'
    BY <1>1, <1>2, <1>4 DEF IInv, Locked, Mine, Outside
  <2>2. QED
    BY <1>1, <1>2, <1>3, <1>4, <2>1, WaiterStep
<1>5. CASE pc[p] \notin Outside
  <2>1. lock = p
    BY <1>5 DEF IInv, Locked
  <2>2. QED
    BY <1>1, <1>2, <1>3, <1>5, <2>1, DiskAlone, HolderStep DEF Outside, Kept, Backups
<1>6. QED
  BY <1>4, <1>5

LEMMA MeddleStep == ASSUME IInv, Meddle, faults' = faults PROVE IInv'
<1>1. /\ lock = None \/ ~Quiet
      /\ dest \in {Absent, Foreign} /\ dest' \in {Absent, Foreign}
      /\ UNCHANGED <<hidden, made, lock, pc, live, faults, command, todo, stage, aside, doomed, outcome, before>>
  BY DEF Meddle, Quiet, locals
<1>2. ~Owned(dest) /\ ~Owned(dest') /\ dest' \in Place /\ dest'.state \in {"absent", "foreign"}
  BY <1>1, AbsentIs
<1>3. TypeOK' /\ Locked' /\ Above'
  BY <1>1, <1>2 DEF IInv, TypeOK, Locked, Above
<1>4. Kept' = Kept /\ \A d \in Kept : hidden'[d] = hidden[d]
  BY <1>1 DEF Kept, Backups
<1>5. Deletes => TidyDisk'
  BY <1>1, <1>2, <1>4 DEF IInv, TidyDisk
<1>6. Deletes \/ Renames => InstallSurvives'
  <2> SUFFICES ASSUME Deletes \/ Renames, live # None PROVE InstallSurvives'
    BY <1>1 DEF InstallSurvives
  <2>1. dest # Whole(live)
    BY <1>2, WholeIs DEF IInv, TypeOK
  <2>2. Kept # {} /\ hidden[Newest(Kept)].holds = Whole(live)
    BY <2>1, SurvivesIs DEF IInv
  <2>3. Kept' # {} /\ hidden'[Newest(Kept')].holds = Whole(live')
    BY <1>1, <1>4, <2>2
  <2>4. QED
    BY <1>2, <2>3 DEF InstallSurvives, Kept
<1>7. ASSUME NEW p \in Proc PROVE Fine(p)'
  <2>1. Hands(p)'
    BY <1>1 DEF IInv, Fine, Hands, Backups
  <2>2. Quiet => pc'[p] \in {"idle", "waiting"}
    BY <1>1, NoneIs DEF IInv, Locked, Outside
  <2>3. Quiet => Stands(p)' /\ Spare(p)'
    BY <2>2 DEF Stands, Spare
  <2>4. Deletes => Tidy(p)'
    BY <1>1, <2>2 DEF IInv, Fine, Tidy, Deletes
  <2>5. QED
    BY <1>1, <2>1, <2>3, <2>4 DEF Fine, Deletes, Renames, Quiet
<1>8. QED
  BY <1>1, <1>3, <1>5, <1>6, <1>7 DEF IInv, Deletes, Renames, Quiet

-----------------------------------------------------------------------------

LEMMA InitIInv == Init => IInv
<1> SUFFICES ASSUME Init PROVE IInv
  OBVIOUS
<1>1. TypeOK
  BY AbsentIs, GoneIs, InstallAssumption DEF Init, TypeOK
<1>2. Locked /\ Above /\ InstallSurvives
  BY DEF Init, Locked, Above, InstallSurvives, Outside
<1>3. Kept = {}
  BY GoneIs, AbsentIs DEF Init, Kept, Backups
<1>4. TidyDisk
  BY <1>3, AbsentIs DEF Init, TidyDisk
<1>5. \A p \in Proc : Fine(p)
  BY AbsentIs DEF Init, Fine, Hands, Stands, Tidy, Spare
<1>6. QED
  BY <1>1, <1>2, <1>4, <1>5 DEF IInv

LEMMA StutterIInv == IInv /\ UNCHANGED vars => IInv'
  BY DEF IInv, vars, TypeOK, Locked, Above, Deletes, Renames, Quiet, TidyDisk, InstallSurvives, Kept, Backups, Garbage,
         Fine, Hands, Stands, Tidy, Spare, Unmoved, Moved, InPlace

LEMMA NextIInv == IInv /\ [Next]_vars => IInv'
<1> SUFFICES ASSUME IInv, Next PROVE IInv'
  BY StutterIInv
<1>1. faults' = faults
  BY DEF Next
<1>2. CASE Meddle
  BY <1>1, <1>2, MeddleStep
<1>3. ASSUME NEW p \in Proc, NEW cmd \in {"install", "uninstall"}, Start(p, cmd) PROVE IInv'
  BY <1>1, <1>3, StartStep
<1>4. ASSUME NEW p \in Proc, Kill(p) PROVE IInv'
  BY <1>1, <1>4, KillStep
<1>5. ASSUME NEW p \in Proc, NEW d \in Dirs, Sweep(p, d) PROVE IInv'
  BY <1>1, <1>5, SweepStep
<1>6. ASSUME NEW p \in Proc, Work(p) PROVE IInv'
  <2>1. CASE TakeLock(p) \/ GiveUp(p) \/ Swept(p) \/ Skip(p) \/ Restore(p) \/ Supersede(p) \/ Recovered(p)
    BY <1>1, <2>1, TakeLockStep, GiveUpStep, SweptStep, SkipStep, RestoreStep, SupersedeStep, RecoveredStep
  <2>2. CASE Tear(p) \/ Discard(p) \/ DiscardFails(p) \/ MakeDirFails(p) \/ Finish(p)
    BY <1>1, <2>2, TearStep, DiscardStep, DiscardFailsStep, MakeDirFailsStep, FinishStep
  <2>3. CASE MakeStage(p) \/ Package(p) \/ MakeBackup(p) \/ NothingToBackUp(p) \/ Displace(p) \/ Replace(p) \/ Installed(p)
    BY <1>1, <2>3, MakeStageStep, PackageStep, MakeBackupStep, NothingToBackUpStep, DisplaceStep, ReplaceStep,
       InstalledStep
  <2>4. CASE InstallFails(p) \/ InterruptInstall(p) \/ CleanStage(p) \/ PutBack(p) \/ PutBackFails(p) \/ NothingToPutBack(p)
    BY <1>1, <2>4, InstallFailsStep, InterruptInstallStep, CleanStageStep, PutBackStep, PutBackFailsStep,
       NothingToPutBackStep
  <2>5. CASE NothingToUninstall(p) \/ MakeRemoving(p) \/ Remove(p) \/ Uninstalled(p) \/ UninstallFails(p) \/ Undo(p) \/ UndoFails(p)
    BY <1>1, <2>5, NothingToUninstallStep, MakeRemovingStep, RemoveStep, UninstalledStep, UninstallFailsStep, UndoStep,
       UndoFailsStep
  <2>6. QED
    BY <1>5, <1>6, <2>1, <2>2, <2>3, <2>4, <2>5 DEF Work
<1>7. QED
  BY <1>2, <1>3, <1>4, <1>6 DEF Next

LEMMA Inductive == Spec => []IInv
  BY InitIInv, NextIInv, PTL DEF Spec

-----------------------------------------------------------------------------

\* Every field of a run and of the disk has the type the engine's code gives it,
\* whatever goes wrong.
THEOREM TypeCorrect == Spec => []TypeOK
<1>1. IInv => TypeOK
  BY DEF IInv
<1>2. QED
  BY <1>1, Inductive, PTL

\* The installed copy is never lost to a failure, a signal or a kill between any
\* two steps of install_skill, uninstall_skill or their recovery, as long as
\* nobody else takes the destination, and either every deletion completes or
\* every backup can be renamed.
THEOREM TheInstallSurvives == Spec => [](Deletes \/ Renames => InstallSurvives)
<1>1. IInv => (Deletes \/ Renames => InstallSurvives)
  BY DEF IInv
<1>2. QED
  BY <1>1, Inductive, PTL

\* What a host reads at the destination is a whole copy of the skill, or no copy.
THEOREM TheDestIsWhole == Spec => [](Quiet => DestIsWhole)
<1>1. IInv => (Quiet => DestIsWhole)
  BY DEF IInv, Deletes, TidyDisk, DestIsWhole
<1>2. QED
  BY <1>1, Inductive, PTL

\* What install_skill and uninstall_skill report is true of the disk when they
\* give the lock back.
THEOREM TheOutcomeIsHonest == Spec => [](Quiet => OutcomeHonest)
<1>1. ASSUME IInv, Quiet PROVE OutcomeHonest
  <2> SUFFICES ASSUME NEW p \in Proc, pc[p] = "finishing", "rmtree" \notin faults
               PROVE  LET unharmed == \/ dest = before[p]
                                      \/ aside[p] # None /\ hidden[aside[p]].holds = before[p]
                          replaced == stage[p] # None /\ dest = Whole(stage[p])
                      IN  CASE outcome[p] = "installed"   -> replaced
                            [] outcome[p] = "uninstalled" -> dest = Absent
                            [] outcome[p] = "absent"      -> dest = Absent
                            [] outcome[p] = "failed"      -> unharmed
                            [] outcome[p] = "interrupted" -> unharmed \/ replaced
    BY DEF OutcomeHonest
  <2>1. outcome[p] \in {"installed", "uninstalled", "absent", "failed", "interrupted"}
    BY <1>1 DEF IInv, TypeOK, Fine, Hands
  <2>2. Stands(p)
    BY <1>1 DEF IInv, Fine
  <2>3. QED
    BY <2>1, <2>2 DEF Stands, InPlace, Moved
<1>2. QED
  BY <1>1, Inductive, PTL
=============================================================================
