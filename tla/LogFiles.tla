------------------------------ MODULE LogFiles ------------------------------
(***************************************************************************)
(* The log of all the processes of one user: src/src/core/Logger.cpp.  Each *)
(* opens pacnscanner.log for itself and turns it into pacnscanner.log.1     *)
(* when it is full; the mutex of a logger keeps only threads apart.  A file *)
(* is a sequence of lines of one length; a handle appends until its own     *)
(* rotation, and from then on writes where it stands.                       *)
(***************************************************************************)
EXTENDS Instances, Integers, FiniteSets, SequencesExt

CONSTANT
  LogLimit   \* lines in a full file (maxBytes_)

ASSUME LogLimitAssumption == LogLimit \in Nat \ {0}

VARIABLES
  platform,  \* "posix" or "windows", where an open file can be neither renamed nor removed
  names,     \* the files called pacnscanner.log and pacnscanner.log.1, 0 if none
  content,   \* file |-> its lines
  handle,    \* process |-> [file, at]: no file when closed, at 0 when appending
  logging,   \* process |-> "quiet", or how far the rotation for a line has come
  said,      \* process |-> lines it has been told to log
  unwritten, \* history: process |-> some line found the file closed
  disturbed  \* history: process |-> another, since it opened, has rotated or written over
             \* its file, or has kept it from being renamed

logVars == <<platform, names, content, handle, logging, said, unwritten, disturbed>>

FileIds == 1 .. Cardinality(Processes) + 2
Closed == [file |-> 0, at |-> 0]
Hole == <<"hole", 0>>   \* never written to
ASSUME ProcessesAssumption == IsFiniteSet(Processes) /\ "hole" \notin Processes
HeldBy(p) == handle[p].file

LogInit ==
  /\ platform \in {"posix", "windows"}
  /\ names = [log |-> 0, backup |-> 0]
  /\ content = [f \in FileIds |-> <<>>]
  /\ handle = [p \in Processes |-> Closed]
  /\ logging = [p \in Processes |-> "quiet"]
  /\ said = [p \in Processes |-> 0]
  /\ unwritten = [p \in Processes |-> FALSE]
  /\ disturbed = [p \in Processes |-> FALSE]

-----------------------------------------------------------------------------
(* Files *)

InUse == {names.log, names.backup} \cup {HeldBy(p) : p \in Processes}
Fresh == CHOOSE f \in FileIds : f \notin InUse

(* A file that has neither name nor handle is gone. *)
Contents(changed) ==
  \E used \in {{names'.log, names'.backup} \cup {handle'[p].file : p \in Processes}} :
    content' = [f \in FileIds |-> IF f \in used THEN changed[f] ELSE <<>>]

Movable(f) == f # 0 /\ (platform = "posix" \/ \A p \in Processes : HeldBy(p) # f)

PutAt(lines, k, line) ==
  [i \in 1 .. Max({Len(lines), k}) |->
     IF i = k THEN line ELSE IF i <= Len(lines) THEN lines[i] ELSE Hole]

DisturbOthers(p) == disturbed' = [q \in Processes |-> disturbed[q] \/ q # p]

-----------------------------------------------------------------------------
(* init(): the file is created if there is none; opening it may fail. *)
Open(p) ==
  /\ \/ /\ handle' = [handle EXCEPT ![p] = [file |-> IF names.log = 0 THEN Fresh ELSE names.log,
                                            at |-> 0]]
        /\ names' = [names EXCEPT !.log = handle'[p].file]
     \/ UNCHANGED <<handle, names>>
  /\ disturbed' = [disturbed EXCEPT ![p] = FALSE]
  /\ UNCHANGED <<platform, content, logging, said, unwritten>>

(* log(), with rotateIfNeeded() *)

(* The handle is left closed when the file could not be opened again: no    *)
(* later line is written.                                                   *)
Unheard(p) ==
  /\ HeldBy(p) = 0
  /\ unwritten' = [unwritten EXCEPT ![p] = TRUE]
  /\ UNCHANGED <<platform, names, content, handle, logging, disturbed>>

Full(p) == Len(content[HeldBy(p)]) >= LogLimit

WriteLine(p) ==
  /\ HeldBy(p) # 0 /\ ~Full(p)
  /\ LET lines == content[HeldBy(p)]
         at == IF handle[p].at = 0 THEN Len(lines) + 1 ELSE handle[p].at
     IN  /\ content' = [content EXCEPT ![HeldBy(p)] = PutAt(lines, at, <<p, said[p] + 1>>)]
         /\ handle' = [handle EXCEPT ![p].at = IF @ = 0 THEN 0 ELSE at + 1]
         /\ IF at <= Len(lines) THEN DisturbOthers(p) ELSE UNCHANGED disturbed
  /\ UNCHANGED <<platform, names, logging, unwritten>>

CloseFull(p) ==
  /\ HeldBy(p) # 0 /\ Full(p)
  /\ handle' = [handle EXCEPT ![p] = Closed]
  /\ logging' = [logging EXCEPT ![p] = "closed"]
  /\ UNCHANGED <<platform, names, unwritten, disturbed>>
  /\ Contents(content)

Say(p) ==
  /\ logging[p] = "quiet"
  /\ Unheard(p) \/ WriteLine(p) \/ CloseFull(p)
  /\ said' = [said EXCEPT ![p] = @ + 1]

(* fault: the older backup is kept. *)
KeepBackup(p) ==
  /\ logging[p] = "closed"
  /\ logging' = [logging EXCEPT ![p] = "removed"]
  /\ UNCHANGED <<platform, names, content, handle, said, unwritten, disturbed>>

(* QFile::remove() *)
RemoveBackup(p) ==
  /\ logging[p] = "closed"
  /\ logging' = [logging EXCEPT ![p] = "removed"]
  /\ names' = [names EXCEPT !.backup = IF Movable(@) THEN 0 ELSE @]
  /\ DisturbOthers(p)
  /\ UNCHANGED <<platform, handle, said, unwritten>>
  /\ Contents(content)

(* QFile::rename() never replaces a file.  Neither result is looked at. *)
RenameLog(p) ==
  /\ logging[p] = "removed"
  /\ logging' = [logging EXCEPT ![p] = "renamed"]
  /\ IF names.backup = 0 /\ Movable(names.log)
     THEN names' = [log |-> 0, backup |-> names.log] /\ DisturbOthers(p)
     ELSE /\ UNCHANGED names
          /\ disturbed' = [disturbed EXCEPT ![p] = @ \/ (names.log # 0 /\ ~Movable(names.log))]
  /\ UNCHANGED <<platform, content, handle, said, unwritten>>

(* Truncates what has the name now, and writes the line that was waiting;   *)
(* or cannot open it.                                                       *)
Reopen(p) ==
  /\ logging[p] = "renamed"
  /\ logging' = [logging EXCEPT ![p] = "quiet"]
  /\ \/ LET f == IF names.log = 0 THEN Fresh ELSE names.log IN
        /\ names' = [names EXCEPT !.log = f]
        /\ handle' = [handle EXCEPT ![p] = [file |-> f, at |-> 2]]
        /\ content' = [content EXCEPT ![f] = <<<<p, said[p]>>>>]
        /\ DisturbOthers(p)
        /\ UNCHANGED unwritten
     \/ /\ unwritten' = [unwritten EXCEPT ![p] = TRUE]
        /\ UNCHANGED <<names, handle, content, disturbed>>
  /\ UNCHANGED <<platform, said>>

Rotate(p) == RemoveBackup(p) \/ RenameLog(p) \/ Reopen(p)

(* The process ends, in the middle of a rotation perhaps. *)
CloseLog(p) ==
  /\ handle' = [handle EXCEPT ![p] = Closed]
  /\ logging' = [logging EXCEPT ![p] = "quiet"]
  /\ UNCHANGED <<platform, names, said, unwritten, disturbed>>
  /\ Contents(content)

-----------------------------------------------------------------------------
(* Properties *)

OnDisk(p) ==
  {n \in 1 .. said[p] : \E f \in {names.log, names.backup} \ {0} : <<p, n>> \in ToSet(content[f])}

LinesOfOthers(p, lines) == {i \in DOMAIN lines : lines[i][1] # p}
Foreign(p) ==
  IF names.backup = 0 THEN 0 ELSE Cardinality(LinesOfOthers(p, content[names.backup]))

(* A log that rotates keeps the recent past: the last lines of a process,   *)
(* one more than fill a file less those of others in the older one, are in  *)
(* pacnscanner.log and pacnscanner.log.1 between two calls of log(), however *)
(* often it has rotated; unless another process, since it opened them, has  *)
(* rotated the files, written over them or kept them from being renamed, or *)
(* a file could not be opened.  (Logger::log(), rotateIfNeeded())           *)
RecentLinesAreOnDisk ==
  \A p \in Processes :
    HeldBy(p) # 0 /\ logging[p] = "quiet" /\ ~unwritten[p] /\ ~disturbed[p] =>
      Max({1, said[p] - LogLimit + Foreign(p)}) .. said[p] \subseteq OnDisk(p)
=============================================================================
