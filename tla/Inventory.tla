------------------------------ MODULE Inventory ------------------------------
(***************************************************************************)
(* What the main window knows of devices and what it keeps: the table      *)
(* (src/src/ui/DeviceTableModel.cpp), the memory of favourites, labels and *)
(* known keys (src/src/ui/MainWindow.cpp), the detail dialog and the       *)
(* SQLite inventory (src/src/storage/Database.cpp), over the scans, imports, *)
(* restarts and crashes of the program.                                    *)
(*                                                                         *)
(* Every handler runs on the GUI thread and is one step.  A scan is the    *)
(* events ScanWorker lets through: discoveries, in any order and more than *)
(* once for an address listed twice, then updates of devices discovered.   *)
(* The tables scans and device_history are written and never read; they    *)
(* are left out.                                                           *)
(***************************************************************************)
EXTENDS Integers, Sequences, FiniteSets, SequencesExt

CONSTANTS
  Ips, Macs, NoMac,  \* NoMac: the empty MAC, or the all-zero one
  Labels,
  SightedMacs,       \* SightedMacs[ip]: the MACs an ARP table may give for it
  Imported,          \* the devices that files to import may hold
  Absent,            \* no value under a key
  MaxScans,          \* bound: scans started
  MaxStarts,         \* bound: times the program is started
  MaxDialogs,        \* bound: times the detail dialog is opened
  MaxQuestions       \* bound: questions before a large scan open at a time

ASSUME InventoryAssumption ==
  /\ IsFiniteSet(Ips) /\ IsFiniteSet(Macs)
  /\ Ips \cap Macs = {} /\ NoMac \notin Macs
  /\ SightedMacs \in [Ips -> SUBSET (Macs \cup {NoMac})]
  /\ MaxScans \in Nat /\ MaxStarts \in Nat
  /\ MaxDialogs \in Nat /\ MaxQuestions \in Nat

Keys == Ips \cup Macs

VARIABLES
  up,           \* the program runs
  rows,         \* DeviceTableModel::devices_
  rowByIp,      \* rowByIp_
  favByKey,     \* favByKey_; a key without an entry reads as FALSE
  labelsByKey,  \* labelsByKey_
  knownKeys,    \* knownKeys_
  firstScanDone,
  newThisScan,
  questions,    \* the calls of onStartScan() whose box is open, one in another
  dialog,       \* the detail dialog: its device's IP, check box and list
  scan,         \* the engine: "idle", "probing" or "updating"
  found,        \* the MAC each address was reported with in the scan under way
  db,           \* the table devices: what is read back of a row, by key
  dbLabels,     \* the table labels
  scans, starts, dialogs, \* history: how many there were
  heard               \* history: keys this process loaded, discovered or imported

table  == <<rows, rowByIp>>
memory == <<favByKey, labelsByKey, knownKeys>>
disk   == <<db, dbLabels>>
bounds == <<scans, starts, dialogs>>
vars == <<up, table, memory, firstScanDone, newThisScan, questions, dialog, scan,
          found, disk, bounds, heard>>

-----------------------------------------------------------------------------

Device == [ip : Ips, mac : Macs \cup {NoMac}, new : BOOLEAN, favorite : BOOLEAN,
           labels : SUBSET Labels]
ASSUME ImportedAssumption == Imported \subseteq Device

(* A row of the table devices, as it is read back. *)
Row == [ip : Ips, mac : Macs \cup {NoMac}, new : BOOLEAN, favorite : BOOLEAN]
ASSUME AbsentAssumption == Absent \notin Row

NoDialog == [open |-> FALSE]

(* Device::key() *)
Key(d) == IF d.mac # NoMac THEN d.mac ELSE d.ip

NoRow == 0
EmptyIndex == [ip \in Ips |-> NoRow]
NobodyFound == [ip \in Ips |-> Absent]

(* Nothing is stored, and the program is about to start. *)
Init ==
  /\ up = FALSE
  /\ rows = <<>> /\ rowByIp = EmptyIndex
  /\ favByKey = [k \in Keys |-> FALSE]
  /\ labelsByKey = [k \in Keys |-> Absent]
  /\ knownKeys = {}
  /\ firstScanDone = FALSE
  /\ newThisScan = 0
  /\ questions = 0
  /\ dialog = NoDialog
  /\ scan = "idle"
  /\ found = NobodyFound
  /\ db = [k \in Keys |-> Absent]
  /\ dbLabels = [k \in Keys |-> {}]
  /\ scans = 0 /\ starts = 0 /\ dialogs = 0
  /\ heard = {}

-----------------------------------------------------------------------------
(* DeviceTableModel *)

(* upsert(): a row is replaced, but keeps its labels if the new record has  *)
(* none, and stays a favourite if it was one.                               *)
Merge(d, old) ==
  [d EXCEPT !.labels = IF @ = {} THEN old.labels ELSE @,
            !.favorite = @ \/ old.favorite]

(* A table is its rows and its index.  The fault takes the number of the new *)
(* row after it is inserted.                                                *)
UpsertPastEnd(t, d) ==
  IF t.index[d.ip] # NoRow
  THEN [t EXCEPT !.rows[t.index[d.ip]] = Merge(d, @)]
  ELSE [rows  |-> Append(t.rows, d),
        index |-> [t.index EXCEPT ![d.ip] = Len(t.rows) + 2]]
Upsert(t, d) ==
  IF t.index[d.ip] # NoRow
  THEN [t EXCEPT !.rows[t.index[d.ip]] = Merge(d, @)]
  ELSE [rows  |-> Append(t.rows, d),
        index |-> [t.index EXCEPT ![d.ip] = Len(t.rows) + 1]]

Table == [rows |-> rows, index |-> rowByIp]
SetTable(t) == rows' = t.rows /\ rowByIp' = t.index

(* setDevices(): the index names the last row of an address. *)
IndexOf(devices) ==
  [ip \in Ips |-> LET at == {i \in DOMAIN devices : devices[i].ip = ip}
                  IN IF at = {} THEN NoRow ELSE CHOOSE i \in at : \A j \in at : j <= i]

(* fault: clear() leaves rowByIp_ alone. *)
ClearRows == rows' = <<>> /\ UNCHANGED rowByIp
ClearTable == rows' = <<>> /\ rowByIp' = EmptyIndex

-----------------------------------------------------------------------------
(* Database *)

(* fault: the favourite column is among those the conflict clause sets.     *)
OverwriteRow(old, d) == [ip |-> d.ip, mac |-> d.mac, new |-> d.new,
                         favorite |-> d.favorite]
(* upsertDevice(): a stored row keeps its favourite column.                 *)
StoredRow(old, d) ==
  [ip |-> d.ip, mac |-> d.mac, new |-> d.new,
   favorite |-> IF old = Absent THEN d.favorite ELSE old.favorite]

StoreAll(devices) ==
  FoldLeft(LAMBDA base, d : [base EXCEPT ![Key(d)] = StoredRow(@, d)], db, devices)

(* persistDevices(): one statement, and so one transaction, a row. *)
PersistDevices == db' = StoreAll(rows')

(* loadDevices(): the JSON, the favourite column and the table of labels;   *)
(* SQL does not promise an order.                                           *)
LoadDevice(k) == [ip |-> db[k].ip, mac |-> db[k].mac, new |-> db[k].new,
                  favorite |-> db[k].favorite, labels |-> dbLabels[k]]
StoredKeys == {k \in Keys : db[k] # Absent}
LoadDevices == {[i \in DOMAIN order |-> LoadDevice(order[i])] :
                  order \in SetToSeqs(StoredKeys)}

-----------------------------------------------------------------------------
(* MainWindow *)

(* MainWindow::MainWindow(): the inventory is loaded and shown. *)
StartProgram ==
  /\ ~up
  /\ starts < MaxStarts
  /\ up' = TRUE
  /\ starts' = starts + 1
  /\ \E saved \in LoadDevices : rows' = saved /\ rowByIp' = IndexOf(saved)
  /\ favByKey' = [k \in Keys |-> k \in StoredKeys /\ db[k].favorite]
  /\ labelsByKey' = [k \in Keys |-> IF k \in StoredKeys /\ dbLabels[k] # {}
                                    THEN dbLabels[k] ELSE Absent]
  /\ knownKeys' = StoredKeys
  /\ firstScanDone' = FALSE
  /\ newThisScan' = 0
  /\ heard' = StoredKeys
  /\ UNCHANGED <<questions, dialog, scan, found, disk, scans, dialogs>>

(* The rest of onStartScan(): the table is emptied, whatever the engine does *)
(* meanwhile; start() leaves a scan that runs alone.                         *)
TableForScan ==
  /\ ClearTable
  /\ newThisScan' = 0
  /\ IF scan = "idle"
     THEN scans < MaxScans /\ scans' = scans + 1 /\ scan' = "probing"
     ELSE UNCHANGED <<scans, scan>>
  /\ UNCHANGED <<up, memory, firstScanDone, dialog, found, disk, starts,
                 dialogs, heard>>

(* onStartScan(), by the button, the tray or the periodic timer, which also *)
(* fires while the detail dialog is open, of targets that need no question: *)
(* the targets cannot be edited behind a box.                               *)
StartScan ==
  /\ up /\ scan = "idle" /\ questions = 0
  /\ TableForScan
  /\ UNCHANGED questions

(* It asks before a large scan.  The box has an event loop, in which the    *)
(* timer may ask again and an earlier answer's scan report and finish.      *)
AskToStart ==
  /\ up /\ scan = "idle"
  /\ questions < MaxQuestions /\ scans < MaxScans
  /\ questions' = questions + 1
  /\ UNCHANGED <<up, table, memory, firstScanDone, newThisScan, dialog, scan, found,
                 disk, bounds, heard>>

(* Yes to the innermost box; isRunning() is not asked again.                *)
AnswerYes ==
  /\ up /\ questions > 0
  /\ questions' = questions - 1
  /\ TableForScan

AnswerNo ==
  /\ up /\ questions > 0
  /\ questions' = questions - 1
  /\ UNCHANGED <<up, table, memory, firstScanDone, newThisScan, dialog, scan, found,
                 disk, bounds, heard>>

(* What the maps know of a key is put into the worker's device. *)
Dressed(ip, mac) ==
  LET k == Key([ip |-> ip, mac |-> mac])
  IN [ip |-> ip, mac |-> mac, new |-> FALSE, favorite |-> favByKey[k],
      labels |-> IF labelsByKey[k] # Absent THEN labelsByKey[k] ELSE {}]

(* fault: a key announced as new is not remembered. *)
RememberShownOnly(k) == knownKeys
Remember(k) == knownKeys \cup {k}

(* onDeviceDiscovered(); an address is reported with one MAC in a scan. *)
DeviceDiscovered(ip) ==
  /\ up /\ scan = "probing"
  /\ \E mac \in IF found[ip] = Absent THEN SightedMacs[ip] ELSE {found[ip]} :
       LET d == Dressed(ip, mac)
           isNew == firstScanDone /\ Key(d) \notin knownKeys
       IN /\ found' = [found EXCEPT ![ip] = mac]
          /\ newThisScan' = IF isNew THEN newThisScan + 1 ELSE newThisScan
          /\ knownKeys' = Remember(Key(d))
          /\ heard' = heard \cup {Key(d)}
          /\ SetTable(Upsert(Table, [d EXCEPT !.new = isNew]))
  /\ UNCHANGED <<up, favByKey, labelsByKey, firstScanDone, questions, dialog, scan,
                 disk, bounds>>

(* onDeviceUpdated(): the record is the worker's, so it is not marked new;  *)
(* the new key becomes known only when it is discovered.                    *)
DeviceUpdated(ip) ==
  /\ up /\ scan # "idle"
  /\ found[ip] # Absent
  /\ \E mac \in SightedMacs[ip] \ {NoMac, found[ip]} :
       /\ found' = [found EXCEPT ![ip] = mac]
       /\ SetTable(Upsert(Table, Dressed(ip, mac)))
  /\ scan' = "updating"
  /\ UNCHANGED <<up, memory, firstScanDone, newThisScan, questions, dialog, disk,
                 bounds, heard>>

(* onScanFinished() *)
ScanFinished ==
  /\ up /\ scan # "idle"
  /\ scan' = "idle"
  /\ firstScanDone' = TRUE
  /\ UNCHANGED rows /\ PersistDevices
  /\ found' = NobodyFound
  /\ UNCHANGED <<up, rowByIp, memory, newThisScan, questions, dialog, dbLabels,
                 bounds, heard>>

(* A box or a dialog on top keeps the user from the window. *)
AtWindow == up /\ questions = 0 /\ ~dialog.open
AtDialog == questions = 0 /\ dialog.open

(* importData() of a file that holds one device. *)
ImportData(d) ==
  /\ AtWindow
  /\ SetTable(Upsert(Table, d))
  /\ knownKeys' = knownKeys \cup {Key(d)}
  /\ heard' = heard \cup {Key(d)}
  /\ PersistDevices
  /\ UNCHANGED <<up, favByKey, labelsByKey, firstScanDone, newThisScan, questions,
                 dialog, scan, found, dbLabels, bounds>>

-----------------------------------------------------------------------------
(* The detail dialog, modal, with the device as it was when it was opened.  *)

OpenDeviceDetail(ip) ==
  /\ AtWindow
  /\ rowByIp[ip] # NoRow
  /\ dialogs < MaxDialogs
  /\ dialogs' = dialogs + 1
  /\ dialog' = [open |-> TRUE, ip |-> ip, favorite |-> rows[rowByIp[ip]].favorite,
                labels |-> rows[rowByIp[ip]].labels]
  /\ UNCHANGED <<up, table, memory, firstScanDone, newThisScan, questions, scan,
                 found, disk, scans, starts, heard>>

CloseDialog ==
  /\ AtDialog
  /\ dialog' = NoDialog
  /\ UNCHANGED <<up, table, memory, firstScanDone, newThisScan, questions, scan,
                 found, disk, bounds, heard>>

RowOfDialog == rowByIp[dialog.ip]
KeyOfDialog == Key(rows[RowOfDialog])

(* The check box: without a row the choice is dropped; with one, the row is *)
(* toggled, whatever it shows, and a stored row is updated.                 *)
FavoriteToggled ==
  /\ AtDialog
  /\ LET on == ~dialog.favorite
     IN /\ dialog' = [dialog EXCEPT !.favorite = on]
        /\ IF RowOfDialog = NoRow
           THEN UNCHANGED <<rows, favByKey, db>>
           ELSE /\ favByKey' = [favByKey EXCEPT ![KeyOfDialog] = on]
                /\ rows' = [rows EXCEPT ![RowOfDialog].favorite = ~@]
                /\ db' = [db EXCEPT ![KeyOfDialog] =
                            IF @ = Absent THEN Absent ELSE [@ EXCEPT !.favorite = on]]
  /\ UNCHANGED <<up, rowByIp, labelsByKey, knownKeys, firstScanDone, newThisScan,
                 questions, scan, found, dbLabels, bounds, heard>>

(* labelsByKey_[key], which an absent key reads as an empty list. *)
LabelsOf(k) == IF labelsByKey[k] = Absent THEN {} ELSE labelsByKey[k]

(* fault: the label is added to the memory only. *)
ForgetfulAdd(k, l) ==
  /\ labelsByKey' = [labelsByKey EXCEPT ![k] = LabelsOf(k) \cup {l}]
  /\ UNCHANGED dbLabels
(* Memory and table are changed together; the row keeps the labels it shows. *)
AddLabel(k, l) ==
  /\ labelsByKey' = [labelsByKey EXCEPT ![k] = LabelsOf(k) \cup {l}]
  /\ dbLabels' = [dbLabels EXCEPT ![k] = @ \cup {l}]
RemoveLabel(k, l) ==
  /\ labelsByKey' = [labelsByKey EXCEPT ![k] = LabelsOf(k) \ {l}]
  /\ dbLabels' = [dbLabels EXCEPT ![k] = @ \ {l}]

LabelAdded(l) ==
  /\ AtDialog
  /\ dialog' = [dialog EXCEPT !.labels = @ \cup {l}]
  /\ IF RowOfDialog = NoRow THEN UNCHANGED <<labelsByKey, dbLabels>>
     ELSE AddLabel(KeyOfDialog, l)
  /\ UNCHANGED <<up, table, favByKey, knownKeys, firstScanDone, newThisScan,
                 questions, scan, found, db, bounds, heard>>

LabelRemoved(l) ==
  /\ AtDialog
  /\ l \in dialog.labels
  /\ dialog' = [dialog EXCEPT !.labels = @ \ {l}]
  /\ IF RowOfDialog = NoRow THEN UNCHANGED <<labelsByKey, dbLabels>>
     ELSE RemoveLabel(KeyOfDialog, l)
  /\ UNCHANGED <<up, table, favByKey, knownKeys, firstScanDone, newThisScan,
                 questions, scan, found, db, bounds, heard>>

-----------------------------------------------------------------------------
(* The end of the process *)

(* What was in memory is gone. *)
ProcessEnds ==
  /\ up' = FALSE
  /\ rows' = <<>> /\ rowByIp' = EmptyIndex
  /\ favByKey' = [k \in Keys |-> FALSE]
  /\ labelsByKey' = [k \in Keys |-> Absent]
  /\ knownKeys' = {}
  /\ firstScanDone' = FALSE
  /\ newThisScan' = 0
  /\ questions' = 0
  /\ dialog' = NoDialog
  /\ scan' = "idle"
  /\ found' = NobodyFound
  /\ heard' = {}
  /\ UNCHANGED <<dbLabels, bounds>>

(* closeEvent() of a window that is not kept in the tray: the rows of the   *)
(* table are stored, in the middle of a scan too.                           *)
CloseWindow ==
  /\ up
  /\ db' = StoreAll(rows)
  /\ ProcessEnds

(* A crash, at any moment: also while closeEvent() or importData() stores   *)
(* the rows, after some of them.                                            *)
RowsBeingStored == {rows} \cup (IF AtWindow
                                THEN {Upsert(Table, d).rows : d \in Imported} ELSE {})
Crash ==
  /\ up
  /\ \E devices \in RowsBeingStored : \E n \in 0 .. Len(devices) :
       db' = StoreAll(SubSeq(devices, 1, n))
  /\ ProcessEnds

Next ==
  \/ StartProgram \/ StartScan \/ AskToStart \/ AnswerYes \/ AnswerNo
  \/ ScanFinished \/ CloseDialog \/ FavoriteToggled \/ CloseWindow \/ Crash
  \/ \E ip \in Ips : DeviceDiscovered(ip) \/ DeviceUpdated(ip) \/ OpenDeviceDetail(ip)
  \/ \E d \in Imported : ImportData(d)
  \/ \E l \in Labels : LabelAdded(l) \/ LabelRemoved(l)

Spec == Init /\ [][Next]_vars

-----------------------------------------------------------------------------
(* Safety *)

(* The index finds a row of the address for every address in the table and *)
(* none for the others, whatever loads (which may bring two rows of one     *)
(* address), clears, inserts and replacements came before.                  *)
RowsIndexed ==
  \A ip \in Ips :
    IF rowByIp[ip] = NoRow
    THEN \A i \in DOMAIN rows : rows[i].ip # ip
    ELSE rowByIp[ip] \in DOMAIN rows /\ rows[rowByIp[ip]].ip = ip

(* The favourite column of a stored device is cleared by nothing but the    *)
(* user's own click: no scan, import, close or crash that stores the device *)
(* again, from a record that never heard of it, takes it away.              *)
StoredFavouriteStays ==
  [][\A k \in StoredKeys :
       db[k].favorite /\ ~(db'[k] # Absent /\ db'[k].favorite)
         => dialog.open /\ dialog.favorite /\ dialog'.open /\ ~dialog'.favorite]_vars

(* A device is counted and announced as new only if its key was neither     *)
(* stored when the program started nor loaded, discovered or imported       *)
(* since: once in a process, over any number of scans.                      *)
NewIsAnnouncedOnce ==
  [][newThisScan' > newThisScan => heard' # heard]_vars

(* Every label the memory shows for a key is in the database, so that it    *)
(* outlives the process, through changes of key and restarts.               *)
LabelsAreStored ==
  \A k \in Keys : labelsByKey[k] # Absent => labelsByKey[k] \subseteq dbLabels[k]

(* USER_GUIDE.md, "Working with devices", of labels and favourites: both    *)
(* persist across scans.  A device stored as a favourite is shown as one.   *)
FavouritesPersist ==
  \A i \in DOMAIN rows : \A k \in StoredKeys :
    db[k].ip = rows[i].ip /\ db[k].favorite => rows[i].favorite
=============================================================================
