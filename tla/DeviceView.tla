----------------------------- MODULE DeviceView -----------------------------
(***************************************************************************)
(* What the main window shows of the inventory, and reports of it: the      *)
(* cards, the charts, the sorted and filtered table, and the report that is *)
(* exported (src/src/ui/MainWindow.cpp, DeviceFilterProxyModel.cpp).  Cards *)
(* and charts are copies, refreshed by some of the handlers of Inventory;   *)
(* so every action here is one of Inventory's with its refreshes.  Behind   *)
(* the file dialog of a report, and behind the question before a large scan, *)
(* the periodic timer and the engine's events go on.                        *)
(***************************************************************************)
EXTENDS Inventory

CONSTANTS
  ChartPeriod,  \* discoveries between two refreshes of the charts (20)
  Rank          \* device |-> the place of its sort key among those of its column

ASSUME ViewAssumption == ChartPeriod \in Nat \ {0} /\ Rank \in [Ips -> Nat]

VARIABLES
  cards,          \* [total, new]: cardTotal_ and cardNew_
  charts,         \* the rows charts_ draws: their keys
  chartThrottle,  \* chartThrottle_, modulo ChartPeriod
  lastSummary,    \* the scan lastSummary_ is of; 0 before the first
  asking,         \* the file dialog of exportReport() is open
  origin,         \* history: what brought the row of each address
  emptied         \* history: the table was emptied while this scan ran

view == <<cards, charts, chartThrottle, lastSummary, asking, origin, emptied>>
vvars == <<vars, view>>

-----------------------------------------------------------------------------
CardsOf(devices, new) == [total |-> Len(devices), new |-> new]
Drawn(devices) == [i \in DOMAIN devices |-> Key(devices[i])]
NoCharts == <<>>

(* The number of a scan, or one of these. *)
Stored == 0
FromFile == -1
AllStored == [ip \in Ips |-> Stored]

ViewInit ==
  /\ Init
  /\ cards = CardsOf(<<>>, 0)
  /\ charts = NoCharts
  /\ chartThrottle = 0
  /\ lastSummary = 0
  /\ asking = FALSE
  /\ origin = AllStored
  /\ emptied = FALSE

UpdateCards == cards' = CardsOf(rows', newThisScan')
DrawCharts == charts' = Drawn(rows')

ShowInventory ==      \* MainWindow::MainWindow()
  /\ StartProgram
  /\ UpdateCards /\ DrawCharts
  /\ UNCHANGED <<chartThrottle, lastSummary, asking, origin, emptied>>

(* The table is emptied, for a scan that starts or behind one that runs;    *)
(* cards and charts stay.                                                   *)
BeginScan ==
  /\ StartScan \/ AnswerYes
  /\ chartThrottle' = 0
  /\ origin' = AllStored
  /\ emptied' = (scan # "idle")
  /\ UNCHANGED <<cards, charts, lastSummary, asking>>

Question ==
  /\ AskToStart \/ AnswerNo
  /\ UNCHANGED view

(* fault: the cards wait for the charts. *)
CardsWithCharts(n) == IF n = 0 THEN UpdateCards ELSE UNCHANGED cards
CardsAtOnce(n) == UpdateCards

ShowDiscovered(ip) ==
  /\ DeviceDiscovered(ip)
  /\ chartThrottle' = (chartThrottle + 1) % ChartPeriod
  /\ CardsAtOnce(chartThrottle')
  /\ IF chartThrottle' = 0 THEN DrawCharts ELSE UNCHANGED charts
  /\ origin' = [origin EXCEPT ![ip] = scans]
  /\ UNCHANGED <<lastSummary, asking, emptied>>

(* The charts are not drawn again. *)
ShowUpdated(ip) ==
  /\ DeviceUpdated(ip)
  /\ UpdateCards
  /\ origin' = [origin EXCEPT ![ip] = scans]
  /\ UNCHANGED <<charts, chartThrottle, lastSummary, asking, emptied>>

(* fault: the summary of the scan before is kept. *)
KeepSummary == lastSummary
SummaryOfScan == scans

ShowFinished ==
  /\ ScanFinished
  /\ lastSummary' = SummaryOfScan
  /\ UpdateCards /\ DrawCharts
  /\ emptied' = FALSE
  /\ UNCHANGED <<chartThrottle, asking, origin>>

(* The record of the file replaces the row of its address. *)
ShowImported(d) ==
  /\ ~asking
  /\ ImportData(d)
  /\ UpdateCards /\ DrawCharts
  /\ origin' = [origin EXCEPT ![d.ip] = FromFile]
  /\ UNCHANGED <<chartThrottle, lastSummary, asking, emptied>>

(* The dialog of a device: no view is refreshed, the table is the model's.   *)
InDetailDialog ==
  /\ ~asking
  /\ \/ \E ip \in Ips : OpenDeviceDetail(ip)
     \/ CloseDialog \/ FavoriteToggled
     \/ \E l \in Labels : LabelAdded(l) \/ LabelRemoved(l)
  /\ UNCHANGED view

(* exportReport(): whether there is something to report is asked before the  *)
(* file dialog, what is reported is read after it.                           *)
AskForReport ==
  /\ AtWindow /\ ~asking
  /\ rows # <<>>
  /\ asking' = TRUE
  /\ UNCHANGED <<vars, cards, charts, chartThrottle, lastSummary, origin, emptied>>
Report == [rows |-> rows, summary |-> lastSummary]
AnswerReport ==       \* the Report is written, or the dialog canceled
  /\ asking /\ questions = 0
  /\ asking' = FALSE
  /\ UNCHANGED <<vars, cards, charts, chartThrottle, lastSummary, origin, emptied>>

LeaveWindow ==
  /\ CloseWindow \/ Crash
  /\ cards' = CardsOf(<<>>, 0) /\ charts' = NoCharts
  /\ chartThrottle' = 0 /\ lastSummary' = 0
  /\ asking' = FALSE
  /\ origin' = AllStored
  /\ emptied' = FALSE

ViewNext ==
  \/ ShowInventory \/ BeginScan \/ Question \/ ShowFinished
  \/ InDetailDialog \/ AskForReport \/ AnswerReport \/ LeaveWindow
  \/ \E ip \in Ips : ShowDiscovered(ip) \/ ShowUpdated(ip)
  \/ \E d \in Imported : ShowImported(d)

ViewSpec == ViewInit /\ [][ViewNext]_vvars

-----------------------------------------------------------------------------
(* DeviceFilterProxyModel *)

(* Device::isPrioritized(), without the risk. *)
IsPrioritized(d) == d.favorite \/ d.new
FilterAcceptsRow(d, shown) == d.ip \in shown.matching /\ (shown.onlyFavorites => d.favorite)

(* fault: a prioritized row is less than any. *)
LessThanAny(l, r, shown) ==
  IF shown.prioritize /\ (IsPrioritized(l) \/ IsPrioritized(r)) THEN IsPrioritized(l)
  ELSE Rank[l.ip] < Rank[r.ip]
LessThan(l, r, shown) ==
  IF shown.prioritize /\ IsPrioritized(l) # IsPrioritized(r) THEN IsPrioritized(l)
  ELSE Rank[l.ip] < Rank[r.ip]

(* The rows in the order QSortFilterProxyModel gives them: a stable sort,    *)
(* descending by the reversed comparison.                                    *)
Before(i, j, shown) ==
  LET less == IF shown.ascending THEN LessThan(rows[i], rows[j], shown)
              ELSE LessThan(rows[j], rows[i], shown)
      more == IF shown.ascending THEN LessThan(rows[j], rows[i], shown)
              ELSE LessThan(rows[i], rows[j], shown)
  IN  less \/ (~more /\ i < j)
Visible(shown) ==
  LET accepted == {i \in DOMAIN rows : FilterAcceptsRow(rows[i], shown)}
      place(i) == Cardinality({j \in accepted : j = i \/ Before(j, i, shown)})
  IN  {[row |-> rows[i], place |-> place(i)] : i \in accepted}

-----------------------------------------------------------------------------
(* Properties *)

(* The cards show the table, but for the time between its being emptied and  *)
(* the first row after.  The charts show it whenever no scan runs; while one *)
(* runs, they are of its own rows once there were ChartPeriod of them, and   *)
(* miss fewer than that, unless a late Yes has emptied the table behind it:  *)
(* then updates bring rows back and charts may be of rows that are gone.     *)
(* (updateCards(), onDeviceDiscovered(), onDeviceUpdated(), importData())    *)
ViewsAreFresh ==
  up =>
    /\ (scan = "idle" \/ rows # <<>>) => cards = CardsOf(rows, newThisScan)
    /\ scan = "idle" => charts = Drawn(rows)
    /\ scan # "idle" /\ ~emptied /\ Len(rows) >= ChartPeriod =>
         Len(charts) <= Len(rows) /\ Len(rows) - Len(charts) < ChartPeriod

(* A report written while no scan runs holds, under the last scan's summary, *)
(* no row of another scan and none left from before: every row was brought   *)
(* by that scan or has been imported.  It is empty only if that scan came    *)
(* between the question and the answer and found nothing.  (exportReport())  *)
ReportIsOfOneScan ==
  asking /\ scan = "idle" =>
    /\ \A i \in DOMAIN Report.rows : origin[Report.rows[i].ip] \in {Report.summary, FromFile}
    /\ Report.rows = <<>> => Report.summary > 0

(* The table is ordered by the column in both directions; with priority, so  *)
(* are the favourites and new devices, and the others, each among themselves, *)
(* and sorted upwards the former come before all others; whatever is asked,  *)
(* every accepted row has a place of its own.  Of the filter's text counts   *)
(* which rows it matches.  (lessThan(), filterAcceptsRow())                  *)
Shown == [matching : SUBSET Ips, onlyFavorites : BOOLEAN, prioritize : BOOLEAN,
          ascending : BOOLEAN]
Apart(l, r, shown) == shown.prioritize /\ IsPrioritized(l) # IsPrioritized(r)
TableIsInOrder ==
  \A shown \in Shown :
    LET visible == Visible(shown) IN
    /\ {v.place : v \in visible} = 1 .. Cardinality({i \in DOMAIN rows :
                                                       FilterAcceptsRow(rows[i], shown)})
    /\ \A v, w \in visible :
         v.place < w.place =>
           IF Apart(v.row, w.row, shown) THEN shown.ascending => IsPrioritized(v.row)
           ELSE IF shown.ascending THEN Rank[v.row.ip] <= Rank[w.row.ip]
           ELSE Rank[v.row.ip] >= Rank[w.row.ip]
=============================================================================
