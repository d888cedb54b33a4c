------------------------------- MODULE Loader -------------------------------
(* The market data loader (crates/market-data-loader): `load_bundle` reads    *)
(* one series after the other, and `read_window` a series from its files, of  *)
(* which up to sixteen are being read at a time and are done in any order.    *)
(* A file is [name, date, rows]: files are numbered in the order of their     *)
(* names, the date is None where the name is not one, rows are times.         *)
EXTENDS MarketSeries, Lists, Functions

CONSTANTS
  DayLength,   \* times of a day
  MaxReads,    \* MAX_CONCURRENT_FILE_READS
  SeriesOrder, \* the series there may be, in the order of their names
  MaxLost,     \* bound: listings that fail for an item
  FaultyReads  \* whether a read may fail

\* The requirements are sorted sets: an order lists a series once.
ASSUME LoaderAssumption ==
  /\ SeriesOrder \in Seq(Range(SeriesOrder))
  /\ \A i \in DOMAIN SeriesOrder :
       LET s == SeriesOrder[i] IN s = Series(s.kind, s.venue, s.symbol)
  /\ \A i, j \in DOMAIN SeriesOrder : SeriesOrder[i] = SeriesOrder[j] => i = j
  /\ DayLength \in Nat \ {0}
  /\ MaxReads \in Nat \ {0}
  /\ MaxLost \in Nat /\ FaultyReads \in BOOLEAN

VARIABLES
  store,    \* the files of each series that has any
  window,   \* [start, end] to load, both included
  loading,  \* "off", "listing", "reading", "loaded" or "failed"
  wanted,   \* the series still to load, the head being loaded
  lost,     \* files that a listing failed for, which are passed over
  files,    \* the files of the head that are not read yet
  rows,     \* the rows of the head that are read, in the order the reads ended
  bundle    \* what is loaded: [series, rows] each

loaderVars == <<store, window, loading, wanted, lost, files, rows, bundle>>

FilesOf(series) == IF series \in DOMAIN store THEN store[series] ELSE {}

\* The series of a kind, in order.
InOrder(required, kind) == Those(SeriesOrder, {s \in required : s.kind = kind})

\* Pool reserves are looked for wherever there are candles.
ToLoad(required) ==
  LET candles == InOrder(required, "candle")
  IN  candles \o InOrder(required, "funding") \o InOrder(required, "gas")
        \o InOrder(required, "yield")
        \o [k \in DOMAIN candles |-> Series("liquidity", candles[k].venue, candles[k].symbol)]

Day(t) == t \div DayLength

\* Files whose name is a date out of the window are not read.
MayHold(file) ==
  file.date = None \/ (Day(window.start) <= file.date /\ file.date <= Day(window.end))

InWindow(t) == window.start <= t /\ t <= window.end

\* The rows of a file that are in the window, as a read of it returns them.
Windowed(times) == Those(times, window.start..window.end)

\* The reads in flight: the next file is begun where one ends, in the order of names.
InFlight == {f \in files : Cardinality({g \in files : g.name < f.name}) < MaxReads}

-----------------------------------------------------------------------------

LoaderInit ==
  /\ window = None
  /\ loading = "off"
  /\ wanted = <<>>
  /\ lost = {}
  /\ files = {}
  /\ rows = <<>>
  /\ bundle = <<>>

StartLoad(required, start, end) ==
  /\ loading = "off"
  /\ window' = [start |-> start, end |-> end]
  /\ wanted' = ToLoad(required)
  /\ loading' = IF wanted' = <<>> THEN "loaded" ELSE "listing"
  /\ UNCHANGED <<store, lost, files, rows, bundle>>

\* An item the listing fails for is passed over.
ListFiles ==
  /\ loading = "listing"
  /\ \E missed \in SUBSET FilesOf(Head(wanted)) :
       /\ Cardinality(lost \cup missed) <= MaxLost
       /\ lost' = lost \cup missed
       /\ files' = {f \in FilesOf(Head(wanted)) \ missed : MayHold(f)}
  /\ loading' = "reading"
  /\ UNCHANGED <<store, window, wanted, rows, bundle>>

\* The mutant of `LoadIsWhole`: what a read brings is put in its file's place,
\* as if the reads ended in order.
ReadFile_Ordered(f) ==
  /\ loading = "reading"
  /\ f \in InFlight
  /\ rows' = rows \o Windowed((CHOOSE g \in files : \A h \in files : g.name <= h.name).rows)
  /\ files' = files \ {f}
  /\ UNCHANGED <<store, window, loading, wanted, lost, bundle>>

\* One of the reads in flight ends.
ReadFile(f) ==
  /\ loading = "reading"
  /\ f \in InFlight
  /\ rows' = rows \o Windowed(f.rows)
  /\ files' = files \ {f}
  /\ UNCHANGED <<store, window, loading, wanted, lost, bundle>>

\* A read that fails, or a file that does not parse, ends the whole load.
ReadFails(f) ==
  /\ loading = "reading"
  /\ f \in InFlight
  /\ FaultyReads
  /\ loading' = "failed"
  /\ UNCHANGED <<store, window, wanted, lost, files, rows, bundle>>

\* The rows are put in the order of their times. Reserves that are not there
\* leave no series; any other series is there, if empty.
FinishSeries ==
  /\ loading = "reading"
  /\ files = {}
  /\ bundle' = IF Head(wanted).kind = "liquidity" /\ rows = <<>> THEN bundle
               ELSE Append(bundle, [series |-> Head(wanted), rows |-> Sorted(rows)])
  /\ rows' = <<>>
  /\ wanted' = Tail(wanted)
  /\ loading' = IF Tail(wanted) = <<>> THEN "loaded" ELSE "listing"
  /\ UNCHANGED <<store, window, lost, files>>

Load ==
  \/ ListFiles
  \/ \E f \in files : ReadFile(f) \/ ReadFails(f)
  \/ FinishSeries

-----------------------------------------------------------------------------

\* How often t occurs in some files together.
OccursIn(t, some) ==
  Cardinality(UNION {{f} \X {i \in DOMAIN f.rows : f.rows[i] = t} : f \in some})

(* However the reads of its files were ordered, a loaded series has every row *)
(* its files have in the window, as often as they have it, and no other, in   *)
(* the order of time, the files left out by their names included; except what *)
(* is in files whose listing failed, which nothing reports.                   *)
LoadIsWhole == window # None =>
  \A k \in DOMAIN bundle :
    LET b    == bundle[k]
        read == FilesOf(b.series) \ lost
    IN  /\ \A i \in 1..(Len(b.rows) - 1) : b.rows[i] <= b.rows[i + 1]
        /\ \A t \in Range(b.rows) \cup {t \in UNION {Range(f.rows) : f \in read} : InWindow(t)} :
             /\ InWindow(t)
             /\ Occurs(t, b.rows) = OccursIn(t, read)
=============================================================================
