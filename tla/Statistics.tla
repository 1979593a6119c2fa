----------------------------- MODULE Statistics -----------------------------
(***************************************************************************)
(* What the server computes from the signing log of one user: the counts   *)
(* and the chart of the dashboard, and the pages of its activity list.     *)
(*                                                                         *)
(* A row has the name of its connection and the time it was created; rows  *)
(* are in the order they were created.  Methods and kinds are counted and  *)
(* filtered as names are.  The labels of the chart, for which alone the    *)
(* time zone matters, are left out.                                        *)
(***************************************************************************)
EXTENDS Integers, Sequences, FiniteSets

CONSTANTS
  Names,
  Ranges,      \* what the chart can span: "1h", "24h", "7d" ...
  SlotLength,  \* ... as so many buckets
  SlotCount,   \* ... of such a length
  PageSize,
  None

ASSUME StatisticsAssumption ==
  /\ SlotLength \in [Ranges -> Nat \ {0}]
  /\ SlotCount \in [Ranges -> Nat \ {0}]
  /\ PageSize \in Nat \ {0}
  /\ None \notin Names

Span(r) == SlotLength[r] * SlotCount[r]

RangeStart(r, now) == now - Span(r)

Since(log, start) == {k \in DOMAIN log : log[k].time >= start}

\* Time is cut at multiples of the length: UTC dates, hours, five minutes.
Slot(r, t) == t \div SlotLength[r]

\* Mutant: the buckets begin with the slot in which the range begins.
BucketsFromStart(r, now, log) ==
  [i \in 1..SlotCount[r] |->
     Cardinality({k \in Since(log, RangeStart(r, now)) :
                    Slot(r, log[k].time) = Slot(r, RangeStart(r, now)) + i - 1})]

\* The current slot is the last bucket; those before it follow backwards.
Buckets(r, now, log) ==
  [i \in 1..SlotCount[r] |->
     Cardinality({k \in Since(log, RangeStart(r, now)) :
                    Slot(r, log[k].time) = Slot(r, now) - (SlotCount[r] - i)})]

NamesIn(log) == {log[k].name : k \in DOMAIN log}

\* Rows under a filter: a name, or None for all.
Matching(log, filter) == {k \in DOMAIN log : filter = None \/ log[k].name = filter}

\* Mutant: the pages are numbered from 0.
SkipFromZero(number) == number * PageSize

Skip(number) == (number - 1) * PageSize

\* Newest first.
PageOf(rows, number) ==
  {k \in rows : Cardinality({j \in rows : j > k}) \in Skip(number)..(Skip(number) + PageSize - 1)}

TotalPages(total) == (total + PageSize - 1) \div PageSize
==============================================================================
