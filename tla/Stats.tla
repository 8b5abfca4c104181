-------------------------------- MODULE Stats --------------------------------
(***************************************************************************)
(* The statistics of a WebSocket client (ws_natives_client.cpp): 64-bit    *)
(* counters of the library, which its threads advance, read by natives     *)
(* that return a cell_t.  The plugin remembers what it read last, to see   *)
(* how much has passed since.                                              *)
(***************************************************************************)
EXTENDS Integers

CONSTANTS
  Counters,   \* messages, bytes, pings and pongs, each sent or received
  Cells,      \* how many values a cell_t has: 2^32
  Sizes,      \* what one message adds to a counter
  MaxTraffic  \* bound: where a counter stops

ASSUME StatsAssumption ==
  /\ Cells \in Nat \ {0, 1}
  /\ Sizes \subseteq Nat
  /\ MaxTraffic \in Nat

VARIABLES
  stats,   \* the counters
  last,    \* the cell the plugin read last, for each counter
  passed,  \* what went by since then
  reset    \* the counters that were reset since then

statsVars == <<stats, last, passed, reset>>

(* Mutant: a counter too large for a cell is cut to the largest. *)
CellCut(x) == IF x < Cells \div 2 THEN x ELSE Cells \div 2 - 1

(* static_cast<cell_t>: the low bits, read as a signed number. *)
Cell(x) == IF x % Cells < Cells \div 2 THEN x % Cells ELSE (x % Cells) - Cells

StatsInit ==
  /\ stats = [c \in Counters |-> 0]
  /\ last = [c \in Counters |-> 0]
  /\ passed = [c \in Counters |-> 0]
  /\ reset = {}

Traffic(c, n) ==
  /\ stats[c] + n <= MaxTraffic
  /\ stats' = [stats EXCEPT ![c] = @ + n]
  /\ passed' = [passed EXCEPT ![c] = @ + n]
  /\ UNCHANGED <<last, reset>>

Read(c) ==
  /\ last' = [last EXCEPT ![c] = Cell(stats[c])]
  /\ passed' = [passed EXCEPT ![c] = 0]
  /\ reset' = reset \ {c}
  /\ UNCHANGED stats

ResetStats ==
  /\ stats' = [c \in Counters |-> 0]
  /\ passed' = [c \in Counters |-> 0]
  /\ reset' = Counters
  /\ UNCHANGED last

StatsNext ==
  \/ ResetStats
  \/ \E c \in Counters : Read(c) \/ \E n \in Sizes : Traffic(c, n)

StatsSpec == StatsInit /\ [][StatsNext]_statsVars

-----------------------------------------------------------------------------
(* Two reads of a counter tell what passed between them, also when the     *)
(* cell has overflowed once or more (ws_natives_client.cpp:503), as long   *)
(* as less than a cell's range passed and nobody reset the counters.       *)
DifferenceRight ==
  [][\A c \in Counters :
       (Read(c) /\ c \notin reset /\ passed[c] < Cells)
         => (last'[c] - last[c]) % Cells = passed[c]]_statsVars
=============================================================================
