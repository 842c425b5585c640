---------------------------- MODULE ClusterTrend ----------------------------
(***************************************************************************)
(* The trend of a failure cluster: the count of each window is compared    *)
(* with the moving average of the windows before, and an alert is gated on *)
(* significance.  Average and bound are the code's; counting the windows   *)
(* and averaging the earlier ones is the orchestrator's part.              *)
(*                                                                         *)
(* All of it is exact: an average is a fraction of integers, whose unit    *)
(* grows tenfold with each window, and the bound is compared squared.      *)
(***************************************************************************)
EXTENDS Integers, Sequences, FiniteSetsExt

CONSTANTS
  Alpha,          \* the weight of the newest window, in tenths
  Z,              \* the bound of the spike, in standard deviations
  MinVolume,      \* below as many events an alert is suppressed
  Counts,         \* what a window may count
  MaxWindows      \* bound on the windows

ASSUME TrendAssumption ==
  /\ Alpha \in 0..10 /\ Z \in Nat /\ MinVolume \in Nat \ {0}
  /\ Counts \subseteq Nat /\ MaxWindows \in Nat

VARIABLES
  windows,     \* the counts of the windows so far, oldest first
  volume       \* the events of the newest window

trendVars == <<windows, volume>>

NoAverage == [value |-> 0, unit |-> 1]

\* The average that another window joins, in parts of ten times as much.
Averaged(average, count) ==
  [value |-> Alpha * count * average.unit + (10 - Alpha) * average.value,
   unit |-> 10 * average.unit]

\* As if the average started at zero.
EwmaFromZero(series) ==
  LET acc[i \in 0..Len(series)] ==
        IF i = 0 THEN NoAverage ELSE Averaged(acc[i - 1], series[i])
  IN acc[Len(series)]

\* The moving average, value / unit.
Ewma(series) ==
  LET acc[i \in 1..Len(series)] ==
        IF i = 1 THEN [value |-> series[1], unit |-> 1]
        ELSE Averaged(acc[i - 1], series[i])
  IN IF series = <<>> THEN NoAverage ELSE acc[Len(series)]

\* observed > e + Z * sqrt(max(e, 1)), where e = expected / unit.
AboveBound(observed, expected, unit) ==
  LET excess == observed * unit - expected IN
  excess > 0 /\ excess * excess > Z * Z * Max({expected, unit}) * unit

PoissonSpike(observed, expected, unit, windowVolume) ==
  windowVolume >= MinVolume /\ AboveBound(observed, expected, unit)

History == SubSeq(windows, 1, Len(windows) - 1)

\* The alert on the newest window, from the windows before.
SpikeAlert ==
  LET expected == Ewma(History) IN
  windows # <<>> /\ PoissonSpike(windows[Len(windows)], expected.value, expected.unit, volume)

-----------------------------------------------------------------------------
TrendInit == windows = <<>> /\ volume = 0

WindowEnds ==
  /\ Len(windows) < MaxWindows
  /\ \E count \in Counts : windows' = Append(windows, count)
  /\ volume' \in {MinVolume - 1, MinVolume}

TrendNext == WindowEnds

TrendSpec == TrendInit /\ [][TrendNext]_trendVars

-----------------------------------------------------------------------------
\* A window is judged by those before it, whatever their order: there is no alert on
\* one that counts no more than each of them, and there is one on a count above the
\* bound that the largest of them gives, if the volume is enough for any.
SpikesAreJudgedByHistory ==
  Len(windows) > 1 =>
    LET observed == windows[Len(windows)]
        counts == {History[i] : i \in DOMAIN History}
    IN /\ SpikeAlert => volume >= MinVolume /\ \E c \in counts : observed > c
       /\ volume >= MinVolume /\ AboveBound(observed, Max(counts), 1) => SpikeAlert
=============================================================================
