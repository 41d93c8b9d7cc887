---------------------------- MODULE MCCpuLimits ----------------------------
(***************************************************************************)
(* Two clusters: CPUs 1 and 2 share a policy with an unsorted table, CPU 3 *)
(* has one with a duplicate entry (its device table is 100, 90, 80, 0).    *)
(***************************************************************************)
EXTENDS CpuLimits, TLC

Clusters == <<"little", "little", "big">>
Tables == [little |-> <<95, 100, 90>>, big |-> <<100, 80, 90, 80>>]

\* The compiled-in values, and what an operator may set: caps switched off and a
\* larger step, a low floor and the largest step there is, or a hot_temp above
\* INT_MAX (63 here).
Compiled ==
  [enable |-> TRUE, floor |-> 92, hot_floor |-> 85, crit_floor |-> 75,
   hot_temp |-> 47, crit_temp |-> 53, step |-> 1]
Choices ==
  {Compiled,
   [Compiled EXCEPT !.enable = FALSE, !.step = 3],
   [Compiled EXCEPT !.floor = 10, !.step = UintMax],
   [Compiled EXCEPT !.hot_temp = 120]}

\* Nobody writes a parameter.
AsCompiled == {Compiled}

\* The battery reports tenths of a degree, the nodes degrees, the board
\* sensors thousandths of a degree as text, which may be no number.  48000 is
\* a text seen half stored.
Reports ==
  [battery |-> {300}, node |-> {0}, board |-> {NoReading, 48000, 54000}]

\* A battery at 6 degrees, everything else cool.
ColdReports ==
  [battery |-> {60, 300}, node |-> {0}, board |-> {NoReading}]

Symmetric == Permutations(Callers)
=============================================================================
