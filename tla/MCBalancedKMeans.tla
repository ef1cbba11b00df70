-------------------------- MODULE MCBalancedKMeans --------------------------
(***************************************************************************)
(* Points on a line, distributed along it over two processes, into two     *)
(* blocks or into three on two levels.  The uneven distribution of seven   *)
(* points needs the last, forced sampling round.  With one block on the    *)
(* first level its first samples are empty; a process may have no points.  *)
(***************************************************************************)
EXTENDS BalancedKMeans

MCPEs == {0, 1}
Ascending(n) ==
  {f \in [1 .. n -> {0, 1, 3, 4, 7, 12}] :
     f[1] = 0 /\ f[n] = 12 /\ \A i \in 1 .. (n - 1) : f[i] <= f[i + 1] /\ (i # 2 => f[i] # f[i + 1])}
Split(positions, first, levels) ==
  {[pos |-> q, home |-> [i \in DOMAIN q |-> IF i <= first THEN 0 ELSE 1], levels |-> levels] :
     q \in positions}
TwoLevels == << <<2>>, <<1, 2>> >>
MCInputs == Split(Ascending(6), 3, TwoLevels) \cup Split(Ascending(6), 5, TwoLevels)
            \cup Split(Ascending(7), 5, TwoLevels) \cup Split(Ascending(6), 3, << <<2>> >>)
            \cup Split(Ascending(6), 4, << <<1>>, <<2>> >>) \cup Split(Ascending(6), 6, TwoLevels)
=============================================================================
