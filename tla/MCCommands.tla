----------------------------- MODULE MCCommands -----------------------------
(* Commands with two threads, two principals and texts, a local and a remote    *)
(* caller at a cache of two answers, three MCP servers, windows of two samples, *)
(* and a calendar of 68 minutes.                                                *)
EXTENDS Commands, TLC

CONSTANTS c1, c2, alice, bob, p1, p2, cli, web, x, y

MCThreads == {c1, c2}
MCPrincipals == {alice, bob}
MCPrivileges == {p1, p2}
MCCallers == {cli, web}
MCLocalCallers == {cli}
MCVerbs == {"remember", "save", "forget", "calculate"}
MCTexts == {x, y}

\* Standard input, and two servers over HTTP for two principals.
MCServers == {"stdio", "first", "second"}
MCServerScope == [s \in MCServers |-> IF s = "stdio" THEN None ELSE s]

\* Hours of two minutes, days of two hours, weeks of two days, and years of two
\* months, of which the second is longer in the first and the third year. The
\* search begins in the first year.
MCDays == <<<<1, 1>>, <<1, 2>>, <<1, 3>>, <<2, 1>>, <<2, 2>>, <<2, 3>>,
            <<1, 1>>, <<1, 2>>, <<1, 3>>, <<2, 1>>, <<2, 2>>>>
MCCalendar ==
  [t \in 0 .. 67 |->
     LET n == t \div 4
         date == MCDays[1 + (n % 11)] IN
     [minute |-> t % 2, hour |-> (t \div 2) % 2, day |-> date[2], month |-> date[1],
      year |-> 2 * (n \div 11) + (IF n % 11 < 6 THEN 0 ELSE 1), weekday |-> n % 2]]
MCCycle == 0 .. 23

MCSymmetry ==
  Permutations(MCThreads) \cup Permutations({x, y})
=============================================================================
