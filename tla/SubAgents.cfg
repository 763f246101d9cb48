SPECIFICATION AgentsSpec
CONSTANTS
  t1 = t1
  a1 = a1
  a2 = a2
  a3 = a3
  l1 = l1
  l2 = l2
  Tops <- MCTops
  ToolCalls <- MCToolCalls
  Agents <- MCAgents
  By <- MCBy
  MaxTurns = 2
  Caps = {0, 1, 2, 4}
INVARIANTS OnlyRaisesLeaveCalls
PROPERTIES RunsEnd
