----------------------------- MODULE MCPlatform -----------------------------
(***************************************************************************)
(* Five parts that share no state, for TLC: the scheduler, the knowledge   *)
(* base and the MCP sessions of the hub, and the configuration and the     *)
(* reconnect loop of the tunnel.  A behaviour exercises one of them, the   *)
(* load, and leaves the others in their initial states, where none of the  *)
(* actions that fairness speaks of is enabled.                             *)
(***************************************************************************)
EXTENDS Scheduler, KnowledgeBase, McpSessions, TunnelConfig, Reconnect

CONSTANTS app, edge, tA, tB, api, hX, hY

VARIABLE load

platformVars ==
  <<load, schedVars, kbVars, mcpVars, configVars, reconnectVars>>

Port(p, t) == [port |-> p, target |-> t]
Entry(i, ps, t) == [form |-> "full", id |-> i, ports |-> ps, token |-> t]
Ill(e, form) == [e EXCEPT !.form = form]
Legacy == Entry(edge, <<Port(10001, Unset)>>, tA)
Many == Entry(edge, <<Port(10001, Default), Port(10011, api)>>, tB)
App == Entry(app, << >>, tA)

MCSpokeSettings ==
  {<< >>, <<Ill(App, "blank")>>, <<App, Ill(Many, "bad")>>, <<Legacy, App>>,
   <<Many, Legacy>>, <<Legacy, Ill(App, "blank"), Many>>,
   <<Entry(edge, << >>, tA)>>, <<Entry(edge, <<Port(10001, Blank)>>, tA)>>,
   <<Entry(app, <<Port(65536, api)>>, tA), Legacy>>,
   <<Entry(app, <<Port(65535, api)>>, tB), Many>>}

Target(n, h) == [form |-> "full", name |-> n, host |-> h]

MCTargetSettings ==
  {<< >>, <<Target(Default, hX)>>, <<Target(api, hY)>>,
   <<Target(api, hX), Target(Default, hY), Target(api, hY)>>,
   <<Ill(Target(api, hX), "blank"), Target(Default, hX)>>,
   <<Ill(Target(api, hX), "bad")>>}

Loads == {"tasks", "topics", "sessions", "settings", "reconnects"}

PlatformInit ==
  /\ load \in Loads
  /\ SchedInit /\ KbInit /\ McpInit /\ ReconnectInit /\ ConfigInit
  /\ load = "topics" \/ \A i \in Topics : topic[i].body = NoBody
  /\ load = "settings" \/
       setting = [spokes |-> << >>, targets |-> << >>, target |-> Unset,
                  id |-> Unset, token |-> Unset]

PlatformNext ==
  \/ /\ load = "tasks" /\ SchedNext
     /\ UNCHANGED <<load, kbVars, mcpVars, configVars, reconnectVars>>
  \/ /\ load = "topics" /\ KbNext
     /\ UNCHANGED <<load, schedVars, mcpVars, configVars, reconnectVars>>
  \/ /\ load = "sessions" /\ McpNext
     /\ UNCHANGED <<load, schedVars, kbVars, configVars, reconnectVars>>
  \/ /\ load = "settings" /\ ConfigNext
     /\ UNCHANGED <<load, schedVars, kbVars, mcpVars, reconnectVars>>
  \/ /\ load = "reconnects" /\ ReconnectNext
     /\ UNCHANGED <<load, schedVars, kbVars, mcpVars, configVars>>

PlatformSpec ==
  /\ PlatformInit /\ [][PlatformNext]_platformVars
  /\ SchedFairness /\ KbFairness /\ McpFairness
=============================================================================
