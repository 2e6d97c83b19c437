----------------------------- MODULE MCServices ------------------------------
(***************************************************************************)
(* One TLC instance for the components that share nothing with each other: *)
(* a behaviour is one of one component, chosen in its initial state, while *)
(* the variables of the others stay as they are.                           *)
(***************************************************************************)
EXTENDS S3Retention, ServerFleet, ConfigStore, ServerBoot, Incidents,
        ProxyMap, ApiTokens, SearchHistory, PluginDelivery

VARIABLE part  \* the component whose behaviour this is

vars == <<part, retentionVars, incidentVars, proxyVars, fleetVars, tokenVars, historyVars, configVars, serverVars, pluginVars>>

Parts == {"Retention", "Incidents", "Proxy", "Fleet", "Tokens", "History", "Config", "Boot", "Plugin"}

Init ==
  /\ part \in Parts
  /\ part # "Boot" => kind = "download"
  /\ RetentionInit
  /\ IncidentInit
  /\ ProxyInit
  /\ FleetInit
  /\ TokenInit
  /\ HistoryInit
  /\ StoreInit
  /\ BootInit
  /\ PluginInit

Next ==
  /\ UNCHANGED part
  /\ \/ /\ part = "Retention" /\ RetentionNext
        /\ UNCHANGED <<incidentVars, proxyVars, fleetVars, tokenVars, historyVars, configVars, serverVars, pluginVars>>
     \/ /\ part = "Incidents" /\ IncidentNext
        /\ UNCHANGED <<retentionVars, proxyVars, fleetVars, tokenVars, historyVars, configVars, serverVars, pluginVars>>
     \/ /\ part = "Proxy" /\ ProxyNext
        /\ UNCHANGED <<retentionVars, incidentVars, fleetVars, tokenVars, historyVars, configVars, serverVars, pluginVars>>
     \/ /\ part = "Fleet" /\ FleetNext
        /\ UNCHANGED <<retentionVars, incidentVars, proxyVars, tokenVars, historyVars, configVars, serverVars, pluginVars>>
     \/ /\ part = "Tokens" /\ TokenNext
        /\ UNCHANGED <<retentionVars, incidentVars, proxyVars, fleetVars, historyVars, configVars, serverVars, pluginVars>>
     \/ /\ part = "History" /\ HistoryNext
        /\ UNCHANGED <<retentionVars, incidentVars, proxyVars, fleetVars, tokenVars, configVars, serverVars, pluginVars>>
     \/ /\ part = "Config" /\ StoreNext
        /\ UNCHANGED <<retentionVars, incidentVars, proxyVars, fleetVars, tokenVars, historyVars, serverVars, pluginVars>>
     \/ /\ part = "Boot" /\ BootNext
        /\ UNCHANGED <<retentionVars, incidentVars, proxyVars, fleetVars, tokenVars, historyVars, configVars, pluginVars>>
     \/ /\ part = "Plugin" /\ PluginNext
        /\ UNCHANGED <<retentionVars, incidentVars, proxyVars, fleetVars, tokenVars, historyVars, configVars, serverVars>>

Spec == Init /\ [][Next]_vars

\* Every component keeps to its types, and the small instance meets what the
\* components assume of their constants.
TypeOK ==
  /\ part \in Parts
  /\ RetentionAssumption /\ FleetAssumption /\ StoreAssumption /\ BootAssumption
  /\ IncidentAssumption /\ ProxyAssumption /\ TokenAssumption
  /\ HistoryAssumption /\ PluginAssumption
  /\ RetentionTypeOK
  /\ IncidentTypeOK
  /\ ProxyTypeOK
  /\ FleetTypeOK
  /\ TokenTypeOK
  /\ HistoryTypeOK
  /\ StoreTypeOK
  /\ BootTypeOK
  /\ PluginTypeOK
==============================================================================
