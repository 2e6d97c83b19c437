--------------------------- MODULE ServicesProofs ----------------------------
(***************************************************************************)
(* The components that MCServices runs side by side: every behaviour of    *)
(* that instance is one of each component, so what StoresProofs and        *)
(* ServersProofs say of them is said of the instance, too.                 *)
(***************************************************************************)
EXTENDS MCServices, StoresProofs, ServersProofs

\* What the components assume of their constants.
Assumptions ==
  /\ RetentionAssumption /\ FleetAssumption /\ StoreAssumption /\ BootAssumption
  /\ IncidentAssumption /\ ProxyAssumption /\ TokenAssumption
  /\ HistoryAssumption /\ PluginAssumption

\* A step of the instance is a step of one component and leaves the others
\* alone.
LEMMA PartSteps ==
  ASSUME [Next]_vars
  PROVE  /\ [RetentionNext]_retentionVars /\ [IncidentNext]_incidentVars /\ [ProxyNext]_proxyVars
         /\ [FleetNext]_fleetVars /\ [TokenNext]_tokenVars /\ [HistoryNext]_historyVars
         /\ [StoreNext]_configVars /\ [BootNext]_serverVars /\ [PluginNext]_pluginVars
         /\ part' = part
<1>1. CASE Next
  BY <1>1 DEF Next
<1>2. CASE UNCHANGED vars
  BY <1>2 DEF vars
<1> QED
  BY <1>1, <1>2

\* Every behaviour of the instance is a behaviour of each component.
THEOREM PartsRun ==
  Spec => /\ RetentionSpec /\ IncidentSpec /\ ProxySpec
          /\ FleetSpec /\ TokenSpec /\ HistorySpec
          /\ StoreSpec /\ BootSpec /\ PluginSpec
<1>1. Init => /\ RetentionInit /\ IncidentInit /\ ProxyInit /\ FleetInit /\ TokenInit
              /\ HistoryInit /\ StoreInit /\ BootInit /\ PluginInit
  BY DEF Init
<1> QED
  BY <1>1, PartSteps, PTL
     DEF Spec, RetentionSpec, IncidentSpec, ProxySpec, FleetSpec, TokenSpec, HistorySpec,
         StoreSpec, BootSpec, PluginSpec

\* All components keep to their types, whichever of them a behaviour is about.
THEOREM ServicesTypeOK == Assumptions => (Spec => []TypeOK)
<1> SUFFICES ASSUME Assumptions PROVE Spec => []TypeOK
  OBVIOUS
<1>1. Spec => [](part \in Parts)
  <2>1. Init => part \in Parts
    BY DEF Init
  <2>2. part \in Parts /\ [Next]_vars => (part \in Parts)'
    BY PartSteps
  <2> QED
    BY <2>1, <2>2, PTL DEF Spec
<1>2. /\ RetentionSpec => []RetentionTypeOK
      /\ IncidentSpec => []IncidentTypeOK
      /\ ProxySpec => []ProxyTypeOK
  BY RetentionTypeCorrect, IncidentTypeCorrect, ProxyTypeCorrect DEF Assumptions
<1>3. /\ FleetSpec => []FleetTypeOK
      /\ TokenSpec => []TokenTypeOK
      /\ HistorySpec => []HistoryTypeOK
  BY FleetTypeCorrect, TokenTypeCorrect, HistoryTypeCorrect DEF Assumptions
<1>4. /\ StoreSpec => []StoreTypeOK
      /\ BootSpec => []BootTypeOK
      /\ PluginSpec => []PluginTypeOK
  BY StoreTypeCorrect, BootTypeCorrect, PluginTypeCorrect DEF Assumptions
<1>5. Spec => []( /\ part \in Parts
                  /\ RetentionTypeOK /\ IncidentTypeOK /\ ProxyTypeOK
                  /\ FleetTypeOK /\ TokenTypeOK /\ HistoryTypeOK
                  /\ StoreTypeOK /\ BootTypeOK /\ PluginTypeOK)
  BY <1>1, <1>2, <1>3, <1>4, PartsRun, PTL
<1>6. ( /\ part \in Parts
        /\ RetentionTypeOK /\ IncidentTypeOK /\ ProxyTypeOK
        /\ FleetTypeOK /\ TokenTypeOK /\ HistoryTypeOK
        /\ StoreTypeOK /\ BootTypeOK /\ PluginTypeOK) => TypeOK
  BY DEF TypeOK, Assumptions
<1> QED
  BY <1>5, <1>6, PTL
==============================================================================
