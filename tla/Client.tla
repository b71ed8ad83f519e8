------------------------------- MODULE Client -------------------------------
(***************************************************************************)
(* What an application does with the driver around the futures: it         *)
(* configures and connects a session (Builder), sets options on statements *)
(* and sends requests (Settings) under policies of its own (Policies),     *)
(* binds values and reads rows (Rows), and reads the pages of a result     *)
(* with the new interface (Paging) or the legacy one (ResultSet). These    *)
(* parts share no state: what one hands to the next is what its property   *)
(* says. A behaviour is therefore one of one part, chosen at its start,    *)
(* and the states are the sum of theirs.                                   *)
(***************************************************************************)
EXTENDS PagedResults, Settings, Builder, Rows, Policies

VARIABLE part   \* the part the application uses

vars == <<part, pagingVars, setVars, settingsVars, builderVars, rowVars,
          policyVars>>

Init ==
  /\ part \in {"builder", "requests", "policies", "rows", "paging", "resultset"}
  /\ PagingInit /\ SetInit /\ SettingsInit /\ BuilderInit /\ RowInit
  /\ PolicyInit

Next ==
  /\ UNCHANGED part
  /\ \/ /\ part = "builder" /\ BuilderNext
        /\ UNCHANGED <<pagingVars, setVars, settingsVars, rowVars, policyVars>>
     \/ /\ part = "requests" /\ SettingsNext
        /\ UNCHANGED <<pagingVars, setVars, builderVars, rowVars, policyVars>>
     \/ /\ part = "policies" /\ PolicyNext
        /\ UNCHANGED <<pagingVars, setVars, settingsVars, builderVars, rowVars>>
     \/ /\ part = "rows" /\ RowNext
        /\ UNCHANGED <<pagingVars, setVars, settingsVars, builderVars, policyVars>>
     \/ /\ part = "paging" /\ PagingNext
        /\ UNCHANGED <<setVars, settingsVars, builderVars, rowVars, policyVars>>
     \/ /\ part = "resultset" /\ SetNext
        /\ UNCHANGED <<pagingVars, settingsVars, builderVars, rowVars, policyVars>>

Spec == Init /\ [][Next]_vars
=============================================================================
