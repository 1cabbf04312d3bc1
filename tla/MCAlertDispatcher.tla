------------------------- MODULE MCAlertDispatcher -------------------------
(***************************************************************************)
(* Three rules: a webhook for everything, a chat channel for one zone, and *)
(* a second webhook for critical alerts.  Two kinds of alert: one for the  *)
(* two channels, one without zone for the two webhooks.                    *)
(***************************************************************************)
EXTENDS AlertDispatcher

CONSTANTS hookAll, chatZone, hookCritical

Row(type, severity, zone, channel) ==
  [type |-> type, severity |-> severity, zone |-> zone, channel |-> channel,
   active |-> TRUE]

MCRouting ==
  [r \in Rule |->
     CASE r = hookAll -> Row(Any, Any, Any, "WEBHOOK")
       [] r = chatZone -> Row("VIOLENCE", Any, "z1", "SLACK")
       [] r = hookCritical -> Row(Any, "CRITICAL", Any, "WEBHOOK")]

MCAlertKind ==
  {[type |-> "VIOLENCE", severity |-> "HIGH", zone |-> "z1"],
   [type |-> "SYSTEM_CRITICAL", severity |-> "CRITICAL", zone |-> Any]}
=============================================================================
