----------------------------- MODULE BackOffice -----------------------------
(***************************************************************************)
(* The components of the back office side by side: stock, menu, sessions,  *)
(* subscriptions, screens and reports.  They share no table and no action; *)
(* a step is a step of one of them and leaves the others where they are.   *)
(***************************************************************************)
EXTENDS Stock, Menu, Access, Billing, Realtime, Reports

BackOfficeInit ==
  StockInit /\ MenuInit /\ AccessInit /\ BillingInit /\ RealtimeInit /\ ReportsInit

StockStep ==
  /\ StockNext
  /\ UNCHANGED <<menuVars, accessVars, billingVars, realtimeVars, reportVars>>
MenuStep ==
  /\ MenuNext
  /\ UNCHANGED <<stockVars, accessVars, billingVars, realtimeVars, reportVars>>
AccessStep ==
  /\ AccessNext
  /\ UNCHANGED <<stockVars, menuVars, billingVars, realtimeVars, reportVars>>
BillingStep ==
  /\ BillingNext
  /\ UNCHANGED <<stockVars, menuVars, accessVars, realtimeVars, reportVars>>
RealtimeStep ==
  /\ RealtimeNext
  /\ UNCHANGED <<stockVars, menuVars, accessVars, billingVars, reportVars>>
ReportsStep ==
  /\ ReportsNext
  /\ UNCHANGED <<stockVars, menuVars, accessVars, billingVars, realtimeVars>>

BackOfficeNext ==
  StockStep \/ MenuStep \/ AccessStep \/ BillingStep \/ RealtimeStep \/ ReportsStep

backOfficeVars == <<stockVars, menuVars, accessVars, billingVars, realtimeVars, reportVars>>

BackOfficeSpec == BackOfficeInit /\ [][BackOfficeNext]_backOfficeVars

-----------------------------------------------------------------------------
\* Every component's state has its type.
BackOfficeTypeOK ==
  /\ StockTypeOK /\ MenuTypeOK /\ AccessTypeOK /\ BillingTypeOK /\ RealtimeTypeOK
  /\ ReportsTypeOK
=============================================================================
