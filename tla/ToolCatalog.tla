---------------------------- MODULE ToolCatalog -----------------------------
(* The whole catalogue, in the order in which tools/index.ts imports it.   *)
EXTENDS LeadTools, CallLogTools, StaffTools, WorkTools

Ping == Tool("ping", {<<>>})

Imports ==
  <<Ping>> \o UserToolsInOrder \o LeadToolsInOrder \o AttendanceToolsInOrder
    \o CallLogToolsInOrder \o ReportToolsInOrder \o TodoToolsInOrder
    \o AssetToolsInOrder \o CalendarToolsInOrder \o TicketToolsInOrder
    \o DriveToolsInOrder
=============================================================================
