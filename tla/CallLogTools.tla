---------------------------- MODULE CallLogTools ----------------------------
(* The tools of the call-log and attendance services.                      *)
EXTENDS ToolKinds

(* logs                                                                    *)
GetMyCallLogs ==
  Reader("get_my_call_logs", Post("CALL_LOGS/getCustomerLogs", "none", "data", "body"))
ListCallsByType ==
  Reader("list_calls_by_type", Post("CALL_LOGS/getUserCallLogsByType", "snake", "data", "body"))
GetCallJourney ==
  Reader("get_call_journey", Post("CALL_LOGS/getCallJourney", "snake", "data", "body"))
GetCallFollowUps ==
  Reader("get_call_followups", Post("CALL_LOGS/get-call-logs-followup", "camel", "data", "nothing"))

(* analytics                                                               *)
GetCallDashboard ==
  Reader("get_call_dashboard", Post("CALL_LOGS/getDashboardDetails", "snake", "data", "body"))
GetDailyCallStats ==
  Reader("get_daily_call_stats", Post("CALL_LOGS/getDailyCallStatistics", "snake", "data", "body"))
GetUserCallStats ==
  Reader("get_user_call_stats", Post("CALL_LOGS/getUserCallStats", "snake", "data.calls", "body"))

(* leads: their handlers write companyId and companyType themselves.       *)
ListUnassignedCallLeads ==
  Reader("list_unassigned_call_leads", Post("CALL_LOGS/get-call-logs-leads", "own", "data", "body"))
ListWorkedCallLeads ==
  Reader("list_worked_call_leads", Post("CALL_LOGS/get-used-call-logs", "own", "data.data", "body"))
SearchCallContacts ==
  Reader("search_call_contacts", Post("CALL_LOGS/search-contact", "none", "data", "body"))
ListLeadsByEmployee ==
  Reader("list_leads_by_employee",
         Post("CALL_LOGS/get-leads-by-employee-date", "own", "data", "body"))

(* imports                                                                 *)
ListBulkImportBatches ==
  Reader("list_bulk_import_batches",
         Post("CALL_LOGS/getUploadedFileNames", "camel", "data", "nothing"))
ListLeadsByImportBatch ==
  Reader("list_leads_by_import_batch",
         Post("CALL_LOGS/getLeadsByFileName", "camel", "data", "nothing"))

CallLogToolsInOrder ==
  <<GetMyCallLogs, ListCallsByType, GetCallJourney, GetCallFollowUps,
    GetCallDashboard, GetDailyCallStats, GetUserCallStats,
    ListUnassignedCallLeads, ListWorkedCallLeads, SearchCallContacts,
    ListLeadsByEmployee, ListBulkImportBatches, ListLeadsByImportBatch>>

-----------------------------------------------------------------------------
(* Attendance.  The handlers with "own" keys throw [AUTH_ERROR] without a  *)
(* company or user in the context; bindTool always passes the session's.   *)

GetAttendanceByDate ==
  Reader("get_attendance_by_date",
         Post("ATTENDANCE/getEmployeeAttendance", "own", "data", "body"))
GetAttendanceRange ==
  Reader("get_attendance_range",
         Post("ATTENDANCE/getEmployeeAttendanceRange", "own", "data", "body"))
GetEmployeeAttendanceDetails ==
  Reader("get_employee_attendance_details",
         Post("ATTENDANCE/getEmloyeeDetails", "own", "data", "body"))
GetAttendanceReport ==
  Reader("get_attendance_report",
         Post("ATTENDANCE/getAllEmployeesDetailedAttendanceReport", "own",
              "data.department_reports", "body"))
GetAttendanceStats ==
  Reader("get_attendance_stats",
         Post("ATTENDANCE/getUserAttendanceStats", "snake", "data.attendance", "body"))

GetCompanyLeaveOverview ==
  Reader("get_company_leave_overview",
         Post("ATTENDANCE/get-company-leaveOverview", "none", "data", "body"))
GetEmployeeLeaveSummary ==
  Reader("get_employee_leave_summary",
         Post("ATTENDANCE/get-employee-leave-summary", "none", "data", "body"))
GetLeaveSummary ==
  Reader("get_leave_summary", Post("ATTENDANCE/leave-summary", "none", "data", "body"))
GetLeaveTypes ==
  Reader("get_leave_types", Post("ATTENDANCE/get-leave-types", "none", "data.leaveTypes", "body"))

(* A request, or the edit of one (leave_request_id).  The handler reads    *)
(* res.message with no "?": a null body throws after the write.            *)
ApplyLeave ==
  LET Leave == Create("ATTENDANCE/apply-leave", "none", "message.leaveRequest", "body")
  IN [Tool("apply_leave", {<<{Leave}>>, <<{[Leave EXCEPT !.effect = "overwrites"]}>>})
        EXCEPT !.readOnly = FALSE, !.idempotent = FALSE]

AttendanceToolsInOrder ==
  <<GetCompanyLeaveOverview, GetEmployeeLeaveSummary, GetLeaveSummary,
    GetLeaveTypes, ApplyLeave, GetAttendanceByDate, GetAttendanceRange,
    GetEmployeeAttendanceDetails, GetAttendanceReport, GetAttendanceStats>>
=============================================================================
