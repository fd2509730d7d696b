----------------------------- MODULE WorkTools ------------------------------
(* The tools of the report, todo, calendar and ticket services.            *)
EXTENDS ToolKinds

CONSTANT FanOut  \* comments with replies on a page, at most

ASSUME FanOutAssumption == FanOut \in Nat

(* Employee reports.                                                       *)
ListMyReports ==
  Reader("list_my_reports", Post("ERS/reports/getAllUserReports", "none", "data.reports", "body"))
GetMyReportStats ==
  Reader("get_my_report_stats", Post("ERS/reports/getUserReportStatistics", "none", "data", "body"))
GetUpcomingReports ==
  Reader("get_upcoming_reports",
         Post("ERS/reports/getUpcomingReportTypes", "none", "data.pending_reports", "body"))
ListReportTemplates ==
  Reader("list_report_templates", Post("ERS/reports/getAllTemplates", "none", "data", "body"))
ListReportTypes ==
  Reader("list_report_types", Post("ERS/reports/getAllReportTypes", "none", "data", "body"))
SubmitEmployeeReport ==
  Writer("submit_employee_report", Create("ERS/reports/createReport", "none", "message", "nothing"))
GetTeamReportStats ==
  Reader("get_team_report_stats", Post("ERS/team-reports/getTeamStatistics", "snake", "data", "body"))
ListTeamReports ==
  Reader("list_team_reports",
         Post("ERS/team-reports/getAllTeamReports", "snake", "data.reports", "body"))

(* The page, then in parallel the replies of each comment that has some.   *)
ListReportComments ==
  LET Page == Post("ERS/comments/getByReport", "none", "data.comments", "body")
      Replies(k) == {[Post("ERS/comments/getReplies", "none", "data.replies", "body")
                        EXCEPT !.nth = i] : i \in 1..k}
  IN Tool("list_report_comments",
          {<<{Page}>>} \cup {<<{Page}, Replies(k)>> : k \in 1..FanOut})

AddReportComment ==
  Checked(Writer("add_report_comment", Create("ERS/comments/create", "none", "message", "nothing")))

ReportToolsInOrder ==
  <<ListMyReports, GetMyReportStats, GetUpcomingReports, ListReportTemplates,
    ListReportTypes, SubmitEmployeeReport, GetTeamReportStats, ListTeamReports,
    ListReportComments, AddReportComment>>

-----------------------------------------------------------------------------
(* Todos.                                                                  *)
ListTodos ==
  Reader("list_todos", Post("TODO/allTodos", "snake", "data.data", "body"))

TodoById == Post("TODO/todoById", "none", "data.data", "body")

(* The todo and its comments in parallel, by Promise.allSettled: a call    *)
(* that fails leaves todo null, or comments empty with a warning.          *)
GetTodoById ==
  [Tool("get_todo_by_id",
        {<<{TodoById, Post("TODO/commentByTodoId", "none", "data.data", "body")}>>})
     EXCEPT !.settles = TRUE]

CreateTodo ==
  Checked(Writer("create_todo", Create("TODO/addTodos", "snake", "message", "nothing")))
AddTodoComment ==
  Checked(Writer("add_todo_comment", Create("TODO/addComments", "snake", "message", "nothing")))

TodoToolsInOrder == <<ListTodos, GetTodoById, CreateTodo, AddTodoComment>>

-----------------------------------------------------------------------------
(* Calendar.                                                               *)

CalendarAliases ==
  {"list_public_calendar_events", "list_calendar_events_by_type",
   "list_holidays", "get_upcoming_calendar_events",
   "list_my_private_calendar_events", "list_private_events_by_type",
   "get_upcoming_private_events"}

(* scope chooses the row; days_ahead before event_type before neither.     *)
CalendarCalls ==
  LET Events(e, tenant) == Post(e, tenant, "message.data", "nothing")
  IN {Events("CALENDAR/getUpcomingPublicEvents", "none"),
      Events("CALENDAR/getPublicEventsByType", "snake"),
      Events("CALENDAR/getAllPublicEvents", "own"),
      Events("CALENDAR/getUpcomingPrivateEvents", "snake"),
      Events("CALENDAR/getPrivateEventsByType", "snake"),
      Events("CALENDAR/getAllPrivateEvents", "own")}

ListCalendarEvents ==
  [Tool("list_calendar_events", {<<{c}>> : c \in CalendarCalls})
     EXCEPT !.aliases = CalendarAliases]
GetCalendarEventById ==
  Reader("get_calendar_event_by_id",
         Post("CALENDAR/getEventById", "none", "message[0].data", "nothing"))

CalendarToolsInOrder == <<ListCalendarEvents, GetCalendarEventById>>

-----------------------------------------------------------------------------
(* Tickets.                                                                *)
ListTickets ==
  Reader("list_tickets", Post("TICKETS/getAllTickets", "snake", "message.data", "nothing"))
GetTicketById ==
  Reader("get_ticket_by_id", Post("TICKETS/getRaiseTicketById", "none", "message.data", "nothing"))
ListMyAssignedTickets ==
  Reader("list_my_assigned_tickets",
         Post("TICKETS/getAssignedTickets", "snake", "message.data", "nothing"))
GetTicketCounts ==
  Reader("get_ticket_counts", Post("TICKETS/getTicketCounts", "snake", "message.data", "nothing"))
GetTicketStatistics ==
  Reader("get_ticket_statistics",
         Post("TICKETS/getTicketStatistics", "snake", "message.data", "nothing"))
CreateTicket ==
  Checked(Writer("create_ticket", Create("TICKETS/addRaiseTicket", "snake", "message", "nothing")))
ListTicketComments ==
  Reader("list_ticket_comments",
         Post("TICKETS/getCommentsByTicketId", "none", "message.data", "nothing"))
ListTicketCategories ==
  Reader("list_ticket_categories",
         Post("TICKETS/getAllTicketCategories", "snake", "data.data", "nothing"))

TicketToolsInOrder ==
  <<ListTickets, GetTicketById, ListMyAssignedTickets, GetTicketCounts,
    GetTicketStatistics, CreateTicket, ListTicketComments, ListTicketCategories>>
=============================================================================
