----------------------------- MODULE LeadTools ------------------------------
(* The tools of the leads service, one definition per tool.                *)
EXTENDS ToolKinds

(* crud                                                                    *)
ListForms ==
  Tool("list_forms", {<<{Post("LEADS/getAllLeadForms", "none", "data.data", "inner"),
                         Post("LEADS/getAllPipelines", "none", "data.data", "inner")}>>})
ListLeads ==
  Reader("list_leads", Post("LEADS/getAllLeadsResponse", "snake", "data.data", "inner"))

(* The lead and the blocks of "include", in parallel; no lead: [NOT_FOUND].*)
GetLeadDetails ==
  LET Lead == Post("LEADS/getLeadById", "none", "data.data", "inner")
      Blocks == {Post("LEADS/getLeadNote", "snake", "data.data", "body"),
                 Post("LEADS/getLeadCalls", "snake", "data.data", "body"),
                 Post("LEADS/getLeadActivities", "none", "data.data", "body")}
  IN Tool("get_lead_details", {<<{Lead} \cup include>> : include \in SUBSET Blocks})

ListPipelines ==
  Reader("list_pipelines", Post("LEADS/getAllPipelines", "none", "data.data", "body"))

(* [VALIDATION] is thrown before the call when there is no "Mobile No".    *)
CreateLead ==
  [Writer("create_lead", Create("LEADS/addLeadRespone", "snake", "message", "nothing"))
     EXCEPT !.guards = TRUE]

SetPriority == Overwrite("LEADS/updateLeadPriority", "none", "message", "nothing")
EditResponse == Overwrite("LEADS/editLeadResponse", "none", "message", "nothing")

(* One write or two, one after the other; at least one by a refinement.    *)
UpdateLead ==
  [Tool("update_lead", {<<{SetPriority}>>, <<{EditResponse}>>, <<{SetPriority}, {EditResponse}>>})
     EXCEPT !.readOnly = FALSE, !.refines = TRUE]

ListUnassignedLeads ==
  Reader("list_unassigned_leads", Post("LEADS/getQueuesData", "snake", "message[0].data", "inner"))
ListLeadHistory ==
  Reader("list_lead_history", Post("LEADS/getHistoryData", "snake", "message[0].data", "body"))

(* stats                                                                   *)
GetUserLeadStats ==
  Tool("get_user_lead_stats", {<<{Post(e, "snake", "data.leads", "body")}>> :
                                 e \in {"LEADS/getUserDealStats", "LEADS/getUserLeadStats"}})
GetOverdueLeads ==
  Reader("get_overdue_leads", Post("LEADS/getLeadReminder", "snake", "message.reminder", "body"))
GetOverallStageCounts ==
  Reader("get_overall_stage_counts",
         Post("LEADS/getOverallStageCounts", "snake", "data.overallStageCounts", "body"))
GetLeadStatsByFormField ==
  Reader("get_lead_stats_by_form_field",
         Post("LEADS/getLeadStatsByFormKey", "snake", "data.leads", "body"))

(* followups                                                               *)
GetLeadFollowUps ==
  Reader("get_lead_follow_ups", Post("LEADS/getLeadReminder", "snake", "message.reminder", "body"))

(* A wrong variant: the tenant keys are left out, as its neighbours do.    *)
MutGetLeadReminders ==
  Reader("get_lead_reminders", Post("LEADS/getLeadReminder", "none", "message.reminder", "body"))

GetLeadReminders ==
  Reader("get_lead_reminders", Post("LEADS/getLeadReminder", "snake", "message.reminder", "body"))
AddLeadFollowUp ==
  Checked(Writer("add_lead_followup", Create("LEADS/addLeadFollowUp", "snake", "message", "nothing")))

(* validation: [VALIDATION] before the call when the phone has no digit.   *)
CheckDuplicatePhone ==
  [Reader("check_duplicate_phone",
          Post("LEADS/checkDuplcateLeadByNumber", "none", "message", "body"))
     EXCEPT !.guards = TRUE]

(* activity                                                                *)
AddNoteToLead ==
  Writer("add_note_to_lead", Create("LEADS/addLeadnote", "snake", "message", "nothing"))
GetLeadActivity ==
  Reader("get_lead_activity", Post("LEADS/getLeadActivities", "none", "data.data", "body"))
ListLeadNotes ==
  Reader("list_lead_notes", Post("LEADS/getLeadNote", "snake", "data.data", "nothing"))
ListLeadCalls ==
  Reader("list_lead_calls", Post("LEADS/getLeadCalls", "snake", "data.data", "nothing"))

-----------------------------------------------------------------------------
(* In the order in which the modules are imported.                         *)
LeadToolsInOrder ==
  <<ListForms, ListLeads, GetLeadDetails, ListPipelines, CreateLead, UpdateLead,
    ListUnassignedLeads, ListLeadHistory, GetUserLeadStats, GetOverdueLeads,
    GetOverallStageCounts, GetLeadStatsByFormField, GetLeadFollowUps,
    GetLeadReminders, AddLeadFollowUp, CheckDuplicatePhone, AddNoteToLead,
    GetLeadActivity, ListLeadNotes, ListLeadCalls>>
=============================================================================
