----------------------------- MODULE StaffTools -----------------------------
(* The tools of the user, asset and drive services.                        *)
EXTENDS ToolKinds

(* directory.  The employee's own row, by the user id of the session.      *)
GetCurrentUser ==
  [Reader("get_current_user", Post("USERS/getEmployeeById", "none", "data.data", "nothing"))
     EXCEPT !.aliases = {"whoami", "my_profile"}]
ListEmployees ==
  Reader("list_employees", Post("USERS/getEmployeesListData", "none", "data.data", "nothing"))
GetEmployeeById ==
  Reader("get_employee_by_id", Post("USERS/getEmployeeById", "none", "data.data", "nothing"))
ListChildCompanies ==
  Reader("list_child_companies", Post("USERS/getChildCompanyList", "none", "data.data", "nothing"))
GetReportingOfficer ==
  Reader("list_reporting_officers", Post("USERS/getReportingOfficer", "own", "data.data", "nothing"))
ListActiveEmployees ==
  Reader("list_active_employees",
         Post("USERS/getActiveEmployeesListData", "none", "data.data", "nothing"))

(* orgStructure                                                            *)
ListDepartments ==
  Reader("list_departments", Post("USERS/getDepartment", "none", "data.data", "inner"))
GetCompanySettings ==
  Reader("get_company_settings", Post("USERS/getCompanySettings", "own", "data.data", "nothing"))
ListDesignations ==
  Reader("list_designations", Post("USERS/getDesignation", "none", "data.data", "nothing"))
ListDesignationsWithUserCount ==
  Reader("list_designations_with_user_count",
         Post("USERS/getDesignationWithUser", "none", "data.data", "nothing"))
ListLocations ==
  Reader("list_locations", Post("USERS/getLocation", "snake", "data.data", "nothing"))

(* analytics                                                               *)
GetEmployeeStatistics ==
  Reader("get_employee_statistics",
         Post("USERS/getEmployeeStatisticsAndDetails", "own", "data.data", "nothing"))
GetMoodAnalytics ==
  Reader("get_mood_analytics", Post("USERS/getMoodAnalytics", "snake", "message.data", "nothing"))

(* assetMaster                                                             *)
ListAssetCategories ==
  Reader("list_asset_categories", Post("USERS/getCategory", "snake", "data.data", "nothing"))
ListAssetProducts ==
  Reader("list_asset_products", Post("USERS/getProducts", "snake", "data.data", "nothing"))
ListUnassignedAssetProducts ==
  Reader("list_unassigned_asset_products",
         Post("USERS/getAllUnAssignedProducts", "snake", "data.data", "nothing"))

UserToolsInOrder ==
  <<GetCurrentUser, ListEmployees, GetEmployeeById, ListChildCompanies,
    GetReportingOfficer, ListActiveEmployees, ListDepartments,
    GetCompanySettings, ListDesignations, ListDesignationsWithUserCount,
    ListLocations, GetEmployeeStatistics, GetMoodAnalytics,
    ListAssetCategories, ListAssetProducts, ListUnassignedAssetProducts>>

-----------------------------------------------------------------------------
(* Assets.                                                                 *)
GetAssetsDashboard ==
  Reader("get_assets_dashboard", Post("ASSETS/dashboard-data", "snake", "data.data", "nothing"))
GetAssetWithHistory ==
  Reader("get_asset_with_history",
         Post("ASSETS/getAssetDetailsWithHistory", "own", "data.data", "nothing"))
ListAssignedAssets ==
  Reader("list_assigned_assets", Post("ASSETS/getListAssignedAssets", "snake", "data.data", "nothing"))
GetEmployeeAssignedAssets ==
  Reader("get_employee_assigned_assets",
         Post("ASSETS/getEmployeeAssignedAssets", "none", "data.data", "nothing"))
GetAssignedAssetDetails ==
  Reader("get_assigned_asset_details",
         Post("ASSETS/getAssignedAssetDetails", "none", "data.data", "nothing"))

AssetToolsInOrder ==
  <<ListAssignedAssets, GetEmployeeAssignedAssets, GetAssignedAssetDetails,
    GetAssetWithHistory, GetAssetsDashboard>>

(* Drive.                                                                  *)
ListMyDriveFiles ==
  Reader("list_my_drive_files", Post("DRIVE/getRootDriveItemsByOwner", "none", "data", "nothing"))
ListSharedFiles ==
  Reader("list_shared_files", Post("DRIVE/getPermissionedFileByUserId", "none", "data.data", "nothing"))
ListOfficialDocuments ==
  Reader("list_official_documents",
         Post("DRIVE/getUserAccessibleOfficialDocuments", "none", "data.data", "nothing"))
GetDriveFileTypeCounts ==
  Reader("get_drive_file_type_counts", Post("DRIVE/getFileTypeCounts", "none", "data.data", "nothing"))

DriveToolsInOrder ==
  <<ListMyDriveFiles, ListSharedFiles, ListOfficialDocuments, GetDriveFileTypeCounts>>
=============================================================================
