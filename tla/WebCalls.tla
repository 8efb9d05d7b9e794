-------------------------------- MODULE WebCalls --------------------------------
(***************************************************************************)
(* What the three front ends ask of the interface: the server actions and   *)
(* route handlers of the web application, of the employees' portal and of   *)
(* the platform's desk.  A call has its verb and path, the function that    *)
(* makes it, its kind, which says what the function makes of an answer      *)
(* (WebRequests), and the statuses for which it has words of its own.       *)
(***************************************************************************)
EXTENDS Routes

Call(kind, verb, path, name, tells) ==
    [kind |-> kind, verb |-> verb, path |-> path, name |-> name, tells |-> tells]

Enter(verb, path, name, tells) == Call("enter", verb, path, name, tells)
Save(verb, path, name, tells) == Call("save", verb, path, name, tells)
Listed(verb, path, name, tells) == Call("listed", verb, path, name, tells)
Open(verb, path, name, tells) == Call("open", verb, path, name, tells)
Upload(verb, path, name, tells) == Call("upload", verb, path, name, tells)
Read(verb, path, name, tells) == Call("read", verb, path, name, tells)
Ignored(verb, path, name, tells) == Call("ignored", verb, path, name, tells)
Plain(verb, path, name, tells) == Call("plain", verb, path, name, tells)
Strict(verb, path, name, tells) == Call("strict", verb, path, name, tells)
Guarded(verb, path, name, tells) == Call("guarded", verb, path, name, tells)
Public(verb, path, name, tells) == Call("public", verb, path, name, tells)
PortalEnter(verb, path, name, tells) == Call("portalEnter", verb, path, name, tells)
Act(verb, path, name, tells) == Call("act", verb, path, name, tells)
Look(verb, path, name, tells) == Call("look", verb, path, name, tells)
Quiet(verb, path, name, tells) == Call("quiet", verb, path, name, tells)
Proxied(verb, path, name, tells) == Call("proxied", verb, path, name, tells)
Download(verb, path, name, tells) == Call("download", verb, path, name, tells)
Desk(verb, path, name, tells) == Call("desk", verb, path, name, tells)
DeskPage(verb, path, name, tells) == Call("deskPage", verb, path, name, tells)
DeskEnter(verb, path, name, tells) == Call("deskEnter", verb, path, name, tells)

------------------------------------------------------------------------------
(* The calls, file by file.                                                 *)

SignInCalls == <<
    Enter("POST", <<"auth", "login">>, "loginAction", {422}),
    Enter("POST", <<"auth", "sso", "exchange">>, "ssoExchangeAction", {})>>

UserCalls == <<
    Save("POST", <<"support", "request">>, "createSupportRequestAction", {}),
    Listed("GET", <<"support", "requests">>, "fetchMySupportRequestsAction", {}),
    Save("POST", <<"users">>, "createUserAction", {409}),
    Save("PATCH", <<"users", "*">>, "updateUserAction", {}),
    Save("DELETE", <<"users", "*">>, "deleteUserAction", {400}),
    Save("POST", <<"users", "invite">>, "inviteUserAction", {409}),
    Open("POST", <<"auth", "set-password">>, "setPasswordAction", {}),
    Upload("POST", <<"users", "*", "avatar">>, "uploadAvatarAction", {})>>

RegistryCalls == <<
    Save("POST", <<"registries">>, "createRegistryAction", {}),
    Save("PATCH", <<"registries", "*">>, "updateRegistryAction", {}),
    Save("DELETE", <<"registries", "*">>, "deleteRegistryAction", {}),
    Save("POST", <<"modules", "*">>, "createModuleRecordAction", {}),
    Save("PATCH", <<"modules", "*", "*">>, "updateModuleRecordAction", {}),
    Save("DELETE", <<"modules", "*", "*">>, "deleteModuleRecordAction", {}),
    Read("GET", <<"registries", "options", "*">>, "fetchRegistryOptions", {}),
    Save("POST", <<"procedures">>, "createProcedureAction", {}),
    Save("PATCH", <<"procedures", "*">>, "updateProcedureAction", {}),
    Save("DELETE", <<"procedures", "*">>, "deleteProcedureAction", {}),
    Read("GET", <<"timeline", "*", "*">>, "fetchTimeline", {}),
    Save("POST", <<"timeline", "*", "*", "comment">>, "addCommentAction", {})>>

AttachmentCalls == <<
    Read("GET", <<"notifications">>, "fetchNotifications", {}),
    Ignored("PATCH", <<"notifications", "*", "read">>, "markNotificationRead", {}),
    Ignored("POST", <<"notifications", "read-all">>, "markAllNotificationsRead", {}),
    Save("PATCH", <<"users", "me">>, "updateProfileAction", {422}),
    Plain("POST", <<"attachments">>, "uploadAttachmentAction", {}),
    Read("GET", <<"attachments">>, "fetchAttachments", {}),
    Save("DELETE", <<"attachments", "*">>, "deleteAttachmentAction", {})>>

SettingsCalls == <<
    Listed("GET", <<"settings", "evolution">>, "getEvolutionSettings", {}),
    Save("POST", <<"settings", "evolution">>, "saveEvolutionSettings", {}),
    Listed("GET", <<"settings", "timeclock">>, "getTimeclockSettings", {}),
    Save("POST", <<"settings", "timeclock">>, "saveTimeclockSettings", {}),
    Listed("GET", <<"settings", "brevo">>, "getBrevoSettings", {}),
    Save("POST", <<"settings", "brevo">>, "saveBrevoSettings", {}),
    Save("POST", <<"settings", "brevo", "test">>, "testBrevoSettings", {422}),
    Listed("GET", <<"settings", "esignature">>, "getEsignatureSettings", {}),
    Save("POST", <<"settings", "esignature">>, "saveEsignatureSettings", {})>>

CompanyCalls == <<
    Listed("GET", <<"settings", "company">>, "getCompanyInfo", {}),
    Save("PATCH", <<"settings", "company">>, "updateCompanyInfo", {}),
    Read("GET", <<"users", "search">>, "searchUsers", {}),
    Read("GET", <<"employees">>, "fetchEmployees", {}),
    Read("GET", <<"employees", "*">>, "fetchEmployee", {}),
    Read("GET", <<"employees", "search">>, "searchEmployees", {})>>

EmployeeCalls == <<
    Plain("POST", <<"employees">>, "createEmployeeAction", {}),
    Plain("PATCH", <<"employees", "*">>, "updateEmployeeAction", {}),
    Plain("DELETE", <<"employees", "*">>, "deleteEmployeeAction", {}),
    Upload("POST", <<"employees", "*", "avatar">>, "uploadEmployeeAvatarAction", {}),
    Plain("POST", <<"timeclock", "employees", "*", "pin", "reset">>, "resetEmployeePinAction", {}),
    Upload("POST", <<"employees", "import">>, "importEmployeesAction", {}),
    Upload("POST", <<"timeclock", "employees", "payslips", "import">>, "importPayslipsAction", {}),
    Plain("POST", <<"employees", "*", "external-ids">>, "createEmployeeExternalIdAction", {}),
    Plain("DELETE", <<"employees", "*", "external-ids", "*">>, "deleteEmployeeExternalIdAction", {})>>

MeetingCalls == <<
    Save("POST", <<"meetings">>, "createMeetingAction", {}),
    Save("PATCH", <<"meetings", "*">>, "updateMeetingAction", {}),
    Save("DELETE", <<"meetings", "*">>, "deleteMeetingAction", {}),
    Save("POST", <<"meetings", "*", "clone">>, "cloneMeetingAction", {}),
    Save("POST", <<"shift-reports">>, "createShiftReportAction", {}),
    Save("PATCH", <<"shift-reports", "*">>, "updateShiftReportAction", {}),
    Save("DELETE", <<"shift-reports", "*">>, "deleteShiftReportAction", {}),
    Read("GET", <<"shift-reports", "*">>, "fetchShiftReportDetail", {})>>

RoleCalls == <<
    Read("GET", <<"roles">>, "listRolesAction", {}),
    Save("POST", <<"roles">>, "createRoleAction", {}),
    Save("PATCH", <<"roles", "*">>, "updateRoleAction", {}),
    Save("DELETE", <<"roles", "*">>, "deleteRoleAction", {409}),
    Read("GET", <<"roles", "permissions">>, "listPermissionsAction", {}),
    Save("POST", <<"preventive-plans">>, "createPreventivePlanAction", {}),
    Save("PATCH", <<"preventive-plans", "*">>, "updatePreventivePlanAction", {}),
    Save("DELETE", <<"preventive-plans", "*">>, "deletePreventivePlanAction", {}),
    Save("POST", <<"preventive-plans", "generate">>, "generatePreventiveOrdersAction", {})>>

ChecklistCalls == <<
    Read("GET", <<"checklists", "templates", "*">>, "fetchChecklistTemplateAction", {}),
    Save("POST", <<"checklists", "templates">>, "createChecklistTemplateAction", {}),
    Save("PATCH", <<"checklists", "templates", "*">>, "updateChecklistTemplateAction", {}),
    Save("DELETE", <<"checklists", "templates", "*">>, "deleteChecklistTemplateAction", {}),
    Save("POST", <<"checklists", "executions", "*", "toggle">>, "toggleChecklistItemAction", {}),
    Save("POST", <<"checklists", "executions", "*", "complete">>, "completeChecklistAction", {}),
    Save("POST", <<"checklists", "generate">>, "generateChecklistExecutionsAction", {}),
    Save("POST", <<"stock", "items">>, "createStockItemAction", {}),
    Save("PATCH", <<"stock", "items", "*">>, "updateStockItemAction", {}),
    Save("DELETE", <<"stock", "items", "*">>, "deleteStockItemAction", {}),
    Save("POST", <<"stock", "movements">>, "createStockMovementAction", {})>>

HandoffCalls == <<
    Save("POST", <<"handoffs">>, "createHandoffAction", {}),
    Save("PATCH", <<"handoffs", "*">>, "updateHandoffAction", {}),
    Save("POST", <<"handoffs", "*", "read">>, "markHandoffReadAction", {}),
    Save("POST", <<"handoffs", "*", "resolve">>, "resolveHandoffAction", {}),
    Save("DELETE", <<"handoffs", "*">>, "deleteHandoffAction", {}),
    Read("GET", <<"handoffs">>, "fetchHandoffsForReportAction", {})>>

WorkOrderCalls == <<
    Save("POST", <<"work-orders">>, "createWorkOrderAction", {}),
    Save("PATCH", <<"work-orders", "*">>, "updateWorkOrderAction", {}),
    Save("POST", <<"work-orders", "*", "transition", "*">>, "transitionWorkOrderAction", {}),
    Save("DELETE", <<"work-orders", "*">>, "deleteWorkOrderAction", {}),
    Save("POST", <<"work-orders", "*", "clone">>, "cloneWorkOrderAction", {}),
    Read("GET", <<"registries">>, "fetchLocationsAction", {}),
    Read("GET", <<"work-orders", "categories">>, "fetchWorkOrderCategories", {}),
    Read("GET", <<"settings", "work-order-categories">>, "fetchConfiguredCategories", {}),
    Plain("POST", <<"settings", "work-order-categories">>, "addCategoryAction", {}),
    Plain("DELETE", <<"settings", "work-order-categories", "*">>, "deleteCategoryAction", {}),
    Read("GET", <<"timeclock", "schedules", "*">>, "fetchWorkSchedule", {}),
    Plain("PUT", <<"timeclock", "schedules", "*">>, "saveWorkScheduleAction", {})>>

DeviceCalls == <<
    Read("GET", <<"timeclock", "devices">>, "fetchDevices", {}),
    Plain("POST", <<"timeclock", "devices">>, "createDeviceAction", {}),
    Plain("PATCH", <<"timeclock", "devices", "*">>, "updateDeviceAction", {}),
    Plain("DELETE", <<"timeclock", "devices", "*">>, "deleteDeviceAction", {}),
    Read("GET", <<"timeclock", "enrollments">>, "fetchEnrollments", {}),
    Plain("POST", <<"timeclock", "enrollments">>, "createEnrollmentAction", {}),
    Plain("DELETE", <<"timeclock", "enrollments", "*">>, "deleteEnrollmentAction", {}),
    Read("GET", <<"timeclock", "punches">>, "fetchPunches", {}),
    Plain("POST", <<"timeclock", "punches">>, "createManualPunchAction", {}),
    Plain("PATCH", <<"timeclock", "punches", "*">>, "updatePunchAction", {})>>

ShiftCalls == <<
    Read("GET", <<"timeclock", "shifts">>, "fetchShifts", {}),
    Plain("POST", <<"timeclock", "shifts">>, "createShiftAction", {}),
    Plain("PATCH", <<"timeclock", "shifts", "*">>, "updateShiftAction", {}),
    Plain("DELETE", <<"timeclock", "shifts", "*">>, "deleteShiftAction", {}),
    Read("GET", <<"timeclock", "schedule">>, "fetchCalendar", {}),
    Plain("PUT", <<"timeclock", "schedule", "*", "*">>, "setScheduleDayAction", {}),
    Plain("POST", <<"timeclock", "schedule", "generate">>, "generateScheduleAction", {})>>

HourBankCalls == <<
    Read("GET", <<"timeclock", "hour-bank", "*">>, "fetchHourBankSummary", {}),
    Plain("POST", <<"timeclock", "hour-bank", "*", "recalculate">>, "recalculateHourBankAction", {}),
    Plain("POST", <<"timeclock", "hour-bank", "*", "initial-balance">>, "setHourBankInitialBalanceAction", {}),
    Read("GET", <<"timeclock", "adjustments">>, "fetchPunchAdjustments", {}),
    Plain("POST", <<"timeclock", "adjustments", "*", "review">>, "reviewPunchAdjustmentAction", {}),
    Read("GET", <<"timeclock", "adjustments", "stats">>, "fetchAdjustmentStats", {})>>

MirrorCalls == <<
    Read("GET", <<"timeclock", "excusals">>, "fetchPunchExcusals", {}),
    Plain("POST", <<"timeclock", "excusals">>, "createPunchExcusalAction", {}),
    Plain("GET", <<"timeclock", "mirror">>, "fetchTimeclockMirror", {404}),
    Plain("GET", <<"timeclock", "mirror", "by-sector">>, "fetchSectorMirror", {}),
    Read("GET", <<"timeclock", "holidays">>, "fetchHolidays", {})>>

HolidayCalls == <<
    Plain("POST", <<"timeclock", "holidays">>, "createHolidayAction", {}),
    Plain("DELETE", <<"timeclock", "holidays", "*">>, "deleteHolidayAction", {}),
    Read("GET", <<"timeclock", "vacation-requests">>, "fetchVacationRequests", {}),
    Plain("POST", <<"timeclock", "vacation-requests", "*", "review">>, "reviewVacationRequestAction", {}),
    Read("GET", <<"timeclock", "vacation-requests", "stats">>, "fetchVacationRequestStats", {}),
    Plain("POST", <<"timeclock", "vacation-requests">>, "createVacationRequestAdminAction", {})>>

ContractCalls == <<
    Strict("GET", <<"contracts">>, "listContractsAction", {}),
    Strict("GET", <<"contracts", "*">>, "getContractAction", {}),
    Guarded("POST", <<"contracts">>, "createContractAction", {}),
    Guarded("PATCH", <<"contracts", "*">>, "updateContractAction", {}),
    Guarded("PATCH", <<"contracts", "*", "status">>, "updateContractStatusAction", {}),
    Plain("DELETE", <<"contracts", "*">>, "deleteContractAction", {}),
    Guarded("POST", <<"contracts", "*", "amendments">>, "createAmendmentAction", {}),
    Guarded("POST", <<"contracts", "*", "approve">>, "approveContractAction", {}),
    Read("GET", <<"contracts", "suppliers", "options">>, "listSupplierOptionsAction", {}),
    Read("GET", <<"contracts", "cost-centers", "options">>, "listCostCenterOptionsAction", {})>>

QuoteCalls == <<
    Strict("GET", <<"commercial", "quotes">>, "listQuotesAction", {}),
    Strict("GET", <<"commercial", "quotes", "*">>, "getQuoteAction", {}),
    Guarded("POST", <<"commercial", "quotes">>, "createQuoteAction", {}),
    Guarded("PATCH", <<"commercial", "quotes", "*">>, "updateQuoteAction", {}),
    Plain("DELETE", <<"commercial", "quotes", "*">>, "deleteQuoteAction", {}),
    Guarded("POST", <<"commercial", "quotes", "*", "send">>, "sendQuoteAction", {}),
    Guarded("POST", <<"commercial", "quotes", "*", "cancel">>, "cancelQuoteAction", {}),
    Guarded("POST", <<"commercial", "quotes", "*", "signature", "icp">>, "startIcpSignatureAction", {})>>

SaleCalls == <<
    Strict("GET", <<"commercial", "sales">>, "listSalesAction", {}),
    Strict("GET", <<"commercial", "sales", "*">>, "getSaleAction", {}),
    Guarded("PATCH", <<"commercial", "sales", "*">>, "updateSaleAction", {}),
    Guarded("POST", <<"commercial", "sales", "*", "invoices">>, "createInvoiceAction", {}),
    Guarded("PATCH", <<"commercial", "invoices", "*">>, "updateInvoiceAction", {}),
    Guarded("POST", <<"commercial", "invoices", "*", "payments">>, "registerPaymentAction", {})>>

SupplierCalls == <<
    Strict("GET", <<"contracts", "suppliers">>, "listSuppliersAction", {}),
    Strict("GET", <<"contracts", "suppliers", "*">>, "getSupplierAction", {}),
    Guarded("POST", <<"contracts", "suppliers">>, "createSupplierAction", {}),
    Guarded("PATCH", <<"contracts", "suppliers", "*">>, "updateSupplierAction", {}),
    Plain("DELETE", <<"contracts", "suppliers", "*">>, "deleteSupplierAction", {}),
    Guarded("POST", <<"contracts", "suppliers", "*", "contacts">>, "createContactAction", {}),
    Guarded("PATCH", <<"contracts", "contacts", "*">>, "updateContactAction", {}),
    Plain("DELETE", <<"contracts", "contacts", "*">>, "deleteContactAction", {})>>

CustomerCalls == <<
    Strict("GET", <<"commercial", "customers">>, "listCustomersAction", {}),
    Strict("GET", <<"commercial", "customers", "*">>, "getCustomerAction", {}),
    Guarded("POST", <<"commercial", "customers">>, "createCustomerAction", {}),
    Guarded("PATCH", <<"commercial", "customers", "*">>, "updateCustomerAction", {}),
    Plain("DELETE", <<"commercial", "customers", "*">>, "deleteCustomerAction", {}),
    Read("GET", <<"commercial", "customers", "options">>, "listCustomerOptionsAction", {})>>

CostCenterCalls == <<
    Strict("GET", <<"contracts", "cost-centers">>, "listCostCentersAction", {}),
    Read("GET", <<"contracts", "cost-centers", "options">>, "listCostCenterOptionsAction", {}),
    Strict("GET", <<"contracts", "cost-centers", "*">>, "getCostCenterAction", {}),
    Guarded("POST", <<"contracts", "cost-centers">>, "createCostCenterAction", {}),
    Guarded("PATCH", <<"contracts", "cost-centers", "*">>, "updateCostCenterAction", {}),
    Plain("DELETE", <<"contracts", "cost-centers", "*">>, "deleteCostCenterAction", {})>>

PublicQuoteCalls == <<
    Public("GET", <<"public", "quotes", "*">>, "getPublicQuoteAction", {404}),
    Public("POST", <<"public", "quotes", "*", "accept">>, "decidePublicQuoteAction", {}),
    Public("POST", <<"public", "quotes", "*", "reject">>, "decidePublicQuoteAction", {}),
    Public("POST", <<"public", "quotes", "*", "signature", "otp">>, "requestSignatureOtpAction", {}),
    Public("POST", <<"public", "quotes", "*", "signature", "otp", "confirm">>, "confirmSignatureOtpAction", {})>>

PortalPunchCalls == <<
    PortalEnter("POST", <<"timeclock", "mobile", "login">>, "loginAction", {423}),
    Act("POST", <<"timeclock", "mobile", "pin">>, "changePinAction", {}),
    Look("GET", <<"timeclock", "mobile", "status">>, "fetchStatus", {}),
    Act("POST", <<"timeclock", "mobile", "punch">>, "punchAction", {})>>

PortalRecordCalls == <<
    Look("GET", <<"timeclock", "mobile", "schedule">>, "fetchSchedule", {}),
    Look("GET", <<"timeclock", "mobile", "payslips">>, "fetchPayslips", {}),
    Look("GET", <<"timeclock", "mobile", "hour-bank">>, "fetchHourBank", {}),
    Look("GET", <<"timeclock", "mobile", "adjustments">>, "fetchAdjustments", {}),
    Act("POST", <<"timeclock", "mobile", "adjustments">>, "createAdjustmentAction", {})>>

PortalVacationCalls == <<
    Look("GET", <<"timeclock", "mobile", "vacation-requests">>, "fetchVacationRequests", {}),
    Act("POST", <<"timeclock", "mobile", "vacation-requests">>, "createVacationRequestAction", {}),
    Act("DELETE", <<"timeclock", "mobile", "vacation-requests", "*">>, "cancelVacationRequestAction", {}),
    Quiet("GET", <<"timeclock", "mobile", "vacation-entitlement">>, "fetchVacationEntitlement", {})>>

MailSyncProxy == <<
    Proxied("POST", <<"email-client", "sync">>, "POST", {})>>

MailMessagesProxy == <<
    Proxied("GET", <<"email-client", "messages">>, "GET", {})>>

MailMessageProxy == <<
    Proxied("GET", <<"email-client", "messages", "*">>, "GET", {}),
    Proxied("PATCH", <<"email-client", "messages", "*", "read">>, "PATCH", {})>>

MailOauthProxy == <<
    Proxied("POST", <<"email-client", "oauth", "start">>, "POST", {})>>

MailAccountsProxy == <<
    Proxied("GET", <<"email-client", "accounts">>, "GET", {}),
    Proxied("POST", <<"email-client", "accounts">>, "POST", {})>>

MailAccountProxy == <<
    Proxied("PATCH", <<"email-client", "accounts", "*">>, "PATCH", {}),
    Proxied("DELETE", <<"email-client", "accounts", "*">>, "DELETE", {})>>

AlertRulesProxy == <<
    Proxied("GET", <<"email-client", "alert-rules">>, "GET", {}),
    Proxied("POST", <<"email-client", "alert-rules">>, "POST", {})>>

AlertRuleProxy == <<
    Proxied("PATCH", <<"email-client", "alert-rules", "*">>, "PATCH", {}),
    Proxied("DELETE", <<"email-client", "alert-rules", "*">>, "DELETE", {})>>

MirrorProxy == <<
    Proxied("GET", <<"timeclock", "mirror", "export">>, "GET", {})>>

WorkOrdersProxy == <<
    Proxied("GET", <<"work-orders", "export">>, "GET", {})>>

WorkOrderProxy == <<
    Proxied("GET", <<"work-orders", "*", "pdf">>, "GET", {})>>

AttachmentProxy == <<
    Proxied("GET", <<"attachments", "*", "download">>, "GET", {})>>

QuoteProxy == <<
    Proxied("GET", <<"commercial", "quotes", "*", "pdf">>, "GET", {})>>

SaleProxy == <<
    Proxied("GET", <<"commercial", "sales", "*", "pdf">>, "GET", {})>>

PublicPdfProxy == <<
    Public("GET", <<"public", "quotes", "*", "pdf">>, "GET", {})>>

ImpersonateProxy == <<
    Enter("POST", <<"auth", "impersonate">>, "GET", {})>>

PayslipProxy == <<
    Download("GET", <<"timeclock", "mobile", "payslips", "*", "download">>, "GET", {})>>

PageCalls == <<
    Strict("GET", <<"auth", "me">>, "currentTenantUser", {})>>

SubscriptionDesk == <<
    Desk("PATCH", <<"platform", "tenants", "*", "subscription">>, "apply", {})>>

NewTenantDesk == <<
    Desk("POST", <<"platform", "tenants">>, "submit", {})>>

TenantDesk == <<
    Desk("PATCH", <<"platform", "tenants", "*">>, "submit", {})>>

TenantsDesk == <<
    Desk("POST", <<"platform", "tenants", "*", "impersonate">>, "impersonate", {}),
    Desk("DELETE", <<"platform", "tenants", "*">>, "deleteTenant", {})>>

UserDesk == <<
    Desk("PATCH", <<"platform", "users", "*">>, "submit", {}),
    Desk("POST", <<"platform", "users">>, "submit", {})>>

UsersDesk == <<
    Desk("DELETE", <<"platform", "users", "*">>, "deleteUser", {})>>

TicketDesk == <<
    Desk("GET", <<"platform", "support-requests", "*", "timeline">>, "fetchTicketTimeline", {})>>

TicketsDesk == <<
    Desk("PATCH", <<"platform", "support-requests", "*">>, "updateRequest", {})>>

UsageDesk == <<
    Desk("POST", <<"platform", "usage", "snapshot">>, "generateSnapshot", {})>>

EmailDesk == <<
    Desk("POST", <<"platform", "settings", "email">>, "submit", {})>>

LayoutPage == <<
    DeskPage("GET", <<"platform", "auth", "me">>, "GET", {})>>

MetricsPage == <<
    DeskPage("GET", <<"platform", "metrics">>, "GET", {})>>

PlansPage == <<
    DeskPage("GET", <<"platform", "plans">>, "GET", {})>>

EmailPage == <<
    DeskPage("GET", <<"platform", "settings", "email">>, "GET", {})>>

TicketsPage == <<
    DeskPage("GET", <<"platform", "support-requests">>, "GET", {})>>

TenantsPage == <<
    DeskPage("GET", <<"platform", "tenants">>, "GET", {}),
    DeskPage("GET", <<"platform", "plans">>, "GET", {})>>

UsagePage == <<
    DeskPage("GET", <<"platform", "usage">>, "GET", {})>>

UsersPage == <<
    DeskPage("GET", <<"platform", "users">>, "GET", {})>>

AuditPage == <<
    DeskPage("GET", <<"platform", "audit">>, "GET", {})>>

DeskSignIn == <<
    DeskEnter("POST", <<"platform", "auth", "login">>, "loginAction", {})>>

Calls == ToSet(FlattenSeq(<<
    SignInCalls, UserCalls, RegistryCalls, AttachmentCalls, SettingsCalls,
    CompanyCalls, EmployeeCalls, MeetingCalls, RoleCalls, ChecklistCalls,
    HandoffCalls, WorkOrderCalls, DeviceCalls, ShiftCalls, HourBankCalls,
    MirrorCalls, HolidayCalls, ContractCalls, QuoteCalls, SaleCalls,
    SupplierCalls, CustomerCalls, CostCenterCalls, PublicQuoteCalls,
    PortalPunchCalls, PortalRecordCalls, PortalVacationCalls, MailSyncProxy,
    MailMessagesProxy, MailMessageProxy, MailOauthProxy, MailAccountsProxy,
    MailAccountProxy, AlertRulesProxy, AlertRuleProxy, MirrorProxy,
    WorkOrdersProxy, WorkOrderProxy, AttachmentProxy, QuoteProxy, SaleProxy,
    PublicPdfProxy, ImpersonateProxy, PayslipProxy, PageCalls, SubscriptionDesk,
    NewTenantDesk, TenantDesk, TenantsDesk, UserDesk, UsersDesk, TicketDesk,
    TicketsDesk, UsageDesk, EmailDesk, LayoutPage, MetricsPage, PlansPage,
    EmailPage, TicketsPage, TenantsPage, UsagePage, UsersPage, AuditPage,
    DeskSignIn>>))

\* Calls that no route serves: the old work schedule, whose functions nothing
\* uses any more, the name that the desk shows, and its menu of subscriptions.
Unserved ==
    {<<"GET", <<"timeclock", "schedules", "*">>>>, <<"PUT", <<"timeclock", "schedules", "*">>>>,
     <<"GET", <<"platform", "auth", "me">>>>, <<"PATCH", <<"platform", "tenants", "*", "subscription">>>>}

\* What the session tells apart of a call.
Class(call) ==
    [kind |-> call.kind, write |-> call.verb # "GET",
     guarded |-> Routes[RouteOf(call.verb, call.path)].needs # "open"]

Classes == {Class(call) : call \in {c \in Calls : <<c.verb, c.path>> \notin Unserved}}

------------------------------------------------------------------------------
(* Properties.                                                              *)

\* A segment of a call that is not a parameter is not taken for one, every call
\* but those of Unserved has a route, which refuses with the statuses for which
\* the call has words; every route is the first for its own path.
CallsFindTheirRoutes ==
    /\ {c \in Calls : ~IsServed(c.verb, c.path)} = {c \in Calls : <<c.verb, c.path>> \in Unserved}
    /\ \A c \in Calls : <<c.verb, c.path>> \notin Unserved =>
         LET route == Routes[RouteOf(c.verb, c.path)]
         IN  route.path = c.path /\ c.tells \subseteq route.refuses
    /\ \A i \in DOMAIN Routes : RouteOf(Routes[i].verb, Routes[i].path) = i

Ungranted ==
    {module \o verb : module \in {"apartment_inspection", "audit_report", "bulletin", "check_suite",
                                 "inspection_suite", "maintenance", "work_diary"},
                     verb \in {".view", ".create", ".edit", ".delete"}}
      \cup {"ponto-ferias", "platform.admin"}

\* What a route needs can be granted to a role, but for the modules whose codes no
\* migration inserts and which only the wildcard "*" opens.
CodesAreGrantable == Codes \ Catalog = Ungranted

TablesAgree == CallsFindTheirRoutes /\ CodesAreGrantable
=============================================================================
