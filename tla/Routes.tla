--------------------------------- MODULE Routes ---------------------------------
(***************************************************************************)
(* The HTTP interface: every route of the routers in the order in which     *)
(* main.py registers them, with its verb, its path (a parameter is "*"),    *)
(* its handler, what it needs of the caller and the statuses with which it  *)
(* refuses.  What a handler does is the matter of the other modules.        *)
(*                                                                          *)
(* A caller needs a permission, or to be a user, an employee or a platform  *)
(* user; an open route has a key or a token of its own, or none.  Left out  *)
(* of the statuses are those that every route may answer: 401 and 403 of    *)
(* what it needs, 422 of its schema or of a ValueError (main.py), 500.      *)
(***************************************************************************)
EXTENDS Integers, SequencesExt

Route(verb, path, handler, needs, refuses) ==
    [verb |-> verb, path |-> path, handler |-> handler, needs |-> needs, refuses |-> refuses]

GET(path, handler, needs, refuses) == Route("GET", path, handler, needs, refuses)
POST(path, handler, needs, refuses) == Route("POST", path, handler, needs, refuses)
PUT(path, handler, needs, refuses) == Route("PUT", path, handler, needs, refuses)
PATCH(path, handler, needs, refuses) == Route("PATCH", path, handler, needs, refuses)
DELETE(path, handler, needs, refuses) == Route("DELETE", path, handler, needs, refuses)

------------------------------------------------------------------------------
(* The routers.                                                             *)

HealthRoutes == <<
    GET(<<"health">>, "health", "open", {}),
    GET(<<"health", "ready">>, "readiness", "open", {})>>

TokenRoutes == <<
    POST(<<"auth", "login">>, "login", "open", {401, 422, 429}),
    GET(<<"auth", "me">>, "me", "user", {}),
    POST(<<"auth", "refresh">>, "refresh", "open", {401, 429})>>

ImpersonationRoutes == <<
    POST(<<"auth", "impersonate">>, "impersonate", "open", {401, 429})>>

SsoRoutes == <<
    POST(<<"auth", "sso", "exchange">>, "sso_exchange", "open", {400, 401, 429}),
    POST(<<"auth", "set-password">>, "set_password", "open", {401, 404, 429})>>

DashboardRoutes == <<
    GET(<<"dashboard", "metrics">>, "get_metrics", "user", {})>>

MailAccountRoutes == <<
    GET(<<"email-client", "accounts">>, "list_accounts", "settings.view", {}),
    POST(<<"email-client", "accounts">>, "create_account", "settings.edit", {}),
    PATCH(<<"email-client", "accounts", "*">>, "update_account", "settings.edit", {404}),
    DELETE(<<"email-client", "accounts", "*">>, "delete_account", "settings.edit", {404}),
    POST(<<"email-client", "accounts", "*", "test-connection">>, "test_account_connection", "settings.view", {404}),
    POST(<<"email-client", "oauth", "start">>, "oauth_start", "settings.edit", {400})>>

MailMessageRoutes == <<
    GET(<<"email-client", "oauth", "callback">>, "oauth_callback", "open", {}),
    GET(<<"email-client", "messages">>, "list_messages", "settings.view", {}),
    GET(<<"email-client", "messages", "*">>, "get_message", "settings.view", {404}),
    PATCH(<<"email-client", "messages", "*", "read">>, "mark_message_read", "settings.view", {404})>>

MailRuleRoutes == <<
    GET(<<"email-client", "alert-rules">>, "list_alert_rules", "settings.view", {}),
    POST(<<"email-client", "alert-rules">>, "create_alert_rule", "settings.edit", {}),
    PATCH(<<"email-client", "alert-rules", "*">>, "update_alert_rule", "settings.edit", {404}),
    DELETE(<<"email-client", "alert-rules", "*">>, "delete_alert_rule", "settings.edit", {404}),
    POST(<<"email-client", "sync">>, "sync_all", "settings.edit", {}),
    POST(<<"email-client", "sync", "*">>, "sync_one", "settings.edit", {404})>>

EmployeeRoutes == <<
    GET(<<"employees">>, "list_employees", "employee.view", {}),
    GET(<<"employees", "search">>, "search_employees", "employee.view", {}),
    GET(<<"employees", "*">>, "get_employee", "employee.view", {404}),
    POST(<<"employees">>, "create_employee", "employee.manage", {}),
    PATCH(<<"employees", "*">>, "update_employee", "employee.manage", {404}),
    POST(<<"employees", "*", "avatar">>, "upload_avatar", "employee.manage", {400, 404}),
    POST(<<"employees", "import">>, "import_employees", "employee.manage", {400})>>

EmployeeIdRoutes == <<
    DELETE(<<"employees", "*">>, "delete_employee", "employee.manage", {404}),
    POST(<<"employees", "*", "external-ids">>, "create_external_id", "employee.manage", {404}),
    DELETE(<<"employees", "*", "external-ids", "*">>, "delete_external_id", "employee.manage", {404})>>

ReportRoutes == <<
    GET(<<"reports", "work-orders">>, "work_orders_report", "report.view", {})>>

UserRoutes == <<
    PATCH(<<"users", "me">>, "update_profile", "user", {404, 422, 429}),
    GET(<<"users">>, "list_users", "user.view", {}),
    GET(<<"users", "search">>, "search_users", "user.view", {}),
    POST(<<"users">>, "create_user", "user.create", {409}),
    PATCH(<<"users", "*">>, "update_user", "user.edit", {404})>>

InvitationRoutes == <<
    POST(<<"users", "invite">>, "invite_user", "user.create", {409, 429}),
    POST(<<"users", "*", "avatar">>, "upload_avatar", "user.edit", {400, 404}),
    DELETE(<<"users", "*">>, "delete_user", "user.delete", {400, 404})>>

RegistryRoutes == <<
    GET(<<"registries", "options", "*">>, "registry_options", "registry.view", {}),
    GET(<<"registries", "export">>, "export_registries", "registry.view", {}),
    GET(<<"registries">>, "list_registries", "registry.view", {}),
    POST(<<"registries">>, "create_registry", "registry.create", {400}),
    PATCH(<<"registries", "*">>, "update_registry", "registry.edit", {400, 404}),
    DELETE(<<"registries", "*">>, "delete_registry", "registry.delete", {400, 404})>>

ModuleRoutes == <<
    GET(<<"modules", "*">>, "list_records", "module.view", {404}),
    POST(<<"modules", "*">>, "create_record", "module.create", {404}),
    PATCH(<<"modules", "*", "*">>, "update_record", "module.edit", {404}),
    DELETE(<<"modules", "*", "*">>, "delete_record", "module.delete", {404})>>

NotificationRoutes == <<
    GET(<<"notifications">>, "list_notifications", "user", {}),
    PATCH(<<"notifications", "*", "read">>, "mark_as_read", "user", {404}),
    POST(<<"notifications", "read-all">>, "mark_all_as_read", "user", {})>>

PreferenceRoutes == <<
    GET(<<"notifications", "preferences">>, "list_preferences", "user", {}),
    PUT(<<"notifications", "preferences", "*">>, "update_preference", "user", {400})>>

MessengerRoutes == <<
    GET(<<"settings", "evolution">>, "get_evolution", "settings.view", {}),
    POST(<<"settings", "evolution">>, "save_evolution", "settings.edit", {}),
    GET(<<"settings", "evolution", "status">>, "evolution_status", "settings.view", {}),
    POST(<<"settings", "evolution", "test">>, "evolution_test_send", "settings.edit", {422, 502})>>

SenderRoutes == <<
    GET(<<"settings", "brevo">>, "get_brevo", "settings.view", {}),
    POST(<<"settings", "brevo">>, "save_brevo", "settings.edit", {}),
    POST(<<"settings", "brevo", "test">>, "brevo_test_send", "settings.edit", {422, 502}),
    GET(<<"settings", "esignature">>, "get_esignature", "settings.view", {}),
    POST(<<"settings", "esignature">>, "save_esignature", "settings.edit", {})>>

RecipientRoutes == <<
    GET(<<"settings", "notification-recipients">>, "list_all_recipients", "settings.view", {}),
    PUT(<<"settings", "notification-recipients", "*">>, "update_module_recipients", "settings.edit", {400}),
    GET(<<"settings", "work-order-categories">>, "get_work_order_categories", "settings.view", {}),
    POST(<<"settings", "work-order-categories">>, "add_work_order_category", "settings.edit", {422}),
    DELETE(<<"settings", "work-order-categories", "*">>, "delete_work_order_category", "settings.edit", {})>>

CompanyRoutes == <<
    GET(<<"settings", "timeclock">>, "get_timeclock_settings", "settings.view", {}),
    POST(<<"settings", "timeclock">>, "save_timeclock_settings", "settings.edit", {}),
    GET(<<"settings", "company">>, "get_company", "settings.view", {404}),
    PATCH(<<"settings", "company">>, "update_company", "settings.edit", {404})>>

TimelineRoutes == <<
    GET(<<"timeline", "*", "*", "cursor">>, "get_timeline_cursor", "user", {400, 404}),
    GET(<<"timeline", "*", "*">>, "get_timeline", "user", {400, 404}),
    POST(<<"timeline", "*", "*", "comment">>, "add_comment", "user", {400, 404, 422})>>

ProcedureRoutes == <<
    GET(<<"procedures">>, "list_procedures", "procedure.view", {}),
    POST(<<"procedures">>, "create_procedure", "procedure.create", {}),
    PATCH(<<"procedures", "*">>, "update_procedure", "procedure.edit", {404}),
    DELETE(<<"procedures", "*">>, "delete_procedure", "procedure.delete", {404})>>

\* (As RoleRoutes, with the parameter first.)
RoleRoutesById == <<
    GET(<<"roles">>, "list_roles", "user.view", {}),
    GET(<<"roles", "*">>, "get_role", "user.view", {404}),
    GET(<<"roles", "permissions">>, "list_permissions", "user.view", {}),
    POST(<<"roles">>, "create_role", "user.edit", {}),
    PATCH(<<"roles", "*">>, "update_role", "user.edit", {404}),
    DELETE(<<"roles", "*">>, "delete_role", "user.edit", {404, 409})>>

RoleRoutes == <<
    GET(<<"roles", "permissions">>, "list_permissions", "user.view", {}),
    GET(<<"roles">>, "list_roles", "user.view", {}),
    GET(<<"roles", "*">>, "get_role", "user.view", {404}),
    POST(<<"roles">>, "create_role", "user.edit", {}),
    PATCH(<<"roles", "*">>, "update_role", "user.edit", {404}),
    DELETE(<<"roles", "*">>, "delete_role", "user.edit", {404, 409})>>

AttachmentRoutes == <<
    POST(<<"attachments">>, "upload_attachment", "user", {422}),
    GET(<<"attachments">>, "list_attachments", "user", {}),
    GET(<<"attachments", "*", "download">>, "download_attachment", "user", {404}),
    DELETE(<<"attachments", "*">>, "delete_attachment", "user", {404})>>

PlatformTokenRoutes == <<
    POST(<<"platform", "auth", "login">>, "platform_login", "open", {401, 429}),
    POST(<<"platform", "auth", "refresh">>, "platform_refresh", "open", {401, 429})>>

TenantListRoutes == <<
    GET(<<"platform", "metrics">>, "platform_metrics", "platform", {}),
    GET(<<"platform", "tenants">>, "list_tenants", "platform", {})>>

TenantRoutes == <<
    POST(<<"platform", "tenants">>, "create_tenant", "platform", {400}),
    GET(<<"platform", "tenants", "*">>, "get_tenant", "platform", {404}),
    PATCH(<<"platform", "tenants", "*">>, "update_tenant", "platform", {404, 422}),
    DELETE(<<"platform", "tenants", "*">>, "delete_tenant", "platform", {404}),
    POST(<<"platform", "tenants", "*", "impersonate">>, "impersonate_tenant", "platform", {404})>>

PlanRoutes == <<
    GET(<<"platform", "plans">>, "list_plans", "platform", {}),
    POST(<<"platform", "plans">>, "create_plan", "platform", {}),
    PATCH(<<"platform", "plans", "*">>, "update_plan", "platform", {404, 422}),
    DELETE(<<"platform", "plans", "*">>, "delete_plan", "platform", {404, 409})>>

SubscriptionRoutes == <<
    GET(<<"platform", "subscriptions", "*">>, "get_subscription", "platform", {404}),
    PATCH(<<"platform", "subscriptions", "*">>, "update_subscription", "platform", {404, 422}),
    POST(<<"platform", "billing", "process-expirations">>, "process_expirations", "platform", {}),
    POST(<<"platform", "billing", "process-suspensions">>, "process_suspensions", "platform", {}),
    POST(<<"platform", "billing", "reconcile">>, "reconcile", "platform", {}),
    POST(<<"platform", "subscriptions", "*", "reactivate">>, "reactivate_subscription", "platform", {404})>>

PlatformUserRoutes == <<
    GET(<<"platform", "users">>, "list_platform_users", "platform", {}),
    POST(<<"platform", "users">>, "create_platform_user", "platform", {}),
    PATCH(<<"platform", "users", "*">>, "update_platform_user", "platform", {404, 422}),
    DELETE(<<"platform", "users", "*">>, "delete_platform_user", "platform", {404})>>

SupportDeskRoutes == <<
    GET(<<"platform", "support-requests">>, "list_support_requests", "platform", {}),
    PATCH(<<"platform", "support-requests", "*">>, "update_support_request", "platform", {404}),
    GET(<<"platform", "support-requests", "*", "timeline">>, "get_support_request_timeline", "platform", {404})>>

UsageRoutes == <<
    GET(<<"platform", "usage">>, "list_usage", "platform", {}),
    POST(<<"platform", "usage", "snapshot">>, "create_usage_snapshot", "platform", {}),
    GET(<<"platform", "settings", "email">>, "get_platform_email", "platform", {}),
    POST(<<"platform", "settings", "email">>, "save_platform_email", "platform", {}),
    GET(<<"platform", "audit">>, "list_audit_logs", "platform", {})>>

ShiftReportRoutes == <<
    GET(<<"shift-reports">>, "list_shift_reports", "shift_report.view", {}),
    GET(<<"shift-reports", "*">>, "get_shift_report", "shift_report.view", {404}),
    POST(<<"shift-reports">>, "create_shift_report", "shift_report.create", {})>>

ShiftReportEditRoutes == <<
    PATCH(<<"shift-reports", "*">>, "update_shift_report", "shift_report.edit", {404}),
    DELETE(<<"shift-reports", "*">>, "delete_shift_report", "shift_report.delete", {404})>>

MeetingRoutes == <<
    GET(<<"meetings">>, "list_meetings", "meeting.view", {}),
    GET(<<"meetings", "*">>, "get_meeting", "meeting.view", {404}),
    GET(<<"meetings", "*", "pdf">>, "meeting_pdf", "meeting.view", {404}),
    POST(<<"meetings">>, "create_meeting", "meeting.create", {})>>

MeetingEditRoutes == <<
    PATCH(<<"meetings", "*">>, "update_meeting", "meeting.edit", {404}),
    DELETE(<<"meetings", "*">>, "delete_meeting", "meeting.delete", {404}),
    POST(<<"meetings", "*", "clone">>, "clone_meeting", "meeting.create", {404})>>

SubjectRoutes == <<
    POST(<<"meetings", "*", "subjects">>, "add_subject", "meeting.edit", {404}),
    PATCH(<<"meetings", "*", "subjects", "*">>, "update_subject", "meeting.edit", {404}),
    DELETE(<<"meetings", "*", "subjects", "*">>, "delete_subject", "meeting.edit", {404})>>

CheckSuiteRoutes == <<
    GET(<<"check-suites">>, "list_check_suites", "check_suite.view", {}),
    GET(<<"check-suites", "*">>, "get_check_suite", "check_suite.view", {404}),
    POST(<<"check-suites">>, "create_check_suite", "check_suite.create", {}),
    PATCH(<<"check-suites", "*">>, "update_check_suite", "check_suite.edit", {404, 422}),
    DELETE(<<"check-suites", "*">>, "delete_check_suite", "check_suite.delete", {404})>>

InspectionSuiteRoutes == <<
    GET(<<"inspection-suites">>, "list_inspection_suites", "inspection_suite.view", {}),
    GET(<<"inspection-suites", "*">>, "get_inspection_suite", "inspection_suite.view", {404}),
    POST(<<"inspection-suites">>, "create_inspection_suite", "inspection_suite.create", {}),
    PATCH(<<"inspection-suites", "*">>, "update_inspection_suite", "inspection_suite.edit", {404, 422}),
    DELETE(<<"inspection-suites", "*">>, "delete_inspection_suite", "inspection_suite.delete", {404})>>

InspectionRoutes == <<
    GET(<<"apartment-inspections">>, "list_inspections", "apartment_inspection.view", {}),
    GET(<<"apartment-inspections", "*">>, "get_inspection", "apartment_inspection.view", {404}),
    POST(<<"apartment-inspections">>, "create_inspection", "apartment_inspection.create", {}),
    PATCH(<<"apartment-inspections", "*">>, "update_inspection", "apartment_inspection.edit", {404}),
    DELETE(<<"apartment-inspections", "*">>, "delete_inspection", "apartment_inspection.delete", {404})>>

AuditReportRoutes == <<
    GET(<<"audit-reports">>, "list_audit_reports", "audit_report.view", {}),
    GET(<<"audit-reports", "*">>, "get_audit_report", "audit_report.view", {404}),
    POST(<<"audit-reports">>, "create_audit_report", "audit_report.create", {}),
    PATCH(<<"audit-reports", "*">>, "update_audit_report", "audit_report.edit", {404}),
    DELETE(<<"audit-reports", "*">>, "delete_audit_report", "audit_report.delete", {404})>>

WorkDiaryRoutes == <<
    GET(<<"work-diaries">>, "list_work_diaries", "work_diary.view", {}),
    GET(<<"work-diaries", "*">>, "get_work_diary", "work_diary.view", {404}),
    POST(<<"work-diaries">>, "create_work_diary", "work_diary.create", {}),
    PATCH(<<"work-diaries", "*">>, "update_work_diary", "work_diary.edit", {404}),
    DELETE(<<"work-diaries", "*">>, "delete_work_diary", "work_diary.delete", {404})>>

MaintenanceRoutes == <<
    GET(<<"maintenance">>, "list_maintenance", "maintenance.view", {}),
    GET(<<"maintenance", "export">>, "export_maintenance", "maintenance.view", {}),
    GET(<<"maintenance", "*">>, "get_maintenance", "maintenance.view", {404}),
    POST(<<"maintenance">>, "create_maintenance", "maintenance.create", {}),
    PATCH(<<"maintenance", "*">>, "update_maintenance", "maintenance.edit", {404, 422}),
    DELETE(<<"maintenance", "*">>, "delete_maintenance", "maintenance.delete", {404})>>

BulletinRoutes == <<
    GET(<<"bulletin">>, "list_bulletin", "bulletin.view", {}),
    POST(<<"bulletin">>, "create_bulletin", "bulletin.create", {}),
    PATCH(<<"bulletin", "*">>, "update_bulletin", "bulletin.edit", {404, 422}),
    DELETE(<<"bulletin", "*">>, "delete_bulletin", "bulletin.delete", {404})>>

WorkOrderListRoutes == <<
    GET(<<"work-orders">>, "list_work_orders", "work_order.view", {}),
    GET(<<"work-orders", "cursor">>, "list_work_orders_cursor", "work_order.view", {}),
    GET(<<"work-orders", "categories">>, "work_order_categories", "work_order.view", {}),
    GET(<<"work-orders", "summary">>, "work_order_summary", "work_order.view", {}),
    GET(<<"work-orders", "export">>, "export_work_orders", "work_order.view", {})>>

WorkOrderRoutes == <<
    GET(<<"work-orders", "*">>, "get_work_order", "work_order.view", {404}),
    POST(<<"work-orders">>, "create_work_order", "work_order.create", {}),
    PATCH(<<"work-orders", "*">>, "update_work_order", "work_order.edit", {404, 422}),
    POST(<<"work-orders", "*", "transition", "*">>, "transition_work_order", "work_order.edit", {404, 422})>>

WorkOrderCopyRoutes == <<
    DELETE(<<"work-orders", "*">>, "delete_work_order", "work_order.delete", {404}),
    POST(<<"work-orders", "*", "clone">>, "clone_work_order", "work_order.create", {404}),
    GET(<<"work-orders", "*", "pdf">>, "work_order_pdf", "work_order.view", {404})>>

PreventivePlanRoutes == <<
    GET(<<"preventive-plans">>, "list_preventive_plans", "preventive_plan.view", {}),
    GET(<<"preventive-plans", "*">>, "get_preventive_plan", "preventive_plan.view", {404}),
    POST(<<"preventive-plans">>, "create_preventive_plan", "preventive_plan.create", {422}),
    PATCH(<<"preventive-plans", "*">>, "update_preventive_plan", "preventive_plan.edit", {404, 422}),
    DELETE(<<"preventive-plans", "*">>, "delete_preventive_plan", "preventive_plan.delete", {404}),
    POST(<<"preventive-plans", "generate">>, "generate_orders", "preventive_plan.edit", {})>>

TemplateRoutes == <<
    GET(<<"checklists", "templates">>, "list_checklist_templates", "checklist.view", {}),
    GET(<<"checklists", "templates", "*">>, "get_checklist_template", "checklist.view", {404}),
    POST(<<"checklists", "templates">>, "create_checklist_template", "checklist.create", {422}),
    PATCH(<<"checklists", "templates", "*">>, "update_checklist_template", "checklist.edit", {404, 422}),
    DELETE(<<"checklists", "templates", "*">>, "delete_checklist_template", "checklist.delete", {404})>>

ExecutionRoutes == <<
    GET(<<"checklists", "executions">>, "list_checklist_executions", "checklist.view", {}),
    GET(<<"checklists", "executions", "export">>, "export_checklist_executions", "checklist.view", {}),
    GET(<<"checklists", "executions", "*">>, "get_checklist_execution", "checklist.view", {404}),
    POST(<<"checklists", "executions", "*", "toggle">>, "toggle_checklist_item", "checklist.edit", {404}),
    POST(<<"checklists", "executions", "*", "complete">>, "complete_checklist_execution", "checklist.edit", {404}),
    POST(<<"checklists", "generate">>, "generate_executions", "checklist.edit", {})>>

StockRoutes == <<
    GET(<<"stock", "items">>, "list_stock_items", "stock.view", {}),
    GET(<<"stock", "items", "*">>, "get_stock_item", "stock.view", {404}),
    POST(<<"stock", "items">>, "create_stock_item", "stock.create", {}),
    PATCH(<<"stock", "items", "*">>, "update_stock_item", "stock.edit", {404, 422}),
    DELETE(<<"stock", "items", "*">>, "delete_stock_item", "stock.delete", {404}),
    POST(<<"stock", "movements">>, "create_stock_movement", "stock.edit", {422}),
    GET(<<"stock", "movements">>, "list_stock_movements", "stock.view", {})>>

HandoffRoutes == <<
    GET(<<"handoffs">>, "list_shift_handoffs", "handoff.view", {}),
    GET(<<"handoffs", "pending">>, "get_pending_handoffs", "handoff.view", {}),
    GET(<<"handoffs", "*">>, "get_shift_handoff", "handoff.view", {404}),
    POST(<<"handoffs">>, "create_shift_handoff", "handoff.create", {}),
    PATCH(<<"handoffs", "*">>, "update_shift_handoff", "handoff.edit", {404, 422}),
    POST(<<"handoffs", "*", "read">>, "mark_handoff_read", "handoff.view", {404}),
    POST(<<"handoffs", "*", "resolve">>, "resolve_shift_handoff", "handoff.edit", {404}),
    DELETE(<<"handoffs", "*">>, "delete_shift_handoff", "handoff.delete", {404})>>

SupplierRoutes == <<
    GET(<<"contracts", "suppliers">>, "list_suppliers", "contract.view", {}),
    GET(<<"contracts", "suppliers", "options">>, "list_supplier_options", "contract.view", {}),
    GET(<<"contracts", "suppliers", "*">>, "get_supplier", "contract.view", {404}),
    POST(<<"contracts", "suppliers">>, "create_supplier", "contract.create", {})>>

ContactRoutes == <<
    PATCH(<<"contracts", "suppliers", "*">>, "update_supplier", "contract.edit", {404}),
    DELETE(<<"contracts", "suppliers", "*">>, "delete_supplier", "contract.delete", {404}),
    POST(<<"contracts", "suppliers", "*", "contacts">>, "create_contact", "contract.edit", {404}),
    PATCH(<<"contracts", "contacts", "*">>, "update_contact", "contract.edit", {404}),
    DELETE(<<"contracts", "contacts", "*">>, "delete_contact", "contract.edit", {404})>>

CostCenterRoutes == <<
    GET(<<"contracts", "cost-centers">>, "list_cost_centers", "contract.view", {}),
    GET(<<"contracts", "cost-centers", "options">>, "list_cost_center_options", "contract.view", {}),
    GET(<<"contracts", "cost-centers", "*">>, "get_cost_center", "contract.view", {404}),
    POST(<<"contracts", "cost-centers">>, "create_cost_center", "contract.create", {500}),
    PATCH(<<"contracts", "cost-centers", "*">>, "update_cost_center", "contract.edit", {404}),
    DELETE(<<"contracts", "cost-centers", "*">>, "delete_cost_center", "contract.delete", {404})>>

ContractRoutes == <<
    GET(<<"contracts">>, "list_contracts", "contract.view", {}),
    GET(<<"contracts", "*">>, "get_contract", "contract.view", {404}),
    POST(<<"contracts">>, "create_contract", "contract.create", {500}),
    PATCH(<<"contracts", "*">>, "update_contract", "contract.edit", {404}),
    PATCH(<<"contracts", "*", "status">>, "update_status", "contract.edit", {404}),
    DELETE(<<"contracts", "*">>, "delete_contract", "contract.delete", {404})>>

ApprovalRoutes == <<
    POST(<<"contracts", "*", "submit">>, "submit_contract", "contract.edit", {404, 422}),
    POST(<<"contracts", "*", "amendments">>, "create_amendment", "contract.edit", {404}),
    POST(<<"contracts", "*", "approve">>, "approve_contract", "contract.approve", {404, 422}),
    GET(<<"contracts", "*", "history">>, "get_contract_history", "contract.view", {404}),
    POST(<<"contracts", "jobs", "expiry-alerts">>, "run_expiry_alerts", "platform.admin", {})>>

CustomerRoutes == <<
    GET(<<"commercial", "customers">>, "list_customers", "commercial.view", {}),
    GET(<<"commercial", "customers", "options">>, "list_customer_options", "commercial.view", {}),
    GET(<<"commercial", "customers", "*">>, "get_customer", "commercial.view", {404}),
    POST(<<"commercial", "customers">>, "create_customer", "commercial.create", {}),
    PATCH(<<"commercial", "customers", "*">>, "update_customer", "commercial.edit", {404}),
    DELETE(<<"commercial", "customers", "*">>, "delete_customer", "commercial.delete", {404})>>

QuoteRoutes == <<
    GET(<<"commercial", "quotes">>, "list_quotes", "commercial.view", {}),
    GET(<<"commercial", "quotes", "*">>, "get_quote", "commercial.view", {404}),
    POST(<<"commercial", "quotes">>, "create_quote", "commercial.create", {404}),
    PATCH(<<"commercial", "quotes", "*">>, "update_quote", "commercial.edit", {404, 422}),
    DELETE(<<"commercial", "quotes", "*">>, "delete_quote", "commercial.delete", {404, 422})>>

QuoteSendRoutes == <<
    POST(<<"commercial", "quotes", "*", "send">>, "send_quote", "commercial.edit", {404, 422}),
    POST(<<"commercial", "quotes", "*", "signature", "icp">>, "start_icp_signature", "commercial.edit", {422}),
    POST(<<"commercial", "quotes", "*", "cancel">>, "cancel_quote", "commercial.edit", {404, 422}),
    GET(<<"commercial", "quotes", "*", "pdf">>, "quote_pdf", "commercial.view", {404})>>

SaleRoutes == <<
    GET(<<"commercial", "sales">>, "list_sales", "commercial.view", {}),
    GET(<<"commercial", "sales", "*">>, "get_sale", "commercial.view", {404}),
    PATCH(<<"commercial", "sales", "*">>, "update_sale", "commercial.edit", {404}),
    GET(<<"commercial", "sales", "*", "pdf">>, "sale_pdf", "commercial.view", {404})>>

InvoiceRoutes == <<
    POST(<<"commercial", "sales", "*", "invoices">>, "create_invoice", "commercial.edit", {404, 422}),
    PATCH(<<"commercial", "invoices", "*">>, "update_invoice", "commercial.edit", {404}),
    POST(<<"commercial", "invoices", "*", "payments">>, "register_payment", "commercial.edit", {404, 422}),
    GET(<<"commercial", "funnel">>, "get_funnel", "commercial.view", {})>>

PublicQuoteRoutes == <<
    GET(<<"public", "quotes", "*">>, "get_public_quote", "open", {401, 404, 429}),
    GET(<<"public", "quotes", "*", "pdf">>, "get_public_quote_pdf", "open", {401, 404, 429}),
    POST(<<"public", "quotes", "*", "accept">>, "accept_public_quote", "open", {404, 422, 429}),
    POST(<<"public", "quotes", "*", "reject">>, "reject_public_quote", "open", {404, 422, 429}),
    POST(<<"public", "quotes", "*", "signature", "otp">>, "request_signature_otp", "open", {401, 422, 429}),
    POST(<<"public", "quotes", "*", "signature", "otp", "confirm">>, "confirm_signature_otp", "open", {401, 422, 429})>>

SignatureWebhookRoutes == <<
    POST(<<"public", "quotes", "webhooks", "clicksign", "*">>, "clicksign_webhook", "open", {401, 429})>>

ShiftRoutes == <<
    GET(<<"timeclock", "shifts">>, "list_shifts", "shift.view", {}),
    POST(<<"timeclock", "shifts">>, "create_shift", "shift.manage", {}),
    PATCH(<<"timeclock", "shifts", "*">>, "update_shift", "shift.manage", {404}),
    DELETE(<<"timeclock", "shifts", "*">>, "delete_shift", "shift.manage", {404, 409}),
    GET(<<"timeclock", "schedule">>, "get_calendar", "schedule.view", {})>>

ScheduleRoutes == <<
    PUT(<<"timeclock", "schedule", "*", "*">>, "set_schedule_day", "schedule.manage", {}),
    POST(<<"timeclock", "schedule", "generate">>, "generate_schedule", "schedule.manage", {}),
    GET(<<"timeclock", "devices">>, "list_devices", "timeclock.manage", {}),
    POST(<<"timeclock", "devices">>, "create_device", "timeclock.manage", {})>>

EnrollmentRoutes == <<
    PATCH(<<"timeclock", "devices", "*">>, "update_device", "timeclock.manage", {404}),
    DELETE(<<"timeclock", "devices", "*">>, "delete_device", "timeclock.manage", {404}),
    GET(<<"timeclock", "enrollments">>, "list_enrollments", "timeclock.manage", {}),
    POST(<<"timeclock", "enrollments">>, "create_enrollment", "timeclock.manage", {}),
    DELETE(<<"timeclock", "enrollments", "*">>, "delete_enrollment", "timeclock.manage", {404})>>

PunchRoutes == <<
    GET(<<"timeclock", "holidays">>, "list_holidays", "holiday.view", {}),
    POST(<<"timeclock", "holidays">>, "create_holiday", "holiday.manage", {409}),
    DELETE(<<"timeclock", "holidays", "*">>, "delete_holiday", "holiday.manage", {404}),
    GET(<<"timeclock", "punches">>, "list_punches", "timeclock.view", {}),
    POST(<<"timeclock", "punches">>, "create_manual_punch", "timeclock.manage", {})>>

PayslipRoutes == <<
    POST(<<"timeclock", "employees", "*", "pin", "reset">>, "reset_employee_pin", "timeclock.manage", {404}),
    POST(<<"timeclock", "employees", "*", "payslips">>, "upload_employee_payslip", "timeclock.manage", {422}),
    POST(<<"timeclock", "employees", "payslips", "import">>, "import_employee_payslips", "timeclock.manage", {400}),
    PATCH(<<"timeclock", "punches", "*">>, "update_punch", "timeclock.manage", {404})>>

HourBankRoutes == <<
    GET(<<"timeclock", "hour-bank", "*">>, "get_hour_bank", "hour_bank.view", {}),
    POST(<<"timeclock", "hour-bank", "*", "recalculate">>, "recalculate_hour_bank", "hour_bank.manage", {422}),
    POST(<<"timeclock", "hour-bank", "*", "initial-balance">>, "set_hour_bank_initial_balance", "hour_bank.manage", {}),
    GET(<<"timeclock", "adjustments">>, "list_punch_adjustments", "punch_adjustment.view", {}),
    POST(<<"timeclock", "adjustments", "*", "review">>, "review_punch_adjustment", "punch_adjustment.manage", {404, 409}),
    GET(<<"timeclock", "adjustments", "stats">>, "get_adjustment_stats", "punch_adjustment.view", {})>>

ExcusalRoutes == <<
    GET(<<"timeclock", "excusals">>, "list_punch_excusals", "punch_adjustment.view", {}),
    POST(<<"timeclock", "excusals">>, "create_punch_excusal", "timeclock.manage", {404})>>

MirrorRoutes == <<
    GET(<<"timeclock", "mirror">>, "get_mirror", "timeclock.view", {404}),
    GET(<<"timeclock", "mirror", "by-sector">>, "get_sector_mirror", "timeclock.view", {}),
    GET(<<"timeclock", "mirror", "export">>, "export_mirror", "timeclock.view", {404})>>

VacationRoutes == <<
    GET(<<"timeclock", "vacation-requests">>, "list_vacation_requests", "ponto-ferias", {}),
    POST(<<"timeclock", "vacation-requests", "*", "review">>, "review_vacation_request", "ponto-ferias", {404, 409}),
    GET(<<"timeclock", "vacation-requests", "stats">>, "vacation_request_stats", "ponto-ferias", {}),
    POST(<<"timeclock", "vacation-requests">>, "create_vacation_request_admin", "ponto-ferias", {422})>>

PortalPunchRoutes == <<
    POST(<<"timeclock", "mobile", "login">>, "mobile_login", "open", {401, 423, 429}),
    POST(<<"timeclock", "mobile", "pin">>, "mobile_change_pin", "employee", {404, 422}),
    POST(<<"timeclock", "mobile", "punch">>, "mobile_punch", "employee", {422, 429}),
    GET(<<"timeclock", "mobile", "status">>, "mobile_status", "employee", {})>>

PortalRecordRoutes == <<
    GET(<<"timeclock", "mobile", "schedule">>, "mobile_schedule", "employee", {}),
    GET(<<"timeclock", "mobile", "payslips">>, "mobile_list_payslips", "employee", {}),
    GET(<<"timeclock", "mobile", "payslips", "*", "download">>, "mobile_download_payslip", "employee", {404}),
    GET(<<"timeclock", "mobile", "hour-bank">>, "mobile_hour_bank", "employee", {})>>

PortalAdjustmentRoutes == <<
    POST(<<"timeclock", "mobile", "adjustments">>, "mobile_create_adjustment", "employee", {404, 429}),
    GET(<<"timeclock", "mobile", "adjustments">>, "mobile_list_adjustments", "employee", {})>>

PortalVacationRoutes == <<
    POST(<<"timeclock", "mobile", "vacation-requests">>, "mobile_create_vacation_request", "employee", {422}),
    GET(<<"timeclock", "mobile", "vacation-requests">>, "mobile_list_vacation_requests", "employee", {}),
    DELETE(<<"timeclock", "mobile", "vacation-requests", "*">>, "mobile_cancel_vacation_request", "employee", {404, 409}),
    GET(<<"timeclock", "mobile", "vacation-entitlement">>, "mobile_vacation_entitlement", "employee", {404})>>

PunchWebhookRoutes == <<
    POST(<<"integrations", "control-id", "*", "punches">>, "control_id_webhook", "open", {401, 429})>>

BillingWebhookRoutes == <<
    POST(<<"integrations", "asaas", "webhook">>, "asaas_webhook", "open", {401, 429})>>

ErpRoutes == <<
    POST(<<"integrations", "erpsolid", "provision-tenant">>, "provision_tenant", "open", {401, 409, 429, 503}),
    GET(<<"integrations", "erpsolid", "contracts">>, "list_contracts", "open", {401}),
    GET(<<"integrations", "erpsolid", "employee-payslips">>, "list_employee_payslips", "open", {401}),
    POST(<<"integrations", "erpsolid", "suppliers">>, "push_suppliers", "open", {401}),
    POST(<<"integrations", "erpsolid", "cost-centers">>, "push_cost_centers", "open", {401}),
    POST(<<"integrations", "erpsolid", "employees">>, "push_employees", "open", {401})>>

SupportRoutes == <<
    POST(<<"support", "request">>, "create_support_request", "user", {}),
    GET(<<"support", "requests">>, "list_my_support_requests", "user", {})>>

------------------------------------------------------------------------------
(* Which route serves a request, and who may use it.                        *)

\* include_router, in the order of main.py.
Routes == FlattenSeq(<<
    HealthRoutes, TokenRoutes, ImpersonationRoutes, SsoRoutes, DashboardRoutes,
    MailAccountRoutes, MailMessageRoutes, MailRuleRoutes, EmployeeRoutes,
    EmployeeIdRoutes, ReportRoutes, UserRoutes, InvitationRoutes, RegistryRoutes,
    ModuleRoutes, NotificationRoutes, PreferenceRoutes, MessengerRoutes,
    SenderRoutes, RecipientRoutes, CompanyRoutes, TimelineRoutes, ProcedureRoutes
   , RoleRoutes, AttachmentRoutes, PlatformTokenRoutes, TenantListRoutes,
    TenantRoutes, PlanRoutes, SubscriptionRoutes, PlatformUserRoutes,
    SupportDeskRoutes, UsageRoutes, ShiftReportRoutes, ShiftReportEditRoutes,
    MeetingRoutes, MeetingEditRoutes, SubjectRoutes, CheckSuiteRoutes,
    InspectionSuiteRoutes, InspectionRoutes, AuditReportRoutes, WorkDiaryRoutes,
    MaintenanceRoutes, BulletinRoutes, WorkOrderListRoutes, WorkOrderRoutes,
    WorkOrderCopyRoutes, PreventivePlanRoutes, TemplateRoutes, ExecutionRoutes,
    StockRoutes, HandoffRoutes, SupplierRoutes, ContactRoutes, CostCenterRoutes,
    ContractRoutes, ApprovalRoutes, CustomerRoutes, QuoteRoutes, QuoteSendRoutes,
    SaleRoutes, InvoiceRoutes, PublicQuoteRoutes, SignatureWebhookRoutes,
    ShiftRoutes, ScheduleRoutes, EnrollmentRoutes, PunchRoutes, PayslipRoutes,
    HourBankRoutes, ExcusalRoutes, MirrorRoutes, VacationRoutes, PortalPunchRoutes
   , PortalRecordRoutes, PortalAdjustmentRoutes, PortalVacationRoutes,
    PunchWebhookRoutes, BillingWebhookRoutes, ErpRoutes, SupportRoutes>>)

\* A parameter takes any segment.
Matches(route, verb, path) ==
    /\ route.verb = verb /\ Len(route.path) = Len(path)
    /\ \A i \in DOMAIN path : route.path[i] \in {"*", path[i]}

IsServed(verb, path) == \E i \in DOMAIN Routes : Matches(Routes[i], verb, path)

\* The router takes the first route that matches.
RouteOf(verb, path) == SelectInSeq(Routes, LAMBDA r : Matches(r, verb, path))

\* What may be granted to a role: the codes that the migrations insert and no
\* later one deletes.
Catalog ==
    {"*", "user.view", "user.create", "user.edit", "user.delete",
     "registry.view", "registry.create", "registry.edit", "registry.delete",
     "module.view", "module.create", "module.edit", "module.delete",
     "procedure.view", "procedure.create", "procedure.edit", "procedure.delete",
     "settings.view", "settings.edit",
     "meeting.view", "meeting.create", "meeting.edit", "meeting.delete",
     "shift_report.view", "shift_report.create", "shift_report.edit", "shift_report.delete",
     "work_order.view", "work_order.create", "work_order.edit", "work_order.delete",
     "preventive_plan.view", "preventive_plan.create", "preventive_plan.edit", "preventive_plan.delete",
     "checklist.view", "checklist.create", "checklist.edit", "checklist.delete",
     "stock.view", "stock.create", "stock.edit", "stock.delete",
     "handoff.view", "handoff.create", "handoff.edit", "handoff.delete",
     "timeclock.view", "timeclock.manage", "shift.view", "shift.manage",
     "schedule.view", "schedule.manage", "employee.view", "employee.manage",
     "hour_bank.view", "hour_bank.manage", "punch_adjustment.view", "punch_adjustment.manage",
     "report.view", "holiday.view", "holiday.manage",
     "contract.view", "contract.create", "contract.edit", "contract.delete", "contract.approve",
     "commercial.view", "commercial.create", "commercial.edit", "commercial.delete"}

\* Needed by a route that is not open to everyone or to every user.
Codes == {Routes[i].needs : i \in DOMAIN Routes} \ {"open", "user", "employee", "platform"}
=============================================================================
