------------------------------ MODULE Screens ------------------------------
(***************************************************************************)
(* What a role may do, as four tables that are kept apart tell it: the     *)
(* rights of the roles (core/permissions.py), what every route of the API  *)
(* asks for (api/v1), which pages the menu opens (frontend router), and    *)
(* what each page loads and draws (frontend pages with PermissionGuard and *)
(* CostGuard).                                                             *)
(*                                                                         *)
(* A route and its handler go by the handler's name.                       *)
(***************************************************************************)
EXTENDS Naturals, Sequences, FiniteSets

Role == {"OWNER", "ADMIN", "OPS_MANAGER", "OPS_STAFF", "PURCHASER", "FINANCE", "CS", "VIEWER"}

Reads == {"tenant", "member", "shop", "product", "order", "inventory", "purchase", "cost", "ads",
          "compliance", "landed_cost", "finance", "dashboard", "cs", "audit", "system"}

\* What may be done besides reading, and the module that it is done in.
Does == [tenant_write |-> "tenant", member_write |-> "member", shop_grant |-> "shop",
         product_write |-> "product", order_ship |-> "order", order_write |-> "order",
         order_rule |-> "order", inventory_write |-> "inventory",
         purchase_write |-> "purchase", compliance_write |-> "compliance",
         landed_cost_calc |-> "landed_cost", finance_write |-> "finance",
         report_export |-> "finance", cs_write |-> "cs", system_write |-> "system"]

\* ROLE_PERMISSIONS
May(role) ==
    CASE role \in {"OWNER", "ADMIN"} -> [reads |-> Reads, does |-> DOMAIN Does]
      [] role = "OPS_MANAGER" ->
            [reads |-> Reads \ {"tenant", "member", "audit", "system"},
             does |-> DOMAIN Does \ {"tenant_write", "member_write", "purchase_write",
                                     "finance_write", "system_write"}]
      [] role = "OPS_STAFF" ->
            [reads |-> {"product", "order", "inventory", "ads", "compliance", "landed_cost",
                        "dashboard", "cs"},
             does |-> {"product_write", "order_ship", "order_write", "inventory_write",
                       "compliance_write", "landed_cost_calc", "cs_write"}]
      [] role = "PURCHASER" ->
            [reads |-> {"product", "inventory", "purchase", "cost", "compliance", "landed_cost",
                        "dashboard"},
             does |-> {"inventory_write", "purchase_write", "landed_cost_calc"}]
      [] role = "FINANCE" ->
            [reads |-> {"product", "order", "inventory", "purchase", "cost", "ads", "landed_cost",
                        "finance", "dashboard"},
             does |-> {"finance_write", "report_export"}]
      [] role = "CS" -> [reads |-> {"product", "order", "cs"},
                         does |-> {"order_ship", "order_write", "cs_write"}]
      [] role = "VIEWER" ->
            [reads |-> {"shop", "product", "order", "inventory", "ads", "compliance", "finance",
                        "dashboard", "cs"}, does |-> {}]

\* COST_VISIBLE_ROLES, a table of its own.
SeesCost == {"OWNER", "ADMIN", "OPS_MANAGER", "PURCHASER", "FINANCE"}

Shown == {"name", "phone", "country", "state", "city", "line1", "postal"}

\* mask_party: how each part of the buyer and the address is shown.
Sees(role) ==
    LET Show7(full, part) == [f \in Shown |-> IF f \in full THEN "full"
                                              ELSE IF f \in part THEN "masked" ELSE "none"]
    IN  CASE role \in {"OWNER", "ADMIN"} -> Show7(Shown, {})
          [] role \in {"OPS_MANAGER", "OPS_STAFF"} -> Show7(Shown \ {"name"}, {"name"})
          [] role = "FINANCE" -> Show7({"country", "state", "city"}, {})
          [] role = "CS" -> Show7({"name", "country"}, {"phone"})
          [] OTHER -> Show7({}, {})

Rights(role) == May(role).reads \cup May(role).does \cup {"signed_in"}

-----------------------------------------------------------------------------
(* The routes: which right each one asks for, and whether its answer needs  *)
(* the sight of costs ("gated") or is told without them ("hidden").         *)

Route(right, money, acts, calls) ==
    {[call |-> c, right |-> right, money |-> money, acts |-> acts] : c \in calls}

Asks(right, money, calls) == Route(right, money, FALSE, calls)

\* POST, PUT, PATCH and DELETE.
Acts(right, money, calls) == Route(right, money, TRUE, calls)

AdvertisingRoutes ==
    Acts("ads", "none", {"sync_ads"})
    \cup Asks("ads", "hidden", {"ads_overview", "list_campaigns", "campaign_detail",
                                "list_keywords"})
    \cup Asks("ads", "gated", {"list_loss", "sku_profit"})

AuditRoutes ==
    Asks("audit", "none", {"list_audit_logs"})

LoginRoutes ==
    Acts("anyone", "none", {"register", "verify_email", "resend_verification", "login",
                            "refresh_token"})
    \cup Acts("signed_in", "none", {"logout", "confirm_password"})
    \cup Asks("signed_in", "none", {"me"})

ComplianceRoutes ==
    Asks("compliance", "none", {"list_tax_rules", "list_certificates"})
    \cup Acts("compliance_write", "none", {"create_tax_rule", "retire_tax_rule",
                                           "create_certificate", "import_certificates",
                                           "upload_certificate_file"})

RequirementRoutes ==
    Asks("compliance", "none", {"certificate_gaps", "list_cert_requirements",
                                "list_tax_registrations", "compliance_report",
                                "list_compliance_alerts"})
    \cup Acts("compliance_write", "none", {"create_cert_requirement", "retire_cert_requirement",
                                           "create_tax_registration", "retire_tax_registration"})

MessageRoutes ==
    Asks("cs", "none", {"cs_shops", "cs_assignees", "list_messages", "get_message",
                        "list_templates", "preview_template"})
    \cup Acts("cs_write", "none", {"sync_messages", "read_message", "create_template",
                                   "update_template", "delete_template"})

TicketRoutes ==
    Asks("cs", "none", {"list_tickets", "get_ticket"})
    \cup Acts("cs_write", "none", {"create_ticket", "assign_ticket", "note_ticket",
                                   "close_ticket"})

BoardRoutes ==
    Acts("dashboard", "none", {"rebuild_dashboard"})
    \cup Asks("dashboard", "hidden", {"dashboard_overview", "platform_comparison",
                                      "dashboard_trends", "inventory_health", "ads_roi"})
    \cup Asks("dashboard", "gated", {"sku_ranking", "cost_structure"})
    \cup Asks("dashboard", "none", {"fulfillment"})

HsCodeRoutes ==
    Asks("compliance", "none", {"search_hs_codes", "list_spu_hs_bindings"})
    \cup Acts("compliance_write", "none", {"bind_spu_hs_code"})

WarehouseRoutes ==
    Asks("inventory", "none", {"list_warehouses", "list_inventories", "list_transfers"})
    \cup Acts("inventory_write", "none", {"create_warehouse", "update_warehouse",
                                          "delete_warehouse", "adjust_inventory",
                                          "create_transfer", "ship_transfer"})

StockRoutes ==
    Acts("inventory_write", "none", {"receive_transfer", "cancel_transfer", "create_taking",
                                     "record_taking_counts", "post_taking", "cancel_taking",
                                     "patch_inventory_safety"})
    \cup Asks("inventory", "none", {"list_takings"})
    \cup Asks("inventory", "hidden", {"list_turnover"})

FlowRoutes ==
    Acts("inventory_write", "none", {"push_inventory", "upsert_safety"})
    \cup Asks("inventory", "none", {"list_flows", "export_flows", "list_push_logs",
                                    "list_safety", "list_replenishments"})

LandedCostRoutes ==
    Asks("landed_cost", "gated", {"list_fees", "list_toggles"})
    \cup Acts("landed_cost_calc", "gated", {"create_fee", "retire_fee", "calculate", "compare",
                                            "set_toggle", "price"})

ListingRoutes ==
    Asks("product", "none", {"list_category_mappings", "category_catalog", "list_listings",
                             "listing_shops", "get_listing"})
    \cup Acts("product_write", "none", {"create_category_mapping", "update_category_mapping",
                                        "create_listing", "update_listing"})

BatchRoutes ==
    Acts("product_write", "none", {"publish_listings", "preview_listing_prices",
                                   "reprice_listings", "patrol_listing_diffs",
                                   "accept_listing_diff", "dismiss_listing_diff"})
    \cup Asks("product", "none", {"get_listing_batch", "list_listing_diffs"})

TextRoutes ==
    Asks("product", "none", {"list_listing_contents"})
    \cup Acts("product_write", "none", {"save_listing_content", "machine_draft_content",
                                        "publish_listing_content", "delete_listing_content"})
    \cup Acts("product", "none", {"scan_listing_content"})

TermRoutes ==
    Asks("product", "none", {"list_glossary_terms", "list_sensitive_terms"})
    \cup Acts("product_write", "none", {"create_glossary_term", "update_glossary_term",
                                        "delete_glossary_term", "create_sensitive_term",
                                        "update_sensitive_term", "delete_sensitive_term"})

MemberRoutes ==
    Asks("member", "none", {"list_members"})
    \cup Acts("member_write", "none", {"invite_member", "revoke_invitation",
                                       "update_member_role", "update_member_scope",
                                       "remove_member"})
    \cup Acts("anyone", "none", {"accept_invitation"})

StatusMappingRoutes ==
    Asks("order", "none", {"list_status_mappings", "list_order_status_logs"})
    \cup Acts("system_write", "none", {"upsert_status_mapping"})

OrderRoutes ==
    Asks("order", "none", {"list_orders", "export_orders", "order_freshness",
                           "list_review_rules"})
    \cup Acts("order_rule", "none", {"save_review_rule"})

ReturnRoutes ==
    Asks("order", "none", {"list_returns", "get_order"})
    \cup Acts("order_write", "none", {"approve_return", "reject_return", "refund_return",
                                      "change_address"})
    \cup Acts("order_ship", "none", {"batch_ship", "print_labels"})

DeskRoutes ==
    Acts("order_write", "none", {"add_note", "review_order", "create_return"})
    \cup Asks("order", "none", {"list_notes", "list_address_logs"})

ProductRoutes ==
    Asks("product", "none", {"list_spus", "product_import_template", "export_spus"})
    \cup Acts("product_write", "hidden", {"create_spu", "update_spu", "add_sku", "update_sku"})
    \cup Asks("product", "hidden", {"get_spu"})
    \cup Acts("product_write", "none", {"import_spus"})

ImageRoutes ==
    Asks("product", "none", {"list_product_images"})
    \cup Acts("product_write", "none", {"upload_product_image", "delete_product_image"})

ProfitRoutes ==
    Asks("finance", "gated", {"list_rates", "list_profit", "waterfall"})
    \cup Acts("finance_write", "gated", {"create_rate", "lock_rate", "materialize"})

SettlementRoutes ==
    Asks("finance", "gated", {"list_settlements", "settlement_detail"})
    \cup Acts("finance_write", "gated", {"import_settlement"})

SupplierRoutes ==
    Asks("purchase", "none", {"list_suppliers"})
    \cup Acts("purchase_write", "none", {"create_supplier", "update_supplier", "delete_supplier",
                                         "replace_supplier_skus"})

PurchaseOrderRoutes ==
    Asks("purchase", "gated", {"list_purchase_orders"})
    \cup Acts("purchase_write", "gated", {"create_order", "convert_replenishment",
                                          "update_order", "submit_order", "approve_order",
                                          "reject_order", "close_order", "cancel_order",
                                          "receive_order"})

ShipmentRoutes ==
    Asks("purchase", "none", {"list_in_transit"})
    \cup Asks("purchase", "gated", {"list_shipments"})
    \cup Acts("purchase_write", "gated", {"create_shipment", "post_shipment"})

RateLimitRoutes ==
    Asks("system", "none", {"list_rate_limits"})
    \cup Acts("system_write", "none", {"upsert_rate_limit"})

ReportRoutes ==
    Acts("report_export", "hidden", {"create_export"})
    \cup Asks("report_export", "none", {"get_export", "download_export"})

RoleRoutes ==
    Asks("member", "none", {"list_roles"})

ShopRoutes ==
    Asks("shop", "none", {"catalog", "list_shops", "get_shop"})
    \cup Acts("shop_grant", "none", {"build_auth_url", "oauth_callback", "trigger_sync",
                                     "unbind_shop"})
    \cup Asks("anyone", "none", {"oauth_browser_callback"})

SyncTaskRoutes ==
    Asks("shop", "none", {"list_sync_tasks", "get_sync_task"})

TenantRoutes ==
    Asks("signed_in", "none", {"current_tenant"})

WebhookRoutes ==
    Acts("anyone", "none", {"receive_webhook"})

\* require_confirmation
Confirmed == {"remove_member", "create_export", "unbind_shop"}

Routes ==
    UNION {AdvertisingRoutes, AuditRoutes, LoginRoutes, ComplianceRoutes, RequirementRoutes,
      MessageRoutes, TicketRoutes, BoardRoutes, HsCodeRoutes, WarehouseRoutes, StockRoutes,
      FlowRoutes, LandedCostRoutes, ListingRoutes, BatchRoutes, TextRoutes, TermRoutes,
      MemberRoutes, StatusMappingRoutes, OrderRoutes, ReturnRoutes, DeskRoutes, ProductRoutes,
      ImageRoutes, ProfitRoutes, SettlementRoutes, SupplierRoutes, PurchaseOrderRoutes,
      ShipmentRoutes, RateLimitRoutes, ReportRoutes, RoleRoutes, ShopRoutes, SyncTaskRoutes,
      TenantRoutes, WebhookRoutes}

\* require_permission and require_cost_visibility
Accepts(role, route) ==
    /\ route.right \in Rights(role) \cup {"anyone"}
    /\ route.money = "gated" => role \in SeesCost

Accepted(role) == {r.call : r \in {r \in Routes : Accepts(role, r)}}

-----------------------------------------------------------------------------
(* The pages: what they load as they open and what they draw for whom.      *)

Drawn(right, priced, calls) == {[right |-> right, priced |-> priced, call |-> c] : c \in calls}

Free(calls) == Drawn("signed_in", FALSE, calls)

\* Inside a PermissionGuard.
Guarded(right, calls) == Drawn(right, FALSE, calls)

\* Inside a CostGuard, or enabled by canViewCost.
Priced(calls) == Drawn("signed_in", TRUE, calls)

PricedGuarded(right, calls) == Drawn(right, TRUE, calls)

OrdersPage ==
    Free({"list_orders", "get_order", "export_orders", "order_freshness"})
    \cup Guarded("order_ship", {"batch_ship", "print_labels"})
    \cup Guarded("order_write", {"change_address", "review_order"})

ReturnsPage ==
    Free({"list_returns", "list_orders", "order_freshness"})
    \cup Guarded("order_write", {"create_return", "approve_return", "reject_return",
                                 "refund_return"})

OrderSettingsPage ==
    Free({"list_review_rules", "list_status_mappings", "order_freshness"})
    \cup Guarded("order_rule", {"save_review_rule"})
    \cup Guarded("system_write", {"upsert_status_mapping"})
    \cup Guarded("system", {"list_rate_limits"})
    \cup Guarded("system_write", {"upsert_rate_limit"})

CertificatesPage ==
    Free({"list_certificates", "list_cert_requirements", "list_compliance_alerts", "list_spus",
          "get_spu", "certificate_gaps"})
    \cup Guarded("compliance_write", {"create_certificate", "upload_certificate_file",
                                      "import_certificates", "create_cert_requirement",
                                      "retire_cert_requirement"})

TaxRegistrationsPage ==
    Free({"list_tax_registrations"})
    \cup Guarded("compliance_write", {"create_tax_registration", "retire_tax_registration"})

HsCodesPage ==
    Free({"search_hs_codes", "list_spus", "list_spu_hs_bindings"})
    \cup Guarded("compliance_write", {"bind_spu_hs_code"})

ReportPage ==
    Free({"compliance_report"})

TaxRulesPage ==
    Free({"list_tax_rules", "list_compliance_alerts"})
    \cup Guarded("compliance_write", {"create_tax_rule", "retire_tax_rule"})

CsTicketsPage ==
    Free({"list_tickets", "get_ticket", "get_message", "cs_assignees"})
    \cup Guarded("cs_write", {"create_ticket", "assign_ticket", "note_ticket", "close_ticket"})

CsTemplatesPage ==
    Free({"list_templates"})
    \cup Guarded("cs_write", {"create_template", "delete_template"})

CsMessagesPage ==
    Free({"cs_shops", "list_messages", "get_message", "list_templates", "preview_template"})
    \cup Guarded("cs_write", {"sync_messages", "read_message"})

WaterfallPage ==
    Free({"waterfall"})

SettlementsPage ==
    Free({"listing_shops", "list_settlements", "settlement_detail"})
    \cup PricedGuarded("finance_write", {"import_settlement"})

LandedCostPage ==
    Priced({"list_fees", "list_toggles"})
    \cup PricedGuarded("landed_cost_calc", {"calculate", "compare", "price", "create_fee",
                                            "retire_fee", "set_toggle"})

ProfitPage ==
    Free({"list_profit"})
    \cup PricedGuarded("finance_write", {"materialize"})

ExchangeRatesPage ==
    Free({"list_rates"})
    \cup PricedGuarded("finance_write", {"create_rate", "lock_rate"})

WarehousesPage ==
    Free({"list_warehouses"})
    \cup Guarded("inventory_write", {"create_warehouse", "delete_warehouse"})

TransfersPage ==
    Free({"list_transfers", "list_warehouses", "list_inventories"})
    \cup Guarded("inventory_write", {"create_transfer", "ship_transfer", "receive_transfer",
                                     "cancel_transfer"})

FlowsPage ==
    Free({"list_flows", "export_flows"})

StocktakingPage ==
    Free({"list_takings", "list_warehouses"})
    \cup Guarded("inventory_write", {"create_taking", "record_taking_counts", "post_taking",
                                     "cancel_taking"})

OverviewPage ==
    Free({"list_inventories", "list_warehouses", "list_push_logs", "list_turnover"})
    \cup Guarded("inventory_write", {"adjust_inventory", "push_inventory"})

ReplenishmentPage ==
    Free({"list_warehouses", "list_safety", "list_replenishments"})
    \cup Guarded("inventory_write", {"upsert_safety"})
    \cup Guarded("purchase_write", {"convert_replenishment"})

ShopsPage ==
    Free({"catalog", "list_shops", "list_sync_tasks"})
    \cup Guarded("shop_grant", {"build_auth_url", "oauth_callback", "trigger_sync",
                                "confirm_password", "unbind_shop"})

FirstMilePage ==
    Free({"list_shipments", "list_purchase_orders", "list_warehouses"})
    \cup Guarded("purchase_write", {"create_shipment", "post_shipment"})

SuppliersPage ==
    Free({"list_suppliers"})
    \cup Guarded("purchase_write", {"create_supplier", "replace_supplier_skus"})

PurchaseOrdersPage ==
    Free({"list_purchase_orders", "list_suppliers", "list_warehouses", "list_in_transit"})
    \cup Guarded("purchase_write", {"create_order", "submit_order", "approve_order",
                                    "reject_order", "receive_order", "close_order",
                                    "cancel_order"})

CategoryTemplatesPage ==
    Free({"category_catalog", "list_category_mappings"})
    \cup Guarded("product_write", {"create_category_mapping", "update_category_mapping"})

ImagesPage ==
    Free({"list_spus", "list_product_images"})
    \cup Guarded("product_write", {"upload_product_image", "delete_product_image"})

ListingsPage ==
    Free({"listing_shops", "list_listings", "list_spus", "get_spu", "list_category_mappings",
          "get_listing_batch", "list_listing_diffs"})
    \cup Guarded("product_write", {"create_listing", "update_listing", "preview_listing_prices",
                                   "reprice_listings", "patrol_listing_diffs",
                                   "accept_listing_diff", "dismiss_listing_diff"})

LocalePage ==
    Free({"list_listings", "list_listing_contents", "scan_listing_content", "list_glossary_terms",
          "list_sensitive_terms"})
    \cup Guarded("product_write", {"save_listing_content", "machine_draft_content",
                                   "publish_listing_content", "delete_listing_content",
                                   "create_glossary_term", "delete_glossary_term",
                                   "create_sensitive_term", "delete_sensitive_term"})

ProductDetailPage ==
    Free({"get_spu", "list_product_images", "list_listings", "list_listing_contents"})
    \cup Guarded("compliance", {"list_spu_hs_bindings", "list_certificates", "certificate_gaps"})
    \cup PricedGuarded("landed_cost_calc", {"calculate", "compare", "price"})

ProductsPage ==
    Free({"list_spus", "get_spu", "export_spus", "product_import_template"})
    \cup Guarded("product_write", {"create_spu", "update_spu", "add_sku", "update_sku",
                                   "import_spus"})

PublishPage ==
    Free({"listing_shops", "list_spus", "get_spu", "get_listing_batch"})
    \cup Guarded("product_write", {"publish_listings"})

AdsCampaignsPage ==
    Free({"list_campaigns", "campaign_detail"})

AdsKeywordsPage ==
    Free({"list_keywords"})

AdsLossPage ==
    Priced({"list_loss"})

AdsOverviewPage ==
    Free({"ads_overview", "sync_ads"})
    \cup Priced({"sku_profit"})

AnalyticsAdsPage ==
    Free({"ads_roi", "rebuild_dashboard"})

AnalyticsCostsPage ==
    Priced({"cost_structure"})
    \cup Free({"rebuild_dashboard"})

AnalyticsFulfillmentPage ==
    Free({"fulfillment", "rebuild_dashboard"})

AnalyticsInventoryPage ==
    Free({"inventory_health", "rebuild_dashboard"})

AnalyticsOverviewPage ==
    Free({"dashboard_overview", "rebuild_dashboard"})
    \cup Guarded("report_export", {"create_export", "confirm_password", "get_export",
                                   "download_export"})

AnalyticsPlatformsPage ==
    Free({"platform_comparison", "rebuild_dashboard"})

AnalyticsRankingPage ==
    Priced({"sku_ranking"})
    \cup Free({"rebuild_dashboard"})
    \cup Guarded("report_export", {"create_export", "confirm_password", "get_export",
                                   "download_export"})

AnalyticsTrendsPage ==
    Free({"dashboard_trends", "rebuild_dashboard"})

AuditPage ==
    Free({"list_audit_logs"})

MembersPage ==
    Free({"list_members", "list_roles"})
    \cup Guarded("member_write", {"invite_member", "update_member_role", "revoke_invitation",
                                  "update_member_scope", "confirm_password", "remove_member"})

RolesPage ==
    Free({"list_roles"})

Page ==
    [OrdersPage |-> OrdersPage, ReturnsPage |-> ReturnsPage,
      OrderSettingsPage |-> OrderSettingsPage, CertificatesPage |-> CertificatesPage,
      TaxRegistrationsPage |-> TaxRegistrationsPage, HsCodesPage |-> HsCodesPage,
      ReportPage |-> ReportPage, TaxRulesPage |-> TaxRulesPage, CsTicketsPage |-> CsTicketsPage,
      CsTemplatesPage |-> CsTemplatesPage, CsMessagesPage |-> CsMessagesPage,
      WaterfallPage |-> WaterfallPage, SettlementsPage |-> SettlementsPage,
      LandedCostPage |-> LandedCostPage, ProfitPage |-> ProfitPage,
      ExchangeRatesPage |-> ExchangeRatesPage, WarehousesPage |-> WarehousesPage,
      TransfersPage |-> TransfersPage, FlowsPage |-> FlowsPage,
      StocktakingPage |-> StocktakingPage, OverviewPage |-> OverviewPage,
      ReplenishmentPage |-> ReplenishmentPage, ShopsPage |-> ShopsPage,
      FirstMilePage |-> FirstMilePage, SuppliersPage |-> SuppliersPage,
      PurchaseOrdersPage |-> PurchaseOrdersPage, CategoryTemplatesPage |-> CategoryTemplatesPage,
      ImagesPage |-> ImagesPage, ListingsPage |-> ListingsPage, LocalePage |-> LocalePage,
      ProductDetailPage |-> ProductDetailPage, ProductsPage |-> ProductsPage,
      PublishPage |-> PublishPage, AdsCampaignsPage |-> AdsCampaignsPage,
      AdsKeywordsPage |-> AdsKeywordsPage, AdsLossPage |-> AdsLossPage,
      AdsOverviewPage |-> AdsOverviewPage, AnalyticsAdsPage |-> AnalyticsAdsPage,
      AnalyticsCostsPage |-> AnalyticsCostsPage,
      AnalyticsFulfillmentPage |-> AnalyticsFulfillmentPage,
      AnalyticsInventoryPage |-> AnalyticsInventoryPage,
      AnalyticsOverviewPage |-> AnalyticsOverviewPage,
      AnalyticsPlatformsPage |-> AnalyticsPlatformsPage,
      AnalyticsRankingPage |-> AnalyticsRankingPage, AnalyticsTrendsPage |-> AnalyticsTrendsPage,
      AuditPage |-> AuditPage, MembersPage |-> MembersPage, RolesPage |-> RolesPage,
      DashboardPage |-> {}, PlaceholderPage |-> {}]

-----------------------------------------------------------------------------
(* The menu: its leaves in their order, each with the right that opens it.  *)

FirstMenu ==
    <<<<"DashboardPage", "dashboard">>, <<"AnalyticsOverviewPage", "dashboard">>,
      <<"AnalyticsPlatformsPage", "dashboard">>, <<"AnalyticsRankingPage", "dashboard">>,
      <<"AnalyticsTrendsPage", "dashboard">>, <<"AnalyticsCostsPage", "dashboard">>,
      <<"AnalyticsInventoryPage", "dashboard">>, <<"AnalyticsAdsPage", "dashboard">>,
      <<"AnalyticsFulfillmentPage", "dashboard">>, <<"ShopsPage", "shop">>>>

OrderMenu ==
    <<<<"OrdersPage", "order">>, <<"OrdersPage", "order">>, <<"OrdersPage", "order">>,
      <<"ReturnsPage", "order">>, <<"OrderSettingsPage", "order_rule">>,
      <<"ProductsPage", "product">>, <<"ProductDetailPage", "product">>,
      <<"ImagesPage", "product">>, <<"LocalePage", "product">>, <<"ListingsPage", "product">>,
      <<"PublishPage", "product">>, <<"CategoryTemplatesPage", "product">>>>

StockMenu ==
    <<<<"OverviewPage", "inventory">>, <<"WarehousesPage", "inventory">>,
      <<"FlowsPage", "inventory">>, <<"ReplenishmentPage", "inventory">>,
      <<"TransfersPage", "inventory">>, <<"StocktakingPage", "inventory">>,
      <<"ReportPage", "compliance">>, <<"HsCodesPage", "compliance">>,
      <<"TaxRulesPage", "compliance">>, <<"CertificatesPage", "compliance">>,
      <<"TaxRegistrationsPage", "compliance">>>>

TradeMenu ==
    <<<<"PurchaseOrdersPage", "purchase">>, <<"SuppliersPage", "purchase">>,
      <<"FirstMilePage", "purchase">>, <<"PlaceholderPage", "purchase">>,
      <<"AdsOverviewPage", "ads">>, <<"AdsCampaignsPage", "ads">>, <<"AdsKeywordsPage", "ads">>,
      <<"AdsLossPage", "ads">>, <<"CsMessagesPage", "cs">>, <<"CsTemplatesPage", "cs">>,
      <<"CsTicketsPage", "cs">>>>

FinanceMenu ==
    <<<<"LandedCostPage", "landed_cost">>, <<"ExchangeRatesPage", "finance">>,
      <<"ProfitPage", "finance">>, <<"WaterfallPage", "finance">>,
      <<"SettlementsPage", "finance">>, <<"MembersPage", "member">>, <<"RolesPage", "member">>,
      <<"AuditPage", "audit">>>>

Menu == FirstMenu \o OrderMenu \o StockMenu \o TradeMenu \o FinanceMenu

Opens(role) == {i \in DOMAIN Menu : Menu[i][2] \in Rights(role)}

\* DefaultAuthorizedRoute
Landing(role) == CHOOSE i \in Opens(role) : \A j \in Opens(role) : i <= j

\* canViewCost: the sign of the server and the right.
Draws(role, d) ==
    /\ d.right \in Rights(role)
    /\ d.priced => role \in SeesCost /\ "cost" \in Rights(role)

Shows(role, page) == {d.call : d \in {d \in page : Draws(role, d)}}

Pages(role) == {Menu[i][1] : i \in Opens(role)}

-----------------------------------------------------------------------------
(***************************************************************************)
(* The tables of the roles agree (ROLE_PERMISSIONS, COST_VISIBLE_ROLES,    *)
(* mask_party): who may do something in a module reads that module, costs  *)
(* are shown to those who may read them and not to OPS_STAFF, and nobody   *)
(* sees the buyer of an order who may not read orders.                     *)
(***************************************************************************)
RolesAgree ==
    \A role \in Role :
        /\ \A d \in May(role).does : Does[d] \in May(role).reads
        /\ (role \in SeesCost) = ("cost" \in May(role).reads)
        /\ role = "OPS_STAFF" => {"cost", "finance"} \cap May(role).reads = {}
        /\ (\E f \in Shown : Sees(role)[f] # "none") => "order" \in May(role).reads
        /\ "order_rule" \in May(role).does => "order_write" \in May(role).does

(***************************************************************************)
(* The tables of the routes, the menu and the pages agree                  *)
(* (require_permission, PermissionGuard: no button is drawn for a role     *)
(* that the API then refuses).                                             *)
(* - A call names one route, and what a page calls is a route.             *)
(* - A role that opens a page is accepted in all that the page shows it,   *)
(*   but for VIEWER, who reads finance without the costs: the loads that   *)
(*   it is refused are of finance and need the sight of costs.             *)
(* - A page that shows a call with a second confirmation shows the         *)
(*   confirmation as well.                                                 *)
(* - A role that may do nothing but read changes nothing but figures that  *)
(*   are drawn again (VIEWER; refreshing advertising and the board).       *)
(* - Every role has a page to land on, and is accepted there.              *)
(***************************************************************************)
ScreensAgree ==
    LET calls == {r.call : r \in Routes}
        page == Page
    IN  /\ Cardinality(Routes) = Cardinality(calls)
        /\ \A p \in DOMAIN page : \A d \in page[p] : d.call \in calls
        /\ \A role \in Role :
              LET accepted == Accepted(role)
                  shown == UNION {{p} \X Shows(role, page[p]) : p \in Pages(role)}
                  refused == {s \in shown : s[2] \notin accepted}
              IN  /\ Opens(role) # {} /\ \A s \in refused : s[1] # Menu[Landing(role)][1]
                  /\ refused = {} \/ role = "VIEWER"
                  /\ \A s \in refused : \E r \in Routes :
                        r.call = s[2] /\ r.right = "finance" /\ r.money = "gated"
                  /\ \A s \in shown : s[2] \in Confirmed => <<s[1], "confirm_password">> \in shown
                  /\ May(role).does = {} =>
                        \A r \in Routes : r.acts /\ r.call \in accepted =>
                            \/ r.right \in {"anyone", "signed_in"}
                            \/ r.call \in {"sync_ads", "rebuild_dashboard", "scan_listing_content"}
=============================================================================
