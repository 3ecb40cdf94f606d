----------------------------- MODULE Migrations -----------------------------
(***************************************************************************)
(* The migrations of src/src/database/migrations, as TypeORM runs and      *)
(* reverts them.  Each is a pair of statement sequences; a statement needs *)
(* something of the schema (a column to drop must be there, a table to     *)
(* create must not) and PostgreSQL refuses it otherwise.                   *)
(*                                                                         *)
(* A release carries the migrations that existed when it was built: run    *)
(* applies those that are pending, revert takes back the last one applied. *)
(* Both are one transaction: a refused statement undoes all of it.         *)
(*                                                                         *)
(* A foreign key or index is named by its table and the rest of its name.  *)
(* Of the rows, the model keeps those that migrations rewrite: the         *)
(* delivery fee of a branch and its zones, the price of an item in tenths  *)
(* of a cent, and what is in a bundle: items with their quantities, which  *)
(* is 1 in the junction table.                                             *)
(***************************************************************************)
EXTENDS Integers, FiniteSets, Functions, SequencesExt, TLC, Schema

CONSTANTS
    Releases,       \* how many migrations each deployed build carries
    Zones,          \* the zones of the branch
    Fees,           \* delivery fees
    Prices,         \* prices of the item
    Entries         \* what a bundle's column may list: [item, quantity]

VARIABLES
    db,             \* the schema and the rows, see Empty
    version         \* how many migrations are applied

vars == <<db, version>>

-----------------------------------------------------------------------------
(* Statements.                                                             *)

Types(names) == [kind |-> "create types", names |-> names]
DropTypes(names) == [kind |-> "drop types", names |-> names]
Create(t, columns) == [kind |-> "create", table |-> t, columns |-> columns]
Drop(t) == [kind |-> "drop", table |-> t]
DropIfExists(t) == [kind |-> "drop if exists", table |-> t]
Add(t, columns) == [kind |-> "add", table |-> t, columns |-> columns]
Cut(t, columns) == [kind |-> "remove", table |-> t, columns |-> columns]
CutIfExists(t, columns) ==
    [kind |-> "remove if exists", table |-> t, columns |-> columns]
Rename(t, from, to) ==
    [kind |-> "rename", table |-> t, from |-> from, to |-> to]
Indexes(names) == [kind |-> "create indexes", names |-> names]
DropIndexes(names) == [kind |-> "drop indexes", names |-> names]
DropIndexesIfExist(names) == [kind |-> "drop indexes if exist", names |-> names]
Keys(keys) == [kind |-> "add keys", keys |-> keys]
DropKeys(keys) ==
    [kind |-> "drop keys", names |-> {<<k[1], k[2]>> : k \in keys}]
Rewrite(rows) == [kind |-> "rewrite", rows |-> rows]

\* Indexes On a table; foreign keys From a table to others.
On(t, names) == {t} \X names
From(t, targets) == {<<t, name, targets[name]>> : name \in DOMAIN targets}

Author == [createdBy |-> "users", updatedBy |-> "users"]
Editor == [created_by |-> "users", updated_by |-> "users"]
Stamped == {"id", "createdAt", "updatedAt"}
Dated == Stamped \cup {"deletedAt"}

-----------------------------------------------------------------------------
(* What PostgreSQL does with them.                                         *)

Has(d, t, columns) == t \in DOMAIN d.tables /\ columns \subseteq d.tables[t]

\* Foreign keys of other tables that refer to t.
Referring(d, t) == {k \in d.keys : k[3] = t /\ k[1] # t}

\* Rows of the junction table: one of an item, and of an item there is.
Listable(contents) ==
    \A e, f \in contents : e.item # "gone" /\ (e.item = f.item => e = f)

Possible(d, s) ==
    CASE s.kind = "create types" -> s.names \cap d.types = {}
      [] s.kind = "drop types" -> s.names \subseteq d.types
      [] s.kind = "create" -> s.table \notin DOMAIN d.tables
      [] s.kind = "drop" ->
           s.table \in DOMAIN d.tables /\ Referring(d, s.table) = {}
      [] s.kind = "drop if exists" -> Referring(d, s.table) = {}
      [] s.kind = "add" ->
           Has(d, s.table, {}) /\ s.columns \cap d.tables[s.table] = {}
      [] s.kind = "remove" -> Has(d, s.table, s.columns)
      [] s.kind = "rename" ->
           Has(d, s.table, {s.from}) /\ ~Has(d, s.table, {s.to})
      [] s.kind = "create indexes" ->
           /\ s.names \cap d.indexes = {}
           /\ \A i \in s.names : i[1] \in DOMAIN d.tables
      [] s.kind = "drop indexes" -> s.names \subseteq d.indexes
      [] s.kind = "add keys" ->
           /\ \A k \in s.keys : {k[1], k[3]} \subseteq DOMAIN d.tables
           /\ {<<k[1], k[2]>> : k \in s.keys}
                \cap {<<k[1], k[2]>> : k \in d.keys} = {}
      [] s.kind = "drop keys" ->
           s.names \subseteq {<<k[1], k[2]>> : k \in d.keys}
      [] s.kind = "rewrite" -> s.rows = "items to table" => Listable(d.contents)
      [] OTHER -> TRUE

NoPrice == [object |-> FALSE, value |-> 0]

\* Integer average; of no zones it is NULL, the empty set.
Average(fees) ==
    {SumFunction(fees) \div Cardinality(DOMAIN fees) : z \in DOMAIN fees}

\* numeric(10,2) keeps whole cents.
Cent == 10
Cents(v) == ((v + 5) \div Cent) * Cent

Singly(contents) == {[item |-> e.item, quantity |-> 1] : e \in contents}

\* The UPDATE and INSERT statements of the migrations.
Rewritten(d, rows) ==
    CASE rows = "fee to zones" ->
           [d EXCEPT !.zoneFee =
              [z \in Zones |-> IF d.branchFee = {} THEN 0
                               ELSE CHOOSE f \in d.branchFee : TRUE],
              !.branchFee = {}]
      [] rows = "fee to branch" ->
           [d EXCEPT !.branchFee = Average(d.zoneFee),
                     !.zoneFee = [z \in Zones |-> 0]]
      [] rows = "pricing to price" ->
           [d EXCEPT !.price = [object |-> FALSE,
                                value |-> IF @.object THEN 0 ELSE Cents(@.value)]]
      [] rows \in {"items to column", "items to table"} ->
           [d EXCEPT !.contents = Singly(@)]
      [] rows = "bundle items dropped" -> [d EXCEPT !.contents = {}]

\* A dropped table takes its rows, indexes and foreign keys along.
WithoutTable(d, t) ==
    [d EXCEPT
       !.branchFee = IF t = "branches" THEN {} ELSE @,
       !.zoneFee = [z \in Zones |-> IF t = "zones" THEN 0 ELSE @[z]],
       !.price = IF t = "items" THEN NoPrice ELSE @,
       !.contents = IF t = "bundles" THEN {} ELSE @,
       !.tables = [u \in DOMAIN d.tables \ {t} |-> d.tables[u]],
       !.keys = {k \in d.keys : k[1] # t},
       !.indexes = {i \in d.indexes : i[1] # t}]

Effect(d, s) ==
    CASE s.kind = "create types" -> [d EXCEPT !.types = @ \cup s.names]
      [] s.kind = "drop types" -> [d EXCEPT !.types = @ \ s.names]
      [] s.kind = "create" -> [d EXCEPT !.tables = @ @@ (s.table :> s.columns)]
      [] s.kind \in {"drop", "drop if exists"} -> WithoutTable(d, s.table)
      [] s.kind = "add" -> [d EXCEPT !.tables[s.table] = @ \cup s.columns]
      [] s.kind \in {"remove", "remove if exists"} ->
           [d EXCEPT !.tables[s.table] = @ \ s.columns]
      [] s.kind = "rename" ->
           [d EXCEPT !.tables[s.table] = (@ \ {s.from}) \cup {s.to}]
      [] s.kind = "create indexes" -> [d EXCEPT !.indexes = @ \cup s.names]
      [] s.kind \in {"drop indexes", "drop indexes if exist"} ->
           [d EXCEPT !.indexes = @ \ s.names]
      [] s.kind = "add keys" -> [d EXCEPT !.keys = @ \cup s.keys]
      [] s.kind = "drop keys" ->
           [d EXCEPT !.keys = {k \in @ : <<k[1], k[2]>> \notin s.names}]
      [] s.kind = "rewrite" -> Rewritten(d, s.rows)

Execute(d, s) ==
    IF d.failed \/ ~Possible(d, s) THEN [d EXCEPT !.failed = TRUE]
                                   ELSE Effect(d, s)

\* Nothing follows a failure.
After(d, statements) ==
    IF d.failed THEN d ELSE FoldLeft(Execute, d, statements)

-----------------------------------------------------------------------------
(* The migrations, in the order of their timestamps.                       *)

UsersTables ==
    <<  Types({"user_role_enum", "user_status_enum", "user_gender_enum",
               "user_provider_enum"}),
        Create("users", Dated \cup {"fullName", "email", "password",
           "changePasswordTime", "phoneNumber", "phoneNumberCountryCode",
           "userLocale", "countryCode", "role", "confirmAccount", "status",
           "avatar", "birthday", "joined", "gender", "provider",
           "verificationCode", "verificationCodeExpiresAt", "lastLogin",
           "lastLogout"}),
        Create("access_tokens", {"id", "identifier", "accessToken",
           "refreshToken", "userId", "deviceIP", "deviceName",
           "deviceLocation", "expiration", "refreshExpiration", "createdAt"}),
        Create("reset_password_tokens", {"email", "reset_token",
           "expires_at"}),
        Create("upload_media", Dated \cup {"filename", "path", "url",
           "mimetype", "size", "entityType", "entityId", "createdById",
           "updatedById"})  >>

UsersIndexes ==
    On("users", {"email", "role", "status"})
    \cup On("access_tokens",
            {"user_id", "access_token", "refresh_token", "expiration"})
    \cup On("reset_password_tokens", {"reset_token", "expires_at"})
    \cup On("upload_media",
            {"entity_type_id", "mimetype", "created_by", "deleted_at"})

UsersKeys ==
    From("access_tokens", [user |-> "users"])
    \cup From("reset_password_tokens", [user |-> "users"])
    \cup From("upload_media", Editor)

UsersDown ==
    <<  DropKeys(UsersKeys), DropIndexes(UsersIndexes),
        Drop("upload_media"), Drop("reset_password_tokens"),
        Drop("access_tokens"), Drop("users"),
        DropTypes({"user_provider_enum", "user_gender_enum",
                   "user_status_enum", "user_role_enum"})  >>

CreateUsersAndRelatedTables ==
    [up |-> UsersTables \o <<Indexes(UsersIndexes), Keys(UsersKeys)>>,
     down |-> UsersDown]

BranchesKeys ==
    From("zones", [branch |-> "branches"] @@ Editor)
    \cup From("branches", Editor)

BranchesIndexes ==
    On("branches", {"latitude", "longitude", "name_gin"})
    \cup On("zones", {"polygon_gin", "name_gin"})

CreateBranchesAndZones ==
    [up |->
     <<  Create("branches", Stamped \cup {"name", "address", "latitude",
           "longitude", "phone", "email", "isActive", "isOpen",
           "openingHours", "closingHours", "deliveryFee",
           "estimatedDeliveryTime", "createdById", "updatedById"}),
        Create("zones", Stamped \cup {"name", "branchId", "polygon",
           "centerLatitude", "centerLongitude", "radiusKm", "isActive",
           "priority", "createdById", "updatedById"}),
        Indexes(BranchesIndexes), Keys(BranchesKeys)  >>,
     down |->
     <<  DropKeys(BranchesKeys), DropIndexes(BranchesIndexes),
        Drop("zones"), Drop("branches")  >>]

AlterZonePolygonToGeometry ==
    [up |->
     <<  DropIndexesIfExist(On("zones", {"polygon_gin"})),
        Add("zones", {"polygon_temp"}), Cut("zones", {"polygon"}),
        Rename("zones", "polygon_temp", "polygon"),
        Indexes(On("zones", {"polygon_gist"}))  >>,
     down |->
     <<  DropIndexesIfExist(On("zones", {"polygon_gist"})),
        Add("zones", {"polygon_temp"}), Cut("zones", {"polygon"}),
        Rename("zones", "polygon_temp", "polygon"),
        Indexes(On("zones", {"polygon_gin"}))  >>]

MenuTables ==
    <<  Types({"item_status_enum", "variant_type_enum"}),
        Create("categories", Stamped \cup {"name", "description", "image",
           "isActive", "sortOrder", "createdBy", "updatedBy"}),
        Create("ingredient_categories", Stamped \cup {"name", "description",
           "isActive", "sortOrder", "createdBy", "updatedBy"}),
        Create("ingredients", Stamped \cup {"name", "quantity", "isOptional",
           "stockPercentage", "isActive", "categoryId", "createdBy",
           "updatedBy"}),
        Create("variants", Stamped \cup {"name", "type", "isActive",
           "sortOrder", "createdBy", "updatedBy"}),
        Create("variant_values", Stamped \cup {"name", "price", "isActive",
           "sortOrder", "variantId", "createdBy", "updatedBy"}),
        Create("items", Stamped \cup {"name", "description", "image", "price",
           "status", "sortOrder", "categoryId", "createdBy", "updatedBy"}),
        Create("item_variants", {"itemId", "variantId"}),
        Create("item_ingredients", {"itemId", "ingredientId"})  >>

MenuKeys ==
    From("categories", Author)
    \cup From("ingredient_categories", Author)
    \cup From("ingredients", [category |-> "ingredient_categories"] @@ Author)
    \cup From("variants", Author)
    \cup From("variant_values", [variant |-> "variants"] @@ Author)
    \cup From("items", [category |-> "categories"] @@ Author)
    \cup From("item_variants", [item |-> "items", variant |-> "variants"])
    \cup From("item_ingredients",
              [item |-> "items", ingredient |-> "ingredients"])

MenuIndexes ==
    On("categories", {"isActive"})
    \cup On("ingredients", {"isOptional", "isActive", "categoryId"})
    \cup On("variants", {"type", "isActive"})
    \cup On("variant_values", {"isActive"})
    \cup On("items", {"status", "categoryId"})

MenuDown ==
    <<  DropIndexes(MenuIndexes), DropKeys(MenuKeys),
        Drop("item_ingredients"), Drop("item_variants"), Drop("items"),
        Drop("variant_values"), Drop("variants"), Drop("ingredients"),
        Drop("ingredient_categories"), Drop("categories"),
        DropTypes({"variant_type_enum", "item_status_enum"})  >>

CreateMenuModule ==
    [up |-> MenuTables \o <<Keys(MenuKeys), Indexes(MenuIndexes)>>,
     down |-> MenuDown]

BundleItems == Create("bundle_items", {"bundleId", "itemId"})
BundleItemsIndexes == On("bundle_items", {"bundleId", "itemId"})
BundleItemsKeys ==
    From("bundle_items", [bundleId |-> "bundles", itemId |-> "items"])
BundlesKeys == From("bundles", [categoryId |-> "categories"] @@ Author)

CreateBundles ==
    [up |->
     <<  Types({"bundle_status_enum"}),
        Create("bundles", Stamped \cup {"name", "description", "image",
           "categoryId", "numberOfItems", "price", "status", "createdBy",
           "updatedBy"}),
        BundleItems, Indexes(On("bundles", {"categoryId", "status"})),
        Indexes(BundleItemsIndexes), Keys(BundlesKeys), Keys(BundleItemsKeys)  >>,
     down |->
     <<  DropKeys(BundleItemsKeys), DropKeys(BundlesKeys),
        DropIndexes(BundleItemsIndexes),
        DropIndexes(On("bundles", {"categoryId", "status"})),
        Drop("bundle_items"), Drop("bundles"),
        DropTypes({"bundle_status_enum"})  >>]

AddQuantityTypeToIngredientsAndExtras ==
    [up |->
     <<  Types({"quantity_type_enum"}), Add("ingredients", {"quantityType"}),
        Add("variant_values", {"quantity", "quantityType"}),
        Indexes(On("ingredients", {"quantityType"})),
        Indexes(On("variant_values", {"quantityType"}))  >>,
     down |->
     <<  DropIndexes(On("variant_values", {"quantityType"})),
        DropIndexes(On("ingredients", {"quantityType"})),
        Cut("variant_values", {"quantityType", "quantity"}),
        Cut("ingredients", {"quantityType"}),
        DropTypes({"quantity_type_enum"})  >>]

\* A price becomes a number in pricing; back, other pricing becomes 0.
UpdateItemPricingAndFields ==
    [up |->
     <<  Add("items", {"pricing", "tags", "extras", "ingredientsWithQuantity"}),
        Cut("items", {"price"})  >>,
     down |->
     <<  Add("items", {"price"}), Rewrite("pricing to price"),
        Cut("items",
               {"pricing", "tags", "extras", "ingredientsWithQuantity"})  >>]

\* The items move from the junction table to a column, and back without their
\* quantities.
UpdateBundleItemsExtras ==
    [up |->
     <<  Add("bundles", {"items", "extras"}), Rewrite("items to column"),
        DropKeys(BundleItemsKeys), DropIndexes(BundleItemsIndexes),
        Drop("bundle_items")  >>,
     down |->
     <<  BundleItems, Indexes(BundleItemsIndexes), Rewrite("items to table"),
        Keys(BundleItemsKeys), Cut("bundles", {"items", "extras"})  >>]

DiscountsTables ==
    <<  Types({"discount_type_enum", "discount_status_enum",
               "discount_target_type_enum"}),
        Create("discounts", Stamped \cup {"code", "name", "description",
           "type", "targetType", "value", "buyQuantity", "getQuantity",
           "freeItemId", "minimumPurchase", "maxUsageTotal",
           "maxUsagePerUser", "currentUsageCount", "startDate", "endDate",
           "status", "isActive", "createdBy", "updatedBy"}),
        Create("user_discounts", {"userId", "discountId", "usageCount",
           "lastUsedAt", "assignedAt", "assignedBy"}),
        Create("item_discounts", {"itemId", "discountId", "assignedAt",
           "assignedBy"}),
        Create("discount_usage_logs", {"id", "discountId", "userId",
           "orderId", "itemId", "discountAmount", "usedAt"})  >>

DiscountsIndexes ==
    On("discounts", {"type", "targetType", "status", "isActive", "code",
                     "dates", "name_gin"})
    \cup On("user_discounts", {"userId", "discountId", "userId_discountId"})
    \cup On("item_discounts", {"itemId", "discountId", "itemId_discountId"})
    \cup On("discount_usage_logs", {"discountId", "userId", "usedAt"})

DiscountsKeys ==
    From("discounts", [freeItemId |-> "items"] @@ Author)
    \cup From("user_discounts", [userId |-> "users", discountId |-> "discounts",
                                 assignedBy |-> "users"])
    \cup From("item_discounts", [itemId |-> "items", discountId |-> "discounts",
                                 assignedBy |-> "users"])
    \cup From("discount_usage_logs",
              [discountId |-> "discounts", userId |-> "users",
               itemId |-> "items"])

DiscountsDown ==
    <<  DropKeys(DiscountsKeys), DropIndexes(DiscountsIndexes),
        Drop("discount_usage_logs"), Drop("item_discounts"),
        Drop("user_discounts"), Drop("discounts"),
        DropTypes({"discount_target_type_enum", "discount_status_enum",
                   "discount_type_enum"})  >>

CreateDiscountsModule ==
    [up |-> DiscountsTables \o <<Indexes(DiscountsIndexes), Keys(DiscountsKeys)>>,
     down |-> DiscountsDown]

\* The way back names three foreign keys otherwise than CreateMenuModule.
VariantsAgain ==
    <<  Create("variants", Stamped \cup {"name", "type", "isActive",
           "sortOrder", "createdBy", "updatedBy"}),
        Indexes(On("variants", {"type", "isActive"})),
        Create("variant_values",
               Stamped \cup {"name", "price", "quantity", "quantityType",
                             "isActive", "sortOrder", "variantId", "createdBy",
                             "updatedBy"}),
        Indexes(On("variant_values", {"quantityType", "isActive"})),
        Create("item_variants", {"itemId", "variantId"}),
        Keys(From("variants", Author)
             \cup From("variant_values", [variantId |-> "variants"] @@ Author)
             \cup From("item_variants",
                       [itemId |-> "items", variantId |-> "variants"])),
        Indexes(On("item_variants", {"itemId", "variantId"}))  >>

RemoveVariants ==
    [up |->
     <<  DropIfExists("item_variants"), DropIfExists("variant_values"),
        DropIfExists("variants")  >>,
     down |-> VariantsAgain]

SoftDeleted ==
    <<"access_tokens", "branches", "zones", "categories",
      "ingredient_categories", "ingredients", "items", "bundles", "discounts",
      "discount_usage_logs", "user_discounts", "item_discounts">>

SoftDeleteIndexes ==
    UNION {On(SoftDeleted[i], {"deletedAt"}) : i \in DOMAIN SoftDeleted}

AddSoftDeleteColumns ==
    [up |-> [i \in DOMAIN SoftDeleted |-> Add(SoftDeleted[i], {"deletedAt"})]
            \o <<Indexes(SoftDeleteIndexes)>>,
     down |-> <<DropIndexes(SoftDeleteIndexes)>>
              \o [i \in DOMAIN SoftDeleted |-> Cut(SoftDeleted[i], {"deletedAt"})]]

\* The overrides of one kind of entry of the menu.
Overrides(t, column) ==
    Create(t, Dated \cup {"branchId", column, "isAvailable", "reason",
                          "createdById", "updatedById"})

OverridesKeys ==
    From("branch_category_overrides",
         [branch |-> "branches", category |-> "categories"] @@ Editor)
    \cup From("branch_item_overrides",
              [branch |-> "branches", item |-> "items"] @@ Editor)
    \cup From("branch_bundle_overrides",
              [branch |-> "branches", bundle |-> "bundles"] @@ Editor)

OverridesIndexes ==
    On("branch_category_overrides", {"branch_available", "category"})
    \cup On("branch_item_overrides", {"branch_available", "item"})
    \cup On("branch_bundle_overrides", {"branch_available", "bundle"})

CreateBranchMenuOverrides ==
    [up |->
     <<  Overrides("branch_category_overrides", "categoryId"),
        Overrides("branch_item_overrides", "itemId"),
        Overrides("branch_bundle_overrides", "bundleId"),
        Indexes(OverridesIndexes), Keys(OverridesKeys)  >>,
     down |->
     <<  DropKeys(OverridesKeys), DropIndexes(OverridesIndexes),
        Drop("branch_bundle_overrides"), Drop("branch_item_overrides"),
        Drop("branch_category_overrides")  >>]

\* Mutant: the branches' fees are dropped before they are copied.
MoveDeliveryFeeLost ==
    [up |-> <<Add("zones", {"deliveryFee"}), Cut("branches", {"deliveryFee"})>>,
     down |-> <<Add("branches", {"deliveryFee"}), Rewrite("fee to branch"),
                Cut("zones", {"deliveryFee"})>>]

MoveDeliveryFeeToZone ==
    [up |->
     <<  Add("zones", {"deliveryFee"}), Rewrite("fee to zones"),
        Cut("branches", {"deliveryFee"})  >>,
     down |->
     <<  Add("branches", {"deliveryFee"}), Rewrite("fee to branch"),
        Cut("zones", {"deliveryFee"})  >>]

PaymentsTables ==
    <<  Types({"payment_type_enum", "payment_status_enum",
               "payment_event_type_enum", "refund_type_enum",
               "refund_status_enum"}),
        Create("payments", Dated \cup {"transactionId", "paymobOrderId",
           "merchantOrderId", "amount", "currency", "paymentType", "status",
           "userId", "paymentMethodId", "paymobTransactionId",
           "paymobIframeUrl", "paymobPaymentKey", "paymobResponse",
           "cashReferenceNumber", "cardLastFourDigits", "cardBrand",
           "description", "metadata", "errorMessage", "errorCode",
           "refundedAmount", "isRefundable", "paidAt", "failedAt",
           "refundedAt", "ipAddress", "userAgent"}),
        Create("payment_methods", Dated \cup {"userId", "paymobToken",
           "cardLastFourDigits", "cardBrand", "expiryMonth", "expiryYear",
           "cardHolderName", "isDefault", "isActive", "nickname"}),
        Create("payment_transaction_logs", Dated \cup {"paymentId",
           "eventType", "previousStatus", "newStatus", "eventData", "notes",
           "ipAddress", "occurredAt"}),
        Create("refunds", Dated \cup {"paymentId", "refundId", "amount",
           "refundType", "status", "reason", "adminNotes", "requestedById",
           "requestedAt", "approvedById", "approvedAt", "paymobRefundId",
           "paymobResponse", "errorMessage", "processedAt", "completedAt",
           "isAutomatic"})  >>

PaymentsIndexes ==
    On("payments", {"transactionId", "paymobOrderId", "userId", "status",
                    "paymentType"})
    \cup On("payment_methods", {"userId"})
    \cup On("payment_transaction_logs", {"paymentId", "eventType", "occurredAt"})
    \cup On("refunds", {"paymentId", "refundId", "status", "refundType"})

PaymentsKeys ==
    From("payments", [userId |-> "users", paymentMethodId |-> "payment_methods"])
    \cup From("payment_methods", [userId |-> "users"])
    \cup From("payment_transaction_logs", [paymentId |-> "payments"])
    \cup From("refunds", [paymentId |-> "payments", requestedById |-> "users",
                          approvedById |-> "users"])

PaymentsDown ==
    <<  DropKeys(PaymentsKeys), DropIndexes(PaymentsIndexes),
        Drop("refunds"), Drop("payment_transaction_logs"),
        Drop("payment_methods"), Drop("payments"),
        DropTypes({"refund_status_enum", "refund_type_enum",
                   "payment_event_type_enum", "payment_status_enum",
                   "payment_type_enum"})  >>

CreatePaymentsModule ==
    [up |-> PaymentsTables \o <<Indexes(PaymentsIndexes), Keys(PaymentsKeys)>>,
     down |-> PaymentsDown]

CreateRbacSystem ==
    [up |->
     <<  Create("roles", Dated \cup {"name", "displayName", "description",
           "permissions", "isSystemRole", "isActive"}),
        Indexes(On("roles", {"name", "isActive"})),
        Add("users", {"adminRoleId"}), Indexes(On("users", {"adminRoleId"})),
        Keys(From("users", [adminRoleId |-> "roles"]))  >>,
     down |->
     <<  DropKeys(From("users", [adminRoleId |-> "roles"])),
        DropIndexes(On("users", {"adminRoleId"})),
        Cut("users", {"adminRoleId"}),
        DropIndexes(On("roles", {"isActive", "name"})), Drop("roles")  >>]

AddTimestampsToDiscountUsageLogs ==
    [up |-> <<Add("discount_usage_logs", {"createdAt", "updatedAt"})>>,
     down |-> <<Cut("discount_usage_logs", {"updatedAt", "createdAt"})>>]

OrdersTables ==
    <<  Types({"order_type_enum", "order_status_enum", "address_type_enum"}),
        Create("user_addresses", Dated \cup {"userId", "label", "type",
           "addressLine1", "addressLine2", "city", "area", "postalCode",
           "latitude", "longitude", "deliveryInstructions", "contactPhone",
           "isDefault", "isActive", "cachedBranchId", "cachedDeliveryFee",
           "lastValidatedAt"}),
        Create("carts", Dated \cup {"userId", "branchId", "orderType",
           "deliveryAddressId", "scheduledPickupTime", "specialInstructions",
           "subtotal", "discountAmount", "deliveryFee", "tax", "total",
           "appliedDiscounts", "lastValidatedAt", "validationErrors"}),
        Create("cart_items", Dated \cup {"cartId", "itemType", "itemId",
           "bundleId", "quantity", "unitPrice", "totalPrice",
           "selectedVariant", "customizations", "extras",
           "specialInstructions", "discountAmount", "appliedDiscountId"}),
        Create("orders", Dated \cup {"orderNumber", "userId", "branchId",
           "orderType", "status", "deliveryAddressId",
           "deliveryAddressSnapshot", "zoneId", "scheduledPickupTime",
           "actualPickupTime", "subtotal", "discountAmount", "deliveryFee",
           "tax", "total", "currency", "appliedDiscounts", "paymentId",
           "specialInstructions", "estimatedPrepTime",
           "estimatedDeliveryTime", "confirmedAt", "preparingAt", "readyAt",
           "outForDeliveryAt", "completedAt", "cancelledAt",
           "cancellationReason", "cancelledById", "metadata", "ipAddress",
           "userAgent"}),
        Create("order_items", Dated \cup {"orderId", "itemType",
           "originalItemId", "name", "description", "image", "quantity",
           "unitPrice", "totalPrice", "selectedVariant", "customizations",
           "extras", "specialInstructions", "discountAmount",
           "appliedDiscount"}),
        Create("order_status_logs", Dated \cup {"orderId", "previousStatus",
           "newStatus", "notes", "changedById", "ipAddress", "metadata",
           "occurredAt"})  >>

OrdersIndexes ==
    On("user_addresses", {"userId", "isDefault", "latitude", "longitude"})
    \cup On("carts", {"userId", "branchId"})
    \cup On("cart_items", {"cartId"})
    \cup On("orders", {"orderNumber", "userId", "branchId", "status",
                       "orderType", "paymentId", "createdAt"})
    \cup On("order_items", {"orderId"})
    \cup On("order_status_logs", {"orderId", "occurredAt"})

OrdersKeys ==
    From("user_addresses", [userId |-> "users"])
    \cup From("carts", [userId |-> "users", branchId |-> "branches",
                        deliveryAddressId |-> "user_addresses"])
    \cup From("cart_items", [cartId |-> "carts", itemId |-> "items",
                             bundleId |-> "bundles"])
    \cup From("orders", [userId |-> "users", branchId |-> "branches",
                         deliveryAddressId |-> "user_addresses",
                         zoneId |-> "zones", paymentId |-> "payments",
                         cancelledById |-> "users"])
    \cup From("order_items", [orderId |-> "orders"])
    \cup From("order_status_logs",
              [orderId |-> "orders", changedById |-> "users"])

OrdersDown ==
    <<  DropKeys(OrdersKeys), DropIndexes(OrdersIndexes),
        Drop("order_status_logs"), Drop("order_items"), Drop("orders"),
        Drop("cart_items"), Drop("carts"), Drop("user_addresses"),
        DropTypes({"address_type_enum", "order_status_enum",
                   "order_type_enum"})  >>

CreateOrdersCartAddresses ==
    [up |-> OrdersTables \o <<Indexes(OrdersIndexes), Keys(OrdersKeys)>>,
     down |-> OrdersDown]

AddIsDefaultExtraToIngredients ==
    [up |-> <<Add("ingredients", {"isDefaultExtra"}),
              Indexes(On("ingredients", {"isDefaultExtra"}))>>,
     down |-> <<DropIndexes(On("ingredients", {"isDefaultExtra"})),
                Cut("ingredients", {"isDefaultExtra"})>>]

\* Mutant: the way back is empty.
AddTagsForGood == [up |-> <<Add("bundles", {"tags"})>>, down |-> << >>]

AddTagsToBundles ==
    [up |-> <<Add("bundles", {"tags"})>>, down |-> <<Cut("bundles", {"tags"})>>]

ComponentsIndexes ==
    On("bundle_components", {"bundleId", "categoryId", "defaultItemId"})
    \cup On("bundle_component_items", {"componentId", "itemId"})

ComponentsKeys ==
    From("bundle_components", [bundleId |-> "bundles", categoryId |-> "categories",
                               defaultItemId |-> "items"])
    \cup From("bundle_component_items",
              [componentId |-> "bundle_components", itemId |-> "items"])

CreateBundleComponentsTables ==
    [up |->
     <<  Create("bundle_components", Dated \cup {"bundleId", "categoryId",
           "defaultItemId", "quantity", "sortOrder"}),
        Create("bundle_component_items", Dated \cup {"componentId", "itemId",
           "extraCost", "sortOrder"}),
        Indexes(ComponentsIndexes), Keys(ComponentsKeys)  >>,
     down |->
     <<  DropKeys(ComponentsKeys), DropIndexes(ComponentsIndexes),
        Drop("bundle_component_items"), Drop("bundle_components")  >>]

\* Mutant: the migration trusts that the junction table is long gone.
RemoveOldBundleFieldsOnly ==
    [up |-> <<CutIfExists("bundles", {"items", "numberOfItems"}),
              Rewrite("bundle items dropped")>>,
     down |-> <<Add("bundles", {"numberOfItems", "items"}), BundleItems,
                Indexes(BundleItemsIndexes), Keys(BundleItemsKeys)>>]

\* The contents go with the column; the way back brings the junction table
\* too, which UpdateBundleItemsExtras had dropped.
RemoveOldBundleFields ==
    [up |->
     <<  CutIfExists("bundles", {"items", "numberOfItems"}),
        Rewrite("bundle items dropped"), DropIfExists("bundle_items")  >>,
     down |->
     <<  Add("bundles", {"numberOfItems", "items"}),
        BundleItems, Indexes(BundleItemsIndexes), Keys(BundleItemsKeys)  >>]

JunctionIndexes ==
    On("user_discounts", {"createdAt", "updatedAt"})
    \cup On("item_discounts", {"createdAt", "updatedAt"})

AddTimestampsToDiscountJunctionTables ==
    [up |->
     <<  Add("user_discounts", {"createdAt", "updatedAt"}),
        Add("item_discounts", {"createdAt", "updatedAt"}),
        Indexes(JunctionIndexes)  >>,
     down |->
     <<  DropIndexes(JunctionIndexes),
        Cut("user_discounts", {"createdAt", "updatedAt"}),
        Cut("item_discounts", {"createdAt", "updatedAt"})  >>]

FcmIndexes ==
    On("admin_fcm_tokens", {"userId", "token"})
    \cup On("admin_notifications", {"type", "isRead", "targetUserId", "createdAt"})

FcmKeys ==
    From("admin_fcm_tokens", [userId |-> "users"])
    \cup From("admin_notifications", [targetUserId |-> "users"])
    \cup From("admin_notification_preferences", [userId |-> "users"])

CreateFcmNotifications ==
    [up |->
     <<  Types({"notification_type_enum"}),
        Create("admin_fcm_tokens", Dated \cup {"userId", "token", "deviceId",
           "deviceType", "userAgent", "isActive", "lastUsedAt"}),
        Create("admin_notifications", Dated \cup {"type", "title", "message",
           "data", "isRead", "targetUserId", "readAt"}),
        Create("admin_notification_preferences", Dated \cup {"userId",
           "orderNew", "orderStatusChanged", "userRegistered",
           "paymentSuccess", "paymentFailed", "paymentRefunded",
           "pushEnabled"}),
        Indexes(FcmIndexes), Keys(FcmKeys)  >>,
     down |->
     <<  DropKeys(FcmKeys), DropIndexes(FcmIndexes),
        Drop("admin_notification_preferences"), Drop("admin_notifications"),
        Drop("admin_fcm_tokens"), DropTypes({"notification_type_enum"})  >>]

migrations ==
    <<  CreateUsersAndRelatedTables, CreateBranchesAndZones,
        AlterZonePolygonToGeometry, CreateMenuModule, CreateBundles,
        AddQuantityTypeToIngredientsAndExtras, UpdateItemPricingAndFields,
        UpdateBundleItemsExtras, CreateDiscountsModule, RemoveVariants,
        AddSoftDeleteColumns, CreateBranchMenuOverrides, MoveDeliveryFeeToZone,
        CreatePaymentsModule, CreateRbacSystem,
        AddTimestampsToDiscountUsageLogs, CreateOrdersCartAddresses,
        AddIsDefaultExtraToIngredients, AddTagsToBundles,
        CreateBundleComponentsTables, RemoveOldBundleFields,
        AddTimestampsToDiscountJunctionTables, CreateFcmNotifications  >>

Newest == Len(migrations)

\* What the properties need of the constants.
MigrationsAssumption ==
    /\ Releases \subseteq 1..Newest
    /\ IsFiniteSet(Zones) /\ Zones # {}
    /\ Fees \subseteq Nat /\ 0 \in Fees
    /\ Prices \subseteq Nat /\ 0 \in Prices
    /\ \A e \in Entries : DOMAIN e = {"item", "quantity"} /\ e.quantity \in Nat

-----------------------------------------------------------------------------
(* TypeORM's migration:run and migration:revert.                           *)

Empty ==
    [tables |-> << >>, keys |-> {}, indexes |-> {}, types |-> {},
     failed |-> FALSE, branchFee |-> {}, zoneFee |-> [z \in Zones |-> 0],
     price |-> NoPrice, contents |-> {}]

Init == db = Empty /\ version = 0

\* The migrations of a release that are pending, in turn.
Migrated(d, from, to) ==
    FoldLeft(LAMBDA e, m : After(e, m.up), d, SubSeq(migrations, from + 1, to))

AfterRun(to) == Migrated(db, version, to)
AfterRevert == After(db, migrations[version].down)

Run(release) ==
    /\ version < release
    /\ ~AfterRun(release).failed
    /\ db' = AfterRun(release)
    /\ version' = release

Revert ==
    /\ version > 0
    /\ ~AfterRevert.failed
    /\ db' = AfterRevert
    /\ version' = version - 1

\* The program between migrations: it changes the rows there are.
EditFee ==
    /\ \/ /\ Has(db, "zones", {"deliveryFee"})
          /\ \E f \in [Zones -> Fees] : db' = [db EXCEPT !.zoneFee = f]
       \/ /\ Has(db, "branches", {"deliveryFee"})
          /\ \E f \in Fees : db' = [db EXCEPT !.branchFee = {f}]
    /\ UNCHANGED version

EditPrice ==
    /\ \E v \in Prices, object \in BOOLEAN :
         /\ \/ Has(db, "items", {"pricing"})
            \/ Has(db, "items", {"price"}) /\ ~object /\ Cents(v) = v
         /\ db' = [db EXCEPT !.price = [object |-> object, value |-> v]]
    /\ UNCHANGED version

\* Bound: two entries.
EditContents ==
    /\ \E contents \in SUBSET Entries :
         /\ Cardinality(contents) <= 2
         /\ \/ Has(db, "bundles", {"items"})
            \/ Has(db, "bundle_items", {}) /\ Listable(contents) /\ Singly(contents) = contents
         /\ db' = [db EXCEPT !.contents = contents]
    /\ UNCHANGED version

Next ==
    \/ \E release \in Releases : Run(release)
    \/ Revert
    \/ EditFee \/ EditPrice \/ EditContents

Spec == Init /\ [][Next]_vars

-----------------------------------------------------------------------------
(* Properties.                                                             *)

\* From every schema that releases and reverts can leave behind, every later
\* release can be migrated to.
RunSucceeds ==
    \A release \in Releases : version < release => ~AfterRun(release).failed

SchemaOf(d) == <<d.tables, d.keys, d.indexes, d.types>>
Straight == Migrated(Empty, 0, Newest)

\* Whatever releases and reverts came before, the newest version has the
\* schema that it has on an empty database, in which each entity finds its
\* table and its columns.
NewestIsCanonical ==
    version = Newest =>
        /\ SchemaOf(db) = SchemaOf(Straight)
        /\ \A e \in Entities : Has(db, e.table, e.columns)

\* What a delivery to zone z costs.
FeeIn(d, z) ==
    IF Has(d, "zones", {"deliveryFee"}) THEN {d.zoneFee[z]}
    ELSE IF d.branchFee = {} THEN {0} ELSE d.branchFee

Items(d) == {e.item : e \in d.contents}

\* As long as their tables stay, migrations keep a price that is a number, a
\* revert to the cent, the fee of a branch whose zones agree, and what is in a
\* bundle; but RemoveOldBundleFields drops that, and the revert of
\* UpdateBundleItemsExtras keeps the items and loses their quantities.
RowsKept ==
    version' # version =>
        /\ Has(db', "items", {}) /\ ~db.price.object =>
             /\ ~db'.price.object
             /\ version' > version => db'.price = db.price
             /\ 2 * (db'.price.value - db.price.value) \in -Cent..Cent
        /\ Has(db', "zones", {})
           /\ (\A y, z \in Zones : FeeIn(db, y) = FeeIn(db, z)) =>
             \A z \in Zones : FeeIn(db', z) = FeeIn(db, z)
        /\ Has(db', "bundles", {}) /\ ~(version < 21 /\ version' >= 21) =>
             /\ Items(db') = Items(db)
             /\ version' > version \/ version' >= 8 => db'.contents = db.contents
RowsSurvive == [][RowsKept]_vars
=============================================================================
