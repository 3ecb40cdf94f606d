------------------------------- MODULE Schema -------------------------------
(***************************************************************************)
(* The tables and columns that the entities read and write.  TypeORM names *)
(* every one of them in its queries (synchronize is off), so that a column *)
(* the database does not have breaks every query of its entity.            *)
(***************************************************************************)

Entity(table, columns) == [table |-> table, columns |-> columns]

BaseEntity == {"id", "createdAt", "updatedAt", "deletedAt"}

AccessToken ==
    Entity("access_tokens", {"id", "createdAt", "deletedAt", "identifier",
      "accessToken", "refreshToken", "userId", "deviceIP", "deviceName",
      "deviceLocation", "expiration", "refreshExpiration"})

AdminFcmToken ==
    Entity("admin_fcm_tokens", BaseEntity \cup {"userId", "token", "deviceId",
      "deviceType", "userAgent", "isActive", "lastUsedAt"})

AdminNotificationPreferences ==
    Entity("admin_notification_preferences", BaseEntity \cup {"userId",
      "orderNew", "orderStatusChanged", "userRegistered", "paymentSuccess",
      "paymentFailed", "paymentRefunded", "pushEnabled"})

AdminNotification ==
    Entity("admin_notifications", BaseEntity \cup {"type", "title", "message",
      "data", "isRead", "targetUserId", "readAt"})

BranchBundleOverride ==
    Entity("branch_bundle_overrides", BaseEntity \cup {"branchId", "bundleId",
      "isAvailable", "reason", "createdById", "updatedById"})

BranchCategoryOverride ==
    Entity("branch_category_overrides", BaseEntity \cup {"branchId",
      "categoryId", "isAvailable", "reason", "createdById", "updatedById"})

BranchItemOverride ==
    Entity("branch_item_overrides", BaseEntity \cup {"branchId", "itemId",
      "isAvailable", "reason", "createdById", "updatedById"})

Branch ==
    Entity("branches", BaseEntity \cup {"name", "address", "latitude",
      "longitude", "phone", "email", "isActive", "isOpen", "openingHours",
      "closingHours", "estimatedDeliveryTime", "createdById", "updatedById"})

BundleComponentItem ==
    Entity("bundle_component_items", BaseEntity \cup {"componentId", "itemId",
      "extraCost", "sortOrder"})

BundleComponent ==
    Entity("bundle_components", BaseEntity \cup {"bundleId", "categoryId",
      "defaultItemId", "quantity", "sortOrder"})

Bundle ==
    Entity("bundles", BaseEntity \cup {"name", "description", "image",
      "categoryId", "price", "status", "extras", "tags", "createdBy",
      "updatedBy"})

CartItem ==
    Entity("cart_items", BaseEntity \cup {"cartId", "itemType", "itemId",
      "bundleId", "quantity", "unitPrice", "totalPrice", "selectedVariant",
      "customizations", "extras", "specialInstructions", "discountAmount",
      "appliedDiscountId"})

Cart ==
    Entity("carts", BaseEntity \cup {"userId", "branchId", "orderType",
      "deliveryAddressId", "scheduledPickupTime", "specialInstructions",
      "subtotal", "discountAmount", "deliveryFee", "tax", "total",
      "appliedDiscounts", "lastValidatedAt", "validationErrors"})

Category ==
    Entity("categories", BaseEntity \cup {"name", "description", "image",
      "isActive", "sortOrder", "createdBy", "updatedBy"})

DiscountUsageLog ==
    Entity("discount_usage_logs", BaseEntity \cup {"discountId", "userId",
      "orderId", "itemId", "discountAmount", "usedAt"})

Discount ==
    Entity("discounts", BaseEntity \cup {"code", "name", "description",
      "type", "targetType", "value", "buyQuantity", "getQuantity",
      "freeItemId", "minimumPurchase", "maxUsageTotal", "maxUsagePerUser",
      "currentUsageCount", "startDate", "endDate", "status", "isActive",
      "createdBy", "updatedBy"})

IngredientCategory ==
    Entity("ingredient_categories", BaseEntity \cup {"name", "description",
      "isActive", "sortOrder", "createdBy", "updatedBy"})

Ingredient ==
    Entity("ingredients", BaseEntity \cup {"name", "quantity", "quantityType",
      "isOptional", "stockPercentage", "isActive", "isDefaultExtra",
      "categoryId", "createdBy", "updatedBy"})

ItemDiscount ==
    Entity("item_discounts", {"itemId", "discountId", "assignedAt",
      "assignedBy", "createdAt", "updatedAt", "deletedAt"})

Item ==
    Entity("items", BaseEntity \cup {"name", "description", "image",
      "pricing", "tags", "extras", "status", "sortOrder", "categoryId",
      "ingredientsWithQuantity", "createdBy", "updatedBy"})

OrderItem ==
    Entity("order_items", BaseEntity \cup {"orderId", "itemType",
      "originalItemId", "name", "description", "image", "quantity",
      "unitPrice", "totalPrice", "selectedVariant", "customizations",
      "extras", "specialInstructions", "discountAmount", "appliedDiscount"})

OrderStatusLog ==
    Entity("order_status_logs", BaseEntity \cup {"orderId", "previousStatus",
      "newStatus", "notes", "changedById", "ipAddress", "metadata",
      "occurredAt"})

Order ==
    Entity("orders", BaseEntity \cup {"orderNumber", "userId", "branchId",
      "orderType", "status", "deliveryAddressId", "deliveryAddressSnapshot",
      "zoneId", "scheduledPickupTime", "actualPickupTime", "subtotal",
      "discountAmount", "deliveryFee", "tax", "total", "currency",
      "appliedDiscounts", "paymentId", "specialInstructions",
      "estimatedPrepTime", "estimatedDeliveryTime", "confirmedAt",
      "preparingAt", "readyAt", "outForDeliveryAt", "completedAt",
      "cancelledAt", "cancellationReason", "cancelledById", "metadata",
      "ipAddress", "userAgent"})

PaymentMethod ==
    Entity("payment_methods", BaseEntity \cup {"userId", "paymobToken",
      "cardLastFourDigits", "cardBrand", "expiryMonth", "expiryYear",
      "cardHolderName", "isDefault", "isActive", "nickname"})

PaymentTransactionLog ==
    Entity("payment_transaction_logs", BaseEntity \cup {"paymentId",
      "eventType", "previousStatus", "newStatus", "eventData", "notes",
      "ipAddress", "occurredAt"})

Payment ==
    Entity("payments", BaseEntity \cup {"transactionId", "paymobOrderId",
      "merchantOrderId", "amount", "currency", "paymentType", "status",
      "userId", "paymentMethodId", "paymobTransactionId", "paymobIframeUrl",
      "paymobPaymentKey", "paymobResponse", "cashReferenceNumber",
      "cardLastFourDigits", "cardBrand", "description", "metadata",
      "errorMessage", "errorCode", "refundedAmount", "isRefundable", "paidAt",
      "failedAt", "refundedAt", "ipAddress", "userAgent"})

Refund ==
    Entity("refunds", BaseEntity \cup {"paymentId", "refundId", "amount",
      "refundType", "status", "reason", "adminNotes", "requestedById",
      "requestedAt", "approvedById", "approvedAt", "paymobRefundId",
      "paymobResponse", "errorMessage", "processedAt", "completedAt",
      "isAutomatic"})

ResetPasswordToken ==
    Entity("reset_password_tokens", {"email", "reset_token", "expires_at"})

Role ==
    Entity("roles", BaseEntity \cup {"name", "displayName", "description",
      "permissions", "isSystemRole", "isActive"})

UserAddress ==
    Entity("user_addresses", BaseEntity \cup {"userId", "label", "type",
      "addressLine1", "addressLine2", "city", "area", "postalCode",
      "latitude", "longitude", "deliveryInstructions", "contactPhone",
      "isDefault", "isActive", "cachedBranchId", "cachedDeliveryFee",
      "lastValidatedAt"})

UserDiscount ==
    Entity("user_discounts", {"userId", "discountId", "usageCount",
      "lastUsedAt", "assignedAt", "assignedBy", "createdAt", "updatedAt",
      "deletedAt"})

User ==
    Entity("users", {"id", "fullName", "email", "password",
      "changePasswordTime", "phoneNumber", "phoneNumberCountryCode",
      "userLocale", "countryCode", "role", "confirmAccount", "status",
      "avatar", "birthday", "joined", "gender", "provider",
      "verificationCode", "verificationCodeExpiresAt", "createdAt",
      "updatedAt", "deletedAt", "lastLogin", "lastLogout", "adminRoleId"})

Zone ==
    Entity("zones", BaseEntity \cup {"name", "branchId", "polygon",
      "centerLatitude", "centerLongitude", "radiusKm", "isActive", "priority",
      "deliveryFee", "createdById", "updatedById"})

UploadMedia ==
    Entity("upload_media", {"id", "filename", "path", "url", "mimetype",
      "size", "entityType", "entityId", "createdById", "updatedById",
      "createdAt", "updatedAt", "deletedAt"})

Entities ==
    {AccessToken, AdminFcmToken, AdminNotificationPreferences,
     AdminNotification, BranchBundleOverride, BranchCategoryOverride,
     BranchItemOverride, Branch, BundleComponentItem, BundleComponent,
     Bundle, CartItem, Cart, Category, DiscountUsageLog, Discount,
     IngredientCategory, Ingredient, ItemDiscount, Item, OrderItem,
     OrderStatusLog, Order, PaymentMethod, PaymentTransactionLog, Payment,
     Refund, ResetPasswordToken, Role, UserAddress, UserDiscount, User, Zone,
     UploadMedia}
=============================================================================
