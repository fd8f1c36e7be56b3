SPECIFICATION Spec
CONSTANTS
    MaxSafe = 2
    MaxSet = 2
    AddedTypes = {"string", "int32", "fixed64", "Ad"}
    Words = {"averageScore", "contextKeys", "costUsd", "creditCard", "creditCardCvv",
             "creditCardExpirationMonth", "creditCardExpirationYear", "creditCardNumber",
             "currencyCode", "currencyCodes", "orderId", "priceUsd", "productId",
             "productIds", "productReviews", "redirectUrl", "shippingAddress",
             "shippingCost", "shippingTrackingId", "streetAddress", "toCode",
             "trackingId", "transactionId", "userCurrency", "userId", "zipCode"}
INVARIANTS
    ArrivesAsFromPartial
    ThrowHasCause
    NothingUnsafeDelivered
    JsonReadBack
