---------------------------- MODULE MobileProtos ----------------------------
(***************************************************************************)
(* The messages and services of react-native-app/protos/demo.ts, the       *)
(* mobile app's own copy of the generated code (ts-proto v1.181).  It was  *)
(* generated before the product review service existed.                    *)
(***************************************************************************)
EXTENDS Codec

CartItem == [productId |-> One(1, "string"), quantity |-> One(2, "int32")]
AddItemRequest == [userId |-> One(1, "string"), item |-> One(2, "CartItem")]
EmptyCartRequest == [userId |-> One(1, "string")]
GetCartRequest == [userId |-> One(1, "string")]
Cart == [userId |-> One(1, "string"), items |-> Many(2, "CartItem")]
Empty == NoFields
ListRecommendationsRequest == [userId |-> One(1, "string"), productIds |-> Many(2, "string")]
ListRecommendationsResponse == [productIds |-> Many(1, "string")]
Product ==
    [id |-> One(1, "string"), name |-> One(2, "string"), description |-> One(3, "string"),
     picture |-> One(4, "string"), priceUsd |-> One(5, "Money"), categories |-> Many(6, "string")]
ListProductsResponse == [products |-> Many(1, "Product")]
GetProductRequest == [id |-> One(1, "string")]
SearchProductsRequest == [query |-> One(1, "string")]
SearchProductsResponse == [results |-> Many(1, "Product")]
GetQuoteRequest == [address |-> One(1, "Address"), items |-> Many(2, "CartItem")]
GetQuoteResponse == [costUsd |-> One(1, "Money")]
ShipOrderRequest == [address |-> One(1, "Address"), items |-> Many(2, "CartItem")]
ShipOrderResponse == [trackingId |-> One(1, "string")]
Address ==
    [streetAddress |-> One(1, "string"), city |-> One(2, "string"), state |-> One(3, "string"),
     country |-> One(4, "string"), zipCode |-> One(5, "string")]
Money == [currencyCode |-> One(1, "string"), units |-> One(2, "int64"), nanos |-> One(3, "int32")]
GetSupportedCurrenciesResponse == [currencyCodes |-> Many(1, "string")]
CurrencyConversionRequest == [from |-> One(1, "Money"), toCode |-> One(2, "string")]
CreditCardInfo ==
    [creditCardNumber |-> One(1, "string"), creditCardCvv |-> One(2, "int32"),
     creditCardExpirationYear |-> One(3, "int32"), creditCardExpirationMonth |-> One(4, "int32")]
ChargeRequest == [amount |-> One(1, "Money"), creditCard |-> One(2, "CreditCardInfo")]
ChargeResponse == [transactionId |-> One(1, "string")]
OrderItem == [item |-> One(1, "CartItem"), cost |-> One(2, "Money")]
OrderResult ==
    [orderId |-> One(1, "string"), shippingTrackingId |-> One(2, "string"),
     shippingCost |-> One(3, "Money"), shippingAddress |-> One(4, "Address"),
     items |-> Many(5, "OrderItem")]
SendOrderConfirmationRequest == [email |-> One(1, "string"), order |-> One(2, "OrderResult")]
PlaceOrderRequest ==
    [userId |-> One(1, "string"), userCurrency |-> One(2, "string"), address |-> One(3, "Address"),
     email |-> One(5, "string"), creditCard |-> One(6, "CreditCardInfo")]
PlaceOrderResponse == [order |-> One(1, "OrderResult")]
AdRequest == [contextKeys |-> Many(1, "string")]
AdResponse == [ads |-> Many(1, "Ad")]
Ad == [redirectUrl |-> One(1, "string"), text |-> One(2, "string")]
Flag == [name |-> One(1, "string"), description |-> One(2, "string"), enabled |-> One(3, "bool")]
GetFlagRequest == [name |-> One(1, "string")]
GetFlagResponse == [flag |-> One(1, "Flag")]
CreateFlagRequest ==
    [name |-> One(1, "string"), description |-> One(2, "string"), enabled |-> One(3, "bool")]
CreateFlagResponse == [flag |-> One(1, "Flag")]
UpdateFlagRequest == [name |-> One(1, "string"), enabled |-> One(2, "bool")]
UpdateFlagResponse == NoFields
ListFlagsRequest == NoFields
ListFlagsResponse == [flag |-> Many(1, "Flag")]
DeleteFlagRequest == [name |-> One(1, "string")]
DeleteFlagResponse == NoFields

\* The messages by name.
Messages ==
    [CartItem |-> CartItem, AddItemRequest |-> AddItemRequest,
     EmptyCartRequest |-> EmptyCartRequest, GetCartRequest |-> GetCartRequest, Cart |-> Cart,
     Empty |-> Empty, ListRecommendationsRequest |-> ListRecommendationsRequest,
     ListRecommendationsResponse |-> ListRecommendationsResponse, Product |-> Product,
     ListProductsResponse |-> ListProductsResponse, GetProductRequest |-> GetProductRequest,
     SearchProductsRequest |-> SearchProductsRequest,
     SearchProductsResponse |-> SearchProductsResponse, GetQuoteRequest |-> GetQuoteRequest,
     GetQuoteResponse |-> GetQuoteResponse, ShipOrderRequest |-> ShipOrderRequest,
     ShipOrderResponse |-> ShipOrderResponse, Address |-> Address, Money |-> Money,
     GetSupportedCurrenciesResponse |-> GetSupportedCurrenciesResponse,
     CurrencyConversionRequest |-> CurrencyConversionRequest, CreditCardInfo |-> CreditCardInfo,
     ChargeRequest |-> ChargeRequest, ChargeResponse |-> ChargeResponse, OrderItem |-> OrderItem,
     OrderResult |-> OrderResult, SendOrderConfirmationRequest |-> SendOrderConfirmationRequest,
     PlaceOrderRequest |-> PlaceOrderRequest, PlaceOrderResponse |-> PlaceOrderResponse,
     AdRequest |-> AdRequest, AdResponse |-> AdResponse, Ad |-> Ad, Flag |-> Flag,
     GetFlagRequest |-> GetFlagRequest, GetFlagResponse |-> GetFlagResponse,
     CreateFlagRequest |-> CreateFlagRequest, CreateFlagResponse |-> CreateFlagResponse,
     UpdateFlagRequest |-> UpdateFlagRequest, UpdateFlagResponse |-> UpdateFlagResponse,
     ListFlagsRequest |-> ListFlagsRequest, ListFlagsResponse |-> ListFlagsResponse,
     DeleteFlagRequest |-> DeleteFlagRequest, DeleteFlagResponse |-> DeleteFlagResponse]

-----------------------------------------------------------------------------
(* The services: the request and the response type of every method.       *)

CartService ==
    [addItem |-> Unary("AddItemRequest", "Empty"), getCart |-> Unary("GetCartRequest", "Cart"),
     emptyCart |-> Unary("EmptyCartRequest", "Empty")]
RecommendationService ==
    [listRecommendations |-> Unary("ListRecommendationsRequest", "ListRecommendationsResponse")]
ProductCatalogService ==
    [listProducts |-> Unary("Empty", "ListProductsResponse"),
     getProduct |-> Unary("GetProductRequest", "Product"),
     searchProducts |-> Unary("SearchProductsRequest", "SearchProductsResponse")]
ShippingService ==
    [getQuote |-> Unary("GetQuoteRequest", "GetQuoteResponse"),
     shipOrder |-> Unary("ShipOrderRequest", "ShipOrderResponse")]
CurrencyService ==
    [getSupportedCurrencies |-> Unary("Empty", "GetSupportedCurrenciesResponse"),
     convert |-> Unary("CurrencyConversionRequest", "Money")]
PaymentService == [charge |-> Unary("ChargeRequest", "ChargeResponse")]
EmailService == [sendOrderConfirmation |-> Unary("SendOrderConfirmationRequest", "Empty")]
CheckoutService == [placeOrder |-> Unary("PlaceOrderRequest", "PlaceOrderResponse")]
AdService == [getAds |-> Unary("AdRequest", "AdResponse")]
FeatureFlagService ==
    [getFlag |-> Unary("GetFlagRequest", "GetFlagResponse"),
     createFlag |-> Unary("CreateFlagRequest", "CreateFlagResponse"),
     updateFlag |-> Unary("UpdateFlagRequest", "UpdateFlagResponse"),
     listFlags |-> Unary("ListFlagsRequest", "ListFlagsResponse"),
     deleteFlag |-> Unary("DeleteFlagRequest", "DeleteFlagResponse")]

Services ==
    {CartService,
     RecommendationService,
     ProductCatalogService,
     ShippingService,
     CurrencyService,
     PaymentService,
     EmailService,
     CheckoutService,
     AdService,
     FeatureFlagService}
=============================================================================
