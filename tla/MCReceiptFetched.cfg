SPECIFICATION DeliverySpec
CONSTANTS
    Owner = "o"
    Executors = {"e1", "e2"}
    Jobs = {"j1"}
    Nobody = Nobody
    Suitable <- Suits
    Region <- Regions
    Prices = {0, 3}
    BidPrices <- Offers
    Policies <- Ways
    PeerRecords <- Records
    Resolvable = {"x"}
    Setups <- AsWritten
    MaxBids = 2
    MaxInterests = 1
    MaxActions = 1
    MaxExecuting = 1
    MaxDeliveries = 1
CHECK_DEADLOCK FALSE
PROPERTIES
    ReceiptFetched
