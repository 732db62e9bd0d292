\* Every replica has Stripe's secret, one was started without PayPal's.
CONSTANTS
    None = None
    stripe = stripe
    paypal = paypal
    Providers <- MCProviders
    Configurations <- MCConfigurations
    EventIds = {e1}
    Digests = {h1, h2}
    Deliveries = {d1, d2}
SPECIFICATION FairSpec
INVARIANTS
    OneFirstSight
PROPERTIES
    LedgerImplemented
    RedeliveryEnds
