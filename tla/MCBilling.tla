------------------------------ MODULE MCBilling ------------------------------
(* Small instances of Billing: both providers use the same event id, and a    *)
(* replica without PayPal's secret comes and goes.                            *)
EXTENDS Billing

CONSTANTS stripe, paypal

MCProviders == {stripe, paypal}
MCConfigurations == {{stripe}, {stripe, paypal}}
=============================================================================
