------------------------------ MODULE MCBilling -------------------------------
(* Billing with a year of two months, the first of which is short, and        *)
(* two invoices: sends with a monthly plan, and a plan for two months.       *)
EXTENDS Billing, TLC

CONSTANTS i1, i2

MCMonthStarts == <<0, 1, 3>>
MCOrder == (i1 :> <<Sends(1), Vault("small", 1)>>) @@ (i2 :> <<Vault("large", 2)>>)
===============================================================================
