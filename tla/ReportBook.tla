----------------------------- MODULE ReportBook -----------------------------
(***************************************************************************)
(* The ledger of institutional holdings next to the books of the account:  *)
(* FilingLedger with names of its own for the days and the sessions, so     *)
(* that the proofs of both and MCServices speak of the same instance.      *)
(***************************************************************************)
EXTENDS LedgerBook

CONSTANTS Groups, Filable, MarketDays, LastFilingDay, MaxFilings

VARIABLES day, published, covered, filings, effective

reports == <<day, published, covered, filings, effective>>

Filings == INSTANCE FilingLedger WITH today <- day, LastDay <- LastFilingDay, Sessions <- MarketDays

=============================================================================
