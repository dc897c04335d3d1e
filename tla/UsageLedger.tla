---------------------------- MODULE UsageLedger ----------------------------
(***************************************************************************)
(* The daily provider budget: what reserve_usage promises to the           *)
(* translation workers that share it.                                      *)
(*                                                                         *)
(* A worker reserves the requests and source characters of a call in       *)
(* usage_daily, in one transaction, and calls the provider afterwards.  It *)
(* may die in between, which loses the reservation and never the limit.    *)
(*                                                                         *)
(* reserved counts the rows of usage_daily; called is a ghost variable:    *)
(* what has really crossed the provider boundary.                          *)
(***************************************************************************)
EXTENDS Naturals

CONSTANTS
  Days,         \* local dates, Asia/Shanghai
  Providers,    \* names of translation providers
  Lengths,      \* source characters a request may have
  MaxRequests,  \* limits.max_background_provider_requests_per_day
  MaxChars      \* limits.max_background_source_chars_per_day

ASSUME LedgerAssumption ==
  Lengths \subseteq Nat /\ MaxRequests \in Nat \ {0} /\ MaxChars \in Nat \ {0}

VARIABLES
  reserved,  \* reserved[<<d, p>>]: requests and characters in usage_daily
  called     \* called[<<d, p>>]: requests and characters sent under that day's row

ledgerVars == <<reserved, called>>

Amount == [requests : Nat, chars : Nat]

Zero == [requests |-> 0, chars |-> 0]
Plus(amount, chars) == [requests |-> amount.requests + 1, chars |-> amount.chars + chars]

LedgerInit ==
  /\ reserved = [key \in Days \X Providers |-> Zero]
  /\ called   = [key \in Days \X Providers |-> Zero]

\* Both ceilings are checked before either counter moves.
Fits(amount, chars) ==
  /\ amount.requests < MaxRequests
  /\ amount.chars + chars <= MaxChars

\* reserve_usage for one request.
Reserve(d, p, chars) ==
  /\ Fits(reserved[<<d, p>>], chars)
  /\ reserved' = [reserved EXCEPT ![<<d, p>>] = Plus(@, chars)]
  /\ UNCHANGED called

\* A provider call uses up a reservation of the day it was made on.
Call(d, p, chars) ==
  /\ called[<<d, p>>].requests < reserved[<<d, p>>].requests
  /\ called[<<d, p>>].chars + chars <= reserved[<<d, p>>].chars
  /\ called' = [called EXCEPT ![<<d, p>>] = Plus(@, chars)]
  /\ UNCHANGED reserved

LedgerNext == \E d \in Days, p \in Providers, chars \in Lengths :
          Reserve(d, p, chars) \/ Call(d, p, chars)

LedgerSpec == LedgerInit /\ [][LedgerNext]_ledgerVars

-----------------------------------------------------------------------------

LedgerTypeOK ==
  /\ reserved \in [Days \X Providers -> Amount]
  /\ called \in [Days \X Providers -> Amount]

\* Neither the requests nor the characters sent to a provider on a day ever
\* exceed its ceilings, whatever workers share the ledger (reserve_usage is
\* one transaction and precedes the call).
WithinCeiling ==
  \A key \in Days \X Providers :
    /\ called[key].requests <= reserved[key].requests
    /\ called[key].chars <= reserved[key].chars
    /\ reserved[key].requests <= MaxRequests
    /\ reserved[key].chars <= MaxChars

\* A reservation is never given back: not by a failing call, not by a restart.
NeverRefunded ==
  [][\A key \in Days \X Providers :
       /\ reserved'[key].requests >= reserved[key].requests
       /\ reserved'[key].chars >= reserved[key].chars]_ledgerVars
=============================================================================
