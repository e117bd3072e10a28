--------------------------- MODULE PaymentSearch ----------------------------
(***************************************************************************)
(* How a payment quote finds an input that pays an invoice: what the payer *)
(* can fund and the domain of inputs (payment-validation.ts), the          *)
(* strategies that take part (route-selection.ts), the search over their   *)
(* answers (payment-search.ts) and the RPC reads the quote is charged for  *)
(* (payment-service.ts).                                                   *)
(*                                                                         *)
(* A stage asks the eligible strategies for quotes of one input.  Nothing  *)
(* is known of what they answer: an input may be sufficient though a       *)
(* greater one was not.  The limits are those of the code.                 *)
(***************************************************************************)
EXTENDS Integers

CONSTANTS Invoices,     \* records: status, expired, due, usdc (whether the token paid is),
                        \* decimals (of the token), maximum, balance
          GrossLimit,   \* 2^160, which an input in a curve's units stays below
          Scale         \* a raw unit in those units, by the token's decimals

ASSUME SearchAssumption ==
  /\ GrossLimit \in Nat \ {0}
  /\ \A i \in Invoices :
       /\ i.due \in Nat \ {0} /\ i.decimals \in 0 .. 18
       /\ i.maximum \in Nat /\ i.balance \in Nat
       /\ Scale[i.decimals] \in Nat \ {0}

VARIABLES
  invoice,        \* the invoice asked for, with what the request and the payer offer
  inspected,      \* strategies inspected
  count,          \* eligible strategies, which every stage asks
  phase,          \* "fund", "inspect", "expand", "refine", "recheck", "done"
  outcome,        \* stopReason, or the error the search or the service ends with
  amount, cursor, selected,
  expansions, refinements,
  members, batches,      \* work.logicalMembers; work.nativeBatches + work.cacheHitBatches
  passed, failed         \* the inputs that were found sufficient, and those that were not

work == <<members, batches>>
tried == <<passed, failed>>
searchVars == <<invoice, inspected, count, phase, outcome, amount, cursor, selected,
          expansions, refinements, work, tried>>

MaxExpansions == 8
MaxRefinements == 8
MaxStages == 16
MaxQuoteCalls == 128
BatchSize == 8
MaxEligible == 32
Fees == {100, 500, 1000}    \* of a strategy, in parts per million

NoInput == 0    \* no input is selected: inputs are at least 2

AtMost(a, b) == IF a < b THEN a ELSE b
AtLeast(a, b) == IF a < b THEN b ELSE a
Batches(calls) == (calls + BatchSize - 1) \div BatchSize

-----------------------------------------------------------------------------
(* The inputs worth trying: what the payer allows and owns and a curve can *)
(* take; the first is the amount due at par, rounded up.                   *)

\* A plausible fault: the curve's range is left to the contract to refuse.
Bound_AnyInput(i) == AtMost(i.maximum, i.balance)
Bound(i) == AtMost(AtMost(i.maximum, i.balance), (GrossLimit - 1) \div Scale[i.decimals])

Seed(i) ==
  AtMost(AtLeast((i.due * 10 ^ i.decimals + 999999) \div 1000000, 2), Bound(i))

seed == Seed(invoice)
bound == Bound(invoice)

\* The fee is rounded up and must leave something of the input to trade.
FeeIn(gross, fee) == (gross * fee + 999999) \div 1000000

RangeSupported(input, fee) ==
  input * Scale[invoice.decimals] < GrossLimit /\ FeeIn(input, fee) < input

\* Strategies are accepted for an input by nothing else that depends on it.
AcceptedFees(input) == {f \in Fees : RangeSupported(input, f)}

SearchInit ==
  /\ invoice \in Invoices
  /\ inspected = 0 /\ count = 0
  /\ phase = "fund" /\ outcome = "none"
  /\ amount = NoInput /\ cursor = 1 /\ selected = NoInput
  /\ expansions = 0 /\ refinements = 0
  /\ members = 3 /\ batches = 1    \* the identity of the pinned block
  /\ passed = {} /\ failed = {}

-----------------------------------------------------------------------------
\* A plausible fault: rounding up lets the last stage exceed the quote calls.
StageCap_RoundsUp == AtMost(MaxStages, (MaxQuoteCalls + count - 1) \div count)
StageCap == AtMost(MaxStages, MaxQuoteCalls \div count)
ExpansionCap == AtMost(MaxExpansions, StageCap)
StagesUsed == expansions + refinements

\* Reads of n calls each in so many batches are charged before they are sent.
Charge(n, inBatches) ==
  /\ members' = members + n
  /\ batches' = batches + inBatches

Exceeded == members > 246 \/ batches > 44

Ends(how) == phase' = "recheck" /\ outcome' = how

\* The invoice, the token, the balance and the allowance, one call each.
ContextCalls == IF invoice.usdc THEN 7 ELSE 8

\* Why an invoice cannot be paid as asked, in the order it is looked for.
Refusal ==
  CASE invoice.status # "unpaid" -> "INVOICE_SETTLED"
    [] invoice.expired -> "INVOICE_EXPIRED"
    [] invoice.usdc /\ invoice.maximum < invoice.due -> "PAYMENT_MAX_INPUT_INSUFFICIENT"
    [] invoice.usdc /\ invoice.balance < invoice.due -> "PAYMENT_BALANCE_INSUFFICIENT"
    [] ~invoice.usdc /\ bound < 2 -> "PAYMENT_INPUT_TOO_SMALL"
    [] OTHER -> "none"

\* A refusal is kept until the reads at the end confirm what it was found from.
Fund ==
  /\ phase = "fund"
  /\ Charge(ContextCalls, 1)
  /\ IF Refusal # "none"
     THEN Ends(Refusal) /\ UNCHANGED amount
     ELSE IF invoice.usdc
     THEN Ends("direct") /\ amount' = invoice.due
     ELSE phase' = "inspect" /\ amount' = seed /\ UNCHANGED outcome
  /\ UNCHANGED <<invoice, inspected, count, cursor, selected, expansions, refinements, tried>>

\* Of the strategies accepted for the first input the 32 updated last are
\* inspected, by three calls each; those that can pay out are eligible.
Inspect ==
  /\ phase = "inspect"
  /\ \E accepted \in IF AcceptedFees(seed) = {} THEN {0} ELSE 0 .. MaxEligible + 1 :
       inspected' = AtMost(accepted, MaxEligible)
  /\ count' \in 0 .. inspected'
  /\ Charge(3 * inspected', Batches(3 * inspected'))
  /\ IF count' = 0
     THEN Ends("no_eligible_strategies")
     ELSE phase' = "expand" /\ UNCHANGED outcome
  /\ UNCHANGED <<invoice, amount, cursor, selected, expansions, refinements, tried>>

\* One stage at an input; quoted: whether any strategy quotes enough for it.
Stage(input, quoted) ==
  /\ Charge(count, Batches(count))
  /\ IF quoted
     THEN selected' = input /\ passed' = passed \cup {input} /\ UNCHANGED failed
     ELSE failed' = failed \cup {input} /\ UNCHANGED <<selected, passed>>

StageAllowed(input) == input \in 2 .. bound /\ StagesUsed < StageCap

\* Every stage prepares its quotes anew, which must be those of the first input.
SameStrategies(input) == AcceptedFees(input) = AcceptedFees(seed)

Barred(input) == ~StageAllowed(input) \/ ~SameStrategies(input)
BarredBy(input) ==
  IF ~StageAllowed(input) THEN "PAYMENT_SEARCH_BUDGET" ELSE "PAYMENT_ELIGIBLE_SET_CHANGED"

\* A plausible fault: the last expansion tries the doubled input, not the bound.
ExpansionInput_Doubles == amount

\* The last expansion tries the bound, however far away it is.
ExpansionInput == IF expansions = ExpansionCap - 1 THEN bound ELSE amount

Doubled(input) == IF input > bound \div 2 THEN bound ELSE 2 * input

Expand ==
  /\ phase = "expand"
  /\ IF Barred(ExpansionInput)
     THEN /\ Ends(BarredBy(ExpansionInput))
          /\ UNCHANGED <<amount, cursor, selected, expansions, work, tried>>
     ELSE \E quoted \in BOOLEAN :
       /\ Stage(ExpansionInput, quoted)
       /\ expansions' = expansions + 1
       /\ IF quoted
          THEN phase' = "refine" /\ UNCHANGED <<outcome, amount, cursor>>
          ELSE /\ cursor' = ExpansionInput
               /\ amount' = Doubled(ExpansionInput)
               /\ IF ExpansionInput = bound \/ expansions' = ExpansionCap
                  THEN Ends("search_exhausted")
                  ELSE UNCHANGED <<phase, outcome>>
  /\ UNCHANGED <<invoice, inspected, count, refinements>>

\* A plausible fault: the midpoint is taken as tried whatever it answered.
CursorAfter_Always(midpoint, quoted) == midpoint
CursorAfter(midpoint, quoted) == IF quoted THEN cursor ELSE midpoint

Refine ==
  /\ phase = "refine"
  /\ LET midpoint == (cursor + selected) \div 2 IN
     \/ /\ \/ selected - cursor <= 1 /\ Ends("adjacent_cursor")
           \/ /\ selected - cursor > 1
              /\ \/ StagesUsed >= StageCap /\ Ends("aggregate_limit")
                 \/ /\ StagesUsed < StageCap
                    /\ \/ refinements >= MaxRefinements /\ Ends("refinement_limit")
                       \* Two seconds before a deadline it is not worth the reads.
                       \/ refinements < MaxRefinements /\ Ends("refinement_skipped")
        /\ UNCHANGED <<cursor, selected, refinements, work, tried>>
     \/ /\ selected - cursor > 1 /\ StagesUsed < StageCap /\ refinements < MaxRefinements
        /\ IF Barred(midpoint)
           THEN /\ Ends(BarredBy(midpoint))
                /\ UNCHANGED <<cursor, selected, refinements, work, tried>>
           ELSE \E quoted \in BOOLEAN :
             /\ Stage(midpoint, quoted)
             /\ refinements' = refinements + 1
             /\ cursor' = CursorAfter(midpoint, quoted)
             /\ UNCHANGED <<phase, outcome>>
  /\ UNCHANGED <<invoice, inspected, count, amount, expansions>>

\* The context and the identity are read again at the end.
RecheckContext ==
  /\ phase = "recheck"
  /\ Charge(3 + ContextCalls, 2)
  /\ phase' = "done"
  /\ outcome' = IF Exceeded' THEN "PAYMENT_WORK_EXCEEDED" ELSE outcome
  /\ UNCHANGED <<invoice, inspected, count, amount, cursor, selected, expansions, refinements, tried>>

\* A plan is answered for the input selected, or the amount due if paid directly.
Answered == phase = "done" /\ (outcome = "direct" \/ selected # NoInput)
AmountIn == IF selected = NoInput THEN amount ELSE selected

SearchNext == Fund \/ Inspect \/ Expand \/ Refine \/ RecheckContext

SearchSpec == SearchInit /\ [][SearchNext]_searchVars

-----------------------------------------------------------------------------
(* Properties.                                                             *)

Errors == {"PAYMENT_SEARCH_BUDGET", "PAYMENT_ELIGIBLE_SET_CHANGED", "PAYMENT_WORK_EXCEEDED"}

\* Whatever the strategies answer, the search keeps within its own limits and
\* those of the service, and within the inputs that leave the set of strategies
\* as it was: none of the errors is thrown, which would lose a payment quote
\* that has been found, and no charge exceeds its limit.
WithinBudget ==
  /\ outcome \notin Errors
  /\ ~Exceeded
  /\ count * StagesUsed <= MaxQuoteCalls

\* What is answered is within what the payer allows and owns.  The search ends
\* with the least input it found sufficient, and everything it
\* tried below that was not; it gives up only after the greatest input it may
\* use has failed; and it stops as adjacent only if one less has failed, or is
\* below the least input.
Conclusive ==
  /\ Answered => AmountIn <= invoice.maximum /\ AmountIn <= invoice.balance
  /\ \A a \in passed : selected # NoInput /\ selected <= a
  /\ selected # NoInput => selected \in passed
  /\ \A a \in failed : a <= cursor /\ (selected # NoInput => a < selected)
  /\ outcome = "search_exhausted" => bound \in failed /\ selected = NoInput
  /\ outcome = "adjacent_cursor" => selected = 2 \/ selected - 1 \in failed
=============================================================================
