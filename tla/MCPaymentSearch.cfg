SPECIFICATION SearchSpec
CONSTANTS
  Invoices <- MCInvoices
  GrossLimit <- MCGrossLimit
  Scale <- MCScale
INVARIANTS
  WithinBudget
  Conclusive
CHECK_DEADLOCK FALSE
