\* The smallest walks out of phase with the chunks they step through.
CONSTANTS
    Plans <- OutOfPhasePlans
SPECIFICATION Spec
INVARIANTS ReadWithinBudget
