\* The hours of an untouched draft.  Three entries, an allowance that covers some of them, one manual line, three edits.
CONSTANTS
    Imported <- ThreeEntries
    Eligible <- AnnualService
    Allowance <- TwoHours
    Rates = {6}
    Patches <- TypedPatches
    ManualLines <- TypedLines
    MaxManual = 1
    MaxEdits = 3
SPECIFICATION Spec
INVARIANTS
    HoursConserved
