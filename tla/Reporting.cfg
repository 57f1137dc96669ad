CONSTANTS
    Timers = {Hourly, NextHour}
    Page = Page
    Cycles = 3
    Imported <- Logged
    DayOf <- Dates
    TaskOf <- Tasks
    InvoicedInTeamwork = {4}
    Resynced <- Changed
    Allowance = 6
    Drafts = {1, 2}
    Periods <- Months
SPECIFICATION MCSpec
INVARIANTS
    AlertAfterThree
PROPERTIES
    HoursAreAccountedFor
    StatusCatchesUp
CHECK_DEADLOCK FALSE
