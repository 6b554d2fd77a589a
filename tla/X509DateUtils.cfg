SPECIFICATION CalendarSpec
CONSTANT LastYear = 2101
INVARIANT DatesExact
