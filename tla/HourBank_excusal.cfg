SPECIFICATION MCSpec
CONSTANTS
  Shift = {s1}
  Off = Off
  PlannedDay = 1
  Week = 2
  Pattern <- RotatingOrWeekly
  Slots = 6
  MaxTolerance = 1
  Hours = 4
  WorkStart = 1
  WorkEnd = 3
  MaxHoliday = 7
  MaxSla = 5
  Moments = 8
  NightStart = 7
  NightEnd = 2
  DayShifts <- DayAndNight
  MaxDayPunch = 4
  Request = {r1, r2}
  PunchType = {"in", "out"}
  MaxMoment = 3
  MaxPunch = 2
  Wanted <- Forgotten
  MaxExcused = 1
  MaxClock = 2
  Expected = 1
  RestDay = FALSE
  OvertimePaidInCash = FALSE
INVARIANT ExcusedIsNeutral
CHECK_DEADLOCK FALSE
