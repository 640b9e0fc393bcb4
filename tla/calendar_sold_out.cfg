\* One day of one artist; two acts, as two bookings, are enough.
SPECIFICATION Spec
CONSTANTS
    Day = {1}
    DayLength = 3
    Offset = 1
    Artist = {a1}
    ArtistHours <- WorksTwo
    Timetable <- TwoHours
    Duration = {1, 2}
    MaxActs = 2
INVARIANT
    NeverOversold
