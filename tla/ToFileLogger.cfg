SPECIFICATION Spec
CONSTANTS
    Reporter = Reporter
    Destroyer = Destroyer
    Writer = Writer
    NoThread = NoThread
    Data = {d1, d2}
    MaxReports = 3
INVARIANTS
    EventsAccountedFor
