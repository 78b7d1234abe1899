CONSTANTS
    Window = 3
    SamplePeriod = 2
    ReportInterval = 5
SPECIFICATION Spec
PROPERTIES
    ObsoleteForgotten
