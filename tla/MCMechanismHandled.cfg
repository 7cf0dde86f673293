CONSTANTS
    CpuIds <- Processors
    Names <- SomeNames
    UseLikwid = TRUE
    UseX86Adapt = TRUE
    Unset = Unset
    NULL = NULL
SPECIFICATION Spec
INVARIANT AnnouncedIsHandled
