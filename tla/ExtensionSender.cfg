\* Two artifacts, two tasks, streams of three events; two ticks of silence.
SPECIFICATION SenderSpec
CONSTANTS
    IdleTimeout = 2
    Artifact = {a1, a2}
    TaskId = {t1, t2}
    NoTask = NoTask
    MaxEvents = 3
INVARIANTS
    CompletionMeansExited MirrorsRemote ReturnsOwnTask
PROPERTIES
    ListenerSilentAfterClose PromptListenerNotReaped UsesEnd
