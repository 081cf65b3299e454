\* A listener that takes its time.
SPECIFICATION Spec
CONSTANT IdleTimeout = 2
PROPERTY LiveNotReaped
