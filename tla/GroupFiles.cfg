SPECIFICATION Spec
CONSTANTS
    Policies = {"always", "never"}
    Faults = {"before_log_append", "after_log_append", "few_bytes", "short_event", "before_checkpoint_rename", "write", "fsync_file", "rename", "fsync_dir", "power_loss"}
    MaxSequence = 3
    MaxRestarts = 2
CHECK_DEADLOCK FALSE
INVARIANTS
    TypeOK
    SnapshotWhole
    SequenceNotReused
    NoSilentDivergence
    CrashRecoverable
PROPERTIES
    AtomicSpec
